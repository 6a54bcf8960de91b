--------------------------- MODULE ServicesProofs ---------------------------
(* Proofs about four components a task's run and a conversation rest on, each by
   an invariant of its own: the scheduler of Cron, the two drafts of StreamDraft,
   the identities TaskIdentity freezes, the meeting of Roundtable.  They share no
   state, and no name but through their instances here; the names of one that
   another has as well are substituted.  The components' constants are any, but
   for the scheduler, whose jobs are numbers and whose period is at least a
   minute, and the meeting, whose seats are a sequence. *)
EXTENDS Integers, Sequences, FiniteSets, SequenceTheorems, WellFoundedInduction, TLAPS

CONSTANTS
    MaxEvents,
    Ids, Kinds, Every, Repeats, MaxRun, MaxEdits, Horizon,
    Versions, AgentTypes, Default, MaxLiveEdits, MaxAttempts, MaxTrouble,
    Seats, Guests, MaxRounds, MaxSeats, Interval, MaxRequests, MaxTokens, MaxSpeeches
VARIABLES
    reply, draft, view,
    file, tick, manual, edits, excuse,
    live, kept, starting, run, alive, cut, made, spent,
    strategy, standing, seats, turn, runner, speech, transcript, asked, requests, present

Draft == INSTANCE StreamDraft
Jobs == INSTANCE Cron
Identities == INSTANCE TaskIdentity WITH file <- kept, MaxEdits <- MaxLiveEdits
Table == INSTANCE Roundtable WITH draft <- speech, status <- standing

-----------------------------------------------------------------------------
(* The scheduler.  A job that is passed over was due for longer than its grace,
   which is two minutes at least; so the invariant counts for how long a job
   without an excuse can have been due: a minute while the loop sleeps, and the
   minutes spent so far while it runs what was due, in the file and in the list
   it will write. *)

\* A job of the list, or the place of one that is not there.
Job == [kind : Kinds \cup {"none"}, enabled : BOOLEAN, next : Int, since : Int, left : Int]

\* The file, or a copy of it that somebody has read.
JobLists == [Ids -> Job]

\* The types; who runs has a list that was read.
CronShape ==
    /\ file \in JobLists
    /\ tick \in [at : {"waiting", "running"}, left : Nat, jobs : JobLists \cup {<<>>}, due : SUBSET Ids, spent : Nat,
                 skips : BOOLEAN]
    /\ manual \in [job : Ids \cup {0}, jobs : JobLists \cup {<<>>}]
    /\ tick.at = "running" => tick.jobs \in JobLists
    /\ manual.job # 0 => manual.jobs \in JobLists
    /\ excuse \in SUBSET Ids

\* A job that may be passed over is not due for longer than that.
Timely(job, since) ==
    job.kind \in {"interval", "cron"} /\ job.enabled => job.next = Jobs!Never \/ job.next >= since

\* The loop looks again within a minute, and until then no job without an
\* excuse is due for longer than the loop has been away.
LoopWaitingOK ==
    tick.at = "waiting" =>
        /\ tick.left \in {0, 1}
        /\ \A j \in Ids \ excuse : Timely(file[j], tick.left - 1)

\* Runs that took longer than a minute excuse every job; before that a job is
\* due at most for the minutes spent, in the file and in the list that is
\* written in its place.
RunningOK ==
    tick.at = "running" =>
        /\ tick.spent > 1 => excuse = Ids
        /\ \A j \in Ids \ excuse : Timely(file[j], -1 - tick.spent)
        /\ \A j \in (Ids \ excuse) \ tick.due : Timely(tick.jobs[j], 1 - tick.spent)

\* What every step of the loop and of people keeps.
CronInv == CronShape /\ LoopWaitingOK /\ RunningOK

\* The numbers the arithmetic below is about.
LEMMA CountedRight ==
    ASSUME Jobs!Numbered
    PROVE  Every \in Int /\ Every >= 1 /\ Horizon \in Int /\ Horizon >= 0 /\ Jobs!Never = Horizon /\ Ids \subseteq Int
  BY DEF Jobs!Numbered, Jobs!Never

\* A minute later a job is due a minute longer.
LEMMA AgedRight ==
    ASSUME Jobs!Numbered, NEW job \in Job, NEW since \in Int, Timely(job, since)
    PROVE  Jobs!Aged(job) \in Job /\ Timely(Jobs!Aged(job), since - 1)
<1>1. /\ job.kind \in Kinds \cup {"none"} /\ job.enabled \in BOOLEAN /\ job.next \in Int /\ job.since \in Int
      /\ job.left \in Int
  BY DEF Job
<1>2. PICK next, ran : /\ next = (IF job.next = Jobs!Never THEN Jobs!Never ELSE Jobs!Larger(job.next - 1, -Horizon))
                       /\ ran = (IF job.since = -1 THEN -1 ELSE Jobs!Smaller(job.since + 1, Horizon + Every))
  OBVIOUS
<1>3. next \in Int /\ ran \in Int /\ (next = Jobs!Never \/ next >= job.next - 1)
  BY <1>1, <1>2, CountedRight DEF Jobs!Larger, Jobs!Smaller
<1>4. Jobs!Aged(job) = [job EXCEPT !.next = next, !.since = ran]
  BY <1>2 DEF Jobs!Aged
<1>5. /\ Jobs!Aged(job) \in Job /\ Jobs!Aged(job).kind = job.kind /\ Jobs!Aged(job).enabled = job.enabled
      /\ Jobs!Aged(job).next = next
  BY <1>3, <1>4 DEF Job
<1>6. job.next = Jobs!Never => next = Jobs!Never
  BY <1>2
<1> QED
  BY <1>1, <1>3, <1>5, <1>6 DEF Timely

\* The same for all jobs of a list.
LEMMA AllAgedRight ==
    ASSUME Jobs!Numbered, NEW jobs \in JobLists
    PROVE  /\ Jobs!AllAged(jobs) \in JobLists
           /\ \A j \in Ids, since \in Int : Timely(jobs[j], since) => Timely(Jobs!AllAged(jobs)[j], since - 1)
<1>1. ASSUME NEW j \in Ids PROVE jobs[j] \in Job /\ Jobs!Aged(jobs[j]) \in Job
  <2>1. jobs[j] \in Job
    BY DEF JobLists
  <2>2. PICK since \in Int : Timely(jobs[j], since)
    <3>1. jobs[j].next \in Int
      BY <2>1 DEF Job
    <3>2. Timely(jobs[j], jobs[j].next)
      BY <3>1 DEF Timely
    <3> QED
      BY <3>1, <3>2
  <2> QED
    BY <2>1, <2>2, AgedRight
<1>2. ASSUME NEW j \in Ids, NEW since \in Int, Timely(jobs[j], since)
      PROVE  Timely(Jobs!AllAged(jobs)[j], since - 1)
  <2>1. Jobs!AllAged(jobs)[j] = Jobs!Aged(jobs[j])
    BY DEF Jobs!AllAged
  <2> QED
    BY <1>1, <1>2, <2>1, AgedRight
<1> QED
  BY <1>1, <1>2 DEF Jobs!AllAged, JobLists

\* The next run of a job that has just run or is new lies ahead.
LEMMA NextRunsRight ==
    ASSUME Jobs!Numbered, NEW job \in Job, job.since \in {-1, 0}, NEW next \in Jobs!NextRuns(job)
    PROVE  next \in Int /\ (job.kind \in {"interval", "cron"} => next >= 1)
<1>1. job.next \in Int
  BY DEF Job
<1>2. CASE job.kind = "interval" /\ job.since = -1
  BY <1>2, CountedRight DEF Jobs!NextRuns
<1>3. CASE job.kind = "interval" /\ job.since = 0
  <2>1. next = Jobs!Larger(Every - job.since, -Horizon)
    BY <1>3 DEF Jobs!NextRuns
  <2> QED
    BY <1>3, <2>1, CountedRight DEF Jobs!Larger
<1>4. CASE job.kind = "cron"
  <2>1. next \in 1 .. Every
    BY <1>4 DEF Jobs!NextRuns
  <2> QED
    BY <2>1, CountedRight
<1>5. CASE job.kind \notin {"interval", "cron"}
  <2>1. next = IF job.next > 0 THEN job.next ELSE Jobs!Never
    BY <1>5 DEF Jobs!NextRuns
  <2> QED
    BY <1>1, <1>5, <2>1, CountedRight
<1> QED
  BY <1>2, <1>3, <1>4, <1>5

\* After a run (mark_job_run) a job is not due within the minute.
LEMMA MarkedRight ==
    ASSUME Jobs!Numbered, NEW job \in Job, NEW marked \in Jobs!Marked(job)
    PROVE  marked \in Job /\ Timely(marked, 1)
<1>1. PICK ran : ran = [job EXCEPT !.since = 0]
  OBVIOUS
<1>2. ran \in Job /\ ran.since = 0 /\ ran.kind = job.kind
  BY <1>1 DEF Job
<1>3. PICK n \in Jobs!NextRuns(ran) : marked = Jobs!MarkedAt(job, n)
  BY <1>1 DEF Jobs!Marked
<1>4. n \in Int /\ (job.kind \in {"interval", "cron"} => n >= 1)
  BY <1>2, <1>3, NextRunsRight
<1>5. PICK done \in BOOLEAN : done = (job.kind \in {"once", "naive"} \/ job.left = 1)
  OBVIOUS
<1>6. PICK next, left : next = (IF done THEN Jobs!Never ELSE n) /\ left = (IF job.left > 1 THEN job.left - 1 ELSE job.left)
  OBVIOUS
<1>7. next \in Int /\ left \in Int
  BY <1>4, <1>6, CountedRight DEF Job
<1>8. PICK on \in BOOLEAN : on = (job.enabled /\ ~done)
  OBVIOUS
<1>9. job.enabled \in BOOLEAN
  BY DEF Job
<1>10. marked = [job EXCEPT !.since = 0, !.left = left, !.enabled = on, !.next = next]
  <2>1. CASE done
    BY <1>3, <1>5, <1>6, <1>8, <2>1 DEF Jobs!MarkedAt
  <2>2. CASE ~done
    BY <1>3, <1>5, <1>6, <1>8, <1>9, <2>2 DEF Jobs!MarkedAt
  <2> QED
    BY <2>1, <2>2
<1>11. marked \in Job /\ marked.kind = job.kind /\ marked.next = next
  <2>1. job = [kind |-> job.kind, enabled |-> job.enabled, next |-> job.next, since |-> job.since, left |-> job.left]
    BY DEF Job
  <2>2. marked = [kind |-> job.kind, enabled |-> on, next |-> next, since |-> 0, left |-> left]
    BY <1>10, <2>1
  <2>3. job.kind \in Kinds \cup {"none"}
    BY DEF Job
  <2> QED
    BY <1>7, <1>8, <2>2, <2>3 DEF Job
<1> QED
  BY <1>4, <1>6, <1>11 DEF Timely

\* The loop between two ticks has the type the variable has.
LEMMA IdleRight ==
    ASSUME NEW n \in {0, 1}
    PROVE  /\ Jobs!Idle(n) \in [at : {"waiting", "running"}, left : Nat, jobs : JobLists \cup {<<>>}, due : SUBSET Ids,
                           spent : Nat, skips : BOOLEAN]
           /\ Jobs!Idle(n).at = "waiting" /\ Jobs!Idle(n).left = n
  BY DEF Jobs!Idle

\* Whoever is timely enough is so for less.
LEMMA TimelyWeakens ==
    ASSUME NEW job \in Job, NEW a \in Int, NEW b \in Int, a <= b, Timely(job, b)
    PROVE  Timely(job, a)
<1>1. job.next \in Int
  BY DEF Job
<1> QED
  BY <1>1 DEF Timely

\* A loop that waits, and jobs that are not yet due, or have been for a minute.
LEMMA LoopWaits ==
    ASSUME Jobs!Numbered, file' \in JobLists, NEW n \in {0, 1}, tick' = Jobs!Idle(n), manual' \in [job : Ids \cup {0}, jobs : JobLists \cup {<<>>}],
           manual'.job # 0 => manual'.jobs \in JobLists, excuse' \in SUBSET Ids,
           \A j \in Ids \ excuse' : Timely(file'[j], n - 1)
    PROVE  CronInv'
<1>1. tick'.at = "waiting" /\ tick'.left = n
  BY IdleRight
<1>2. CronShape'
  BY <1>1, IdleRight DEF CronShape
<1> QED
  BY <1>1, <1>2 DEF CronInv, LoopWaitingOK, RunningOK

\* The first tick comes at once, before anything can be late.
LEMMA InitCron == Jobs!Numbered /\ Jobs!Init => CronInv
<1> SUFFICES ASSUME Jobs!Numbered, Jobs!Init PROVE CronInv
  OBVIOUS
<1>1. PICK kinds \in [Ids -> (Kinds \ {"naive"}) \cup {"none"}] :
          file = [j \in Ids |-> IF kinds[j] = "none" THEN Jobs!NoJob
                                ELSE [kind |-> kinds[j], enabled |-> TRUE, next |-> j, since |-> -1, left |-> 0]]
  BY DEF Jobs!Init
<1>2. tick = Jobs!Idle(0) /\ manual = Jobs!Nobody /\ excuse = {}
  BY DEF Jobs!Init
<1>3. ASSUME NEW j \in Ids PROVE file[j] \in Job /\ Timely(file[j], -1)
  <2>1. kinds[j] \in Kinds \cup {"none"} /\ j \in Nat
    BY DEF Jobs!Numbered
  <2>2. CASE kinds[j] = "none"
    BY <1>1, <2>2, CountedRight DEF Jobs!NoJob, Job, Timely
  <2>3. CASE kinds[j] # "none"
    <3>1. file[j] = [kind |-> kinds[j], enabled |-> TRUE, next |-> j, since |-> -1, left |-> 0]
      BY <1>1, <2>3
    <3> QED
      BY <2>1, <3>1 DEF Job, Timely
  <2> QED
    BY <2>2, <2>3
<1>4. file \in JobLists
  <2>1. file = [j \in Ids |-> file[j]]
    BY <1>1
  <2> QED
    BY <1>3, <2>1 DEF JobLists
<1>5. tick.at = "waiting" /\ tick.left = 0 /\ CronShape
  BY <1>2, <1>4, IdleRight DEF CronShape, Jobs!Nobody
<1>6. LoopWaitingOK
  BY <1>3, <1>5 DEF LoopWaitingOK
<1> QED
  BY <1>5, <1>6 DEF CronInv, RunningOK

\* Nothing that is not yet excused is passed over.
LEMMA NotOverdue ==
    ASSUME Jobs!Numbered, CronInv, NEW j \in Ids, Jobs!Overdue(file[j])
    PROVE  j \in excuse
<1> SUFFICES ASSUME j \notin excuse PROVE FALSE
  OBVIOUS
<1>1. file[j] \in Job
  BY DEF CronInv, CronShape, JobLists
<1>2. /\ file[j].enabled /\ file[j].next # Jobs!Never /\ file[j].kind \in {"interval", "cron"}
      /\ -file[j].next > Jobs!Grace(Every)
  BY CountedRight DEF Jobs!Overdue, Jobs!Due, Jobs!Period
<1>3. Jobs!Grace(Every) \in Int /\ Jobs!Grace(Every) >= 2
  <2>1. PICK half \in Int : half = Every \div 2
    BY DEF Jobs!Numbered
  <2>2. Jobs!Grace(Every) = Jobs!Smaller(Jobs!Larger(half, 2), 120)
    BY <2>1 DEF Jobs!Grace
  <2> QED
    BY <2>2 DEF Jobs!Smaller, Jobs!Larger
<1>4. file[j].next \in Int /\ file[j].next < -2
  BY <1>1, <1>2, <1>3 DEF Job
<1>5. CASE tick.at = "waiting"
  <2>1. Timely(file[j], tick.left - 1) /\ tick.left \in {0, 1}
    BY <1>5 DEF CronInv, LoopWaitingOK
  <2> QED
    BY <1>2, <1>4, <2>1 DEF Timely
<1>6. CASE tick.at = "running"
  <2>1. tick.spent \in Nat /\ ~(tick.spent > 1)
    BY <1>6 DEF CronInv, CronShape, RunningOK
  <2>2. Timely(file[j], -1 - tick.spent)
    BY <1>6 DEF CronInv, RunningOK
  <2> QED
    BY <1>2, <1>4, <2>1, <2>2 DEF Timely
<1> QED
  BY <1>5, <1>6 DEF CronInv, CronShape

\* A tick starts runs of what is due, or goes back to sleep.
LEMMA TickStep == Jobs!Numbered /\ CronInv /\ Jobs!Tick => CronInv'
<1> SUFFICES ASSUME Jobs!Numbered, CronInv, Jobs!Tick PROVE CronInv'
  OBVIOUS
<1>0. CronShape
  BY DEF CronInv
<1> DEFINE skipped == {j \in Ids : Jobs!Overdue(file[j])}
           due == {j \in Ids : Jobs!Due(file[j])} \ skipped
<1>1. /\ tick.at = "waiting" /\ tick.left = 0 /\ UNCHANGED <<file, manual, edits>>
      /\ excuse' = IF Jobs!Unreadable(file) THEN Ids ELSE excuse
      /\ tick' = IF Jobs!Unreadable(file) \/ due = {} THEN Jobs!Idle(1)
                 ELSE [at |-> "running", left |-> 0, jobs |-> file, due |-> due, spent |-> 0, skips |-> skipped # {}]
  BY DEF Jobs!Tick
<1>2. ASSUME NEW j \in Ids \ excuse PROVE file[j] \in Job /\ Timely(file[j], -1) /\ (j \notin due => Timely(file[j], 1))
  <2>1. file[j] \in Job
    BY <1>0 DEF CronShape, JobLists
  <2>2. Timely(file[j], -1)
    BY <1>1 DEF CronInv, LoopWaitingOK
  <2>3. ASSUME j \notin due PROVE Timely(file[j], 1)
    <3>1. ~Jobs!Overdue(file[j])
      BY NotOverdue
    <3>2. ~Jobs!Due(file[j])
      BY <2>3, <3>1
    <3> QED
      BY <2>1, <3>2 DEF Jobs!Due, Timely, Job
  <2> QED
    BY <2>1, <2>2, <2>3
<1>3. due \in SUBSET Ids /\ (skipped # {}) \in BOOLEAN
  OBVIOUS
<1> HIDE DEF skipped, due
<1>4. /\ file' \in JobLists /\ manual' \in [job : Ids \cup {0}, jobs : JobLists \cup {<<>>}]
      /\ manual'.job # 0 => manual'.jobs \in JobLists
      /\ excuse' \in SUBSET Ids
  BY <1>0, <1>1 DEF CronShape
<1>5. CASE Jobs!Unreadable(file) \/ due = {}
  <2>1. tick' = Jobs!Idle(1)
    BY <1>1, <1>5
  <2>2. ASSUME NEW j \in Ids \ excuse' PROVE Timely(file'[j], 1 - 1)
    <3>1. j \notin excuse /\ due = {}
      BY <1>1, <1>5, <2>2
    <3>2. file[j] \in Job /\ Timely(file[j], 1)
      BY <1>2, <3>1
    <3> QED
      BY <1>1, <3>2, TimelyWeakens
  <2> QED
    BY <1>4, <2>1, <2>2, LoopWaits
<1>6. CASE ~(Jobs!Unreadable(file) \/ due = {})
  <2>1. /\ tick' = [at |-> "running", left |-> 0, jobs |-> file, due |-> due, spent |-> 0, skips |-> skipped # {}]
        /\ excuse' = excuse
    BY <1>1, <1>6
  <2>2. /\ tick'.at = "running" /\ tick'.jobs = file /\ tick'.due = due /\ tick'.spent = 0
        /\ tick' \in [at : {"waiting", "running"}, left : Nat, jobs : JobLists \cup {<<>>}, due : SUBSET Ids, spent : Nat,
                      skips : BOOLEAN]
    BY <1>0, <1>3, <2>1 DEF CronShape
  <2>3. CronShape'
    BY <1>1, <1>4, <2>2 DEF CronShape
  <2>4. RunningOK'
    BY <1>1, <1>2, <2>1, <2>2 DEF RunningOK
  <2> QED
    BY <2>2, <2>3, <2>4 DEF CronInv, LoopWaitingOK
<1> QED
  BY <1>5, <1>6

\* After the last run the list of the tick replaces the file: timely jobs in it
\* have been ageing as long as those of the file.
LEMMA RunEndsStep == Jobs!Numbered /\ CronInv /\ Jobs!RunEnds => CronInv'
<1> SUFFICES ASSUME Jobs!Numbered, CronInv, Jobs!RunEnds PROVE CronInv'
  OBVIOUS
<1>0. CronShape /\ RunningOK
  BY DEF CronInv
<1>1. tick.at = "running" /\ UNCHANGED <<manual, edits>>
  BY DEF Jobs!RunEnds
<1>2. PICK j \in tick.due :
          \E marked \in Jobs!Marked(tick.jobs[j]) :
             LET jobs == [tick.jobs EXCEPT ![j] = marked]
             IN  IF tick.due # {j}
                 THEN /\ tick' = [tick EXCEPT !.jobs = jobs, !.due = @ \ {j}]
                      /\ UNCHANGED <<file, excuse>>
                 ELSE /\ tick' = Jobs!Idle(1)
                      /\ file' = IF tick.skips THEN file ELSE jobs
                      /\ excuse' = IF tick.skips \/ Jobs!There(file) # Jobs!There(jobs) THEN Ids ELSE excuse
  BY DEF Jobs!RunEnds
<1>10. PICK marked \in Jobs!Marked(tick.jobs[j]) :
          LET jobs == [tick.jobs EXCEPT ![j] = marked]
          IN  IF tick.due # {j}
              THEN /\ tick' = [tick EXCEPT !.jobs = jobs, !.due = @ \ {j}]
                   /\ UNCHANGED <<file, excuse>>
              ELSE /\ tick' = Jobs!Idle(1)
                   /\ file' = IF tick.skips THEN file ELSE jobs
                   /\ excuse' = IF tick.skips \/ Jobs!There(file) # Jobs!There(jobs) THEN Ids ELSE excuse
  BY <1>2
<1>11. PICK jobs : jobs = [tick.jobs EXCEPT ![j] = marked]
  OBVIOUS
<1>12. IF tick.due # {j}
       THEN tick' = [tick EXCEPT !.jobs = jobs, !.due = @ \ {j}] /\ UNCHANGED <<file, excuse>>
       ELSE /\ tick' = Jobs!Idle(1)
            /\ file' = IF tick.skips THEN file ELSE jobs
            /\ excuse' = IF tick.skips \/ Jobs!There(file) # Jobs!There(jobs) THEN Ids ELSE excuse
  BY <1>10, <1>11
<1>3. /\ tick.jobs \in JobLists /\ tick.due \in SUBSET Ids /\ tick.spent \in Nat /\ j \in Ids /\ file \in JobLists
      /\ tick \in [at : {"waiting", "running"}, left : Nat, jobs : JobLists \cup {<<>>}, due : SUBSET Ids, spent : Nat,
                   skips : BOOLEAN]
      /\ manual' \in [job : Ids \cup {0}, jobs : JobLists \cup {<<>>}] /\ (manual'.job # 0 => manual'.jobs \in JobLists)
      /\ excuse \in SUBSET Ids
  BY <1>0, <1>1, <1>2 DEF CronShape
<1>4. marked \in Job /\ Timely(marked, 1)
  <2>1. tick.jobs[j] \in Job
    BY <1>3 DEF JobLists
  <2> QED
    BY <1>10, <2>1, MarkedRight
<1>5. /\ jobs \in JobLists /\ jobs[j] = marked
      /\ \A i \in Ids \ {j} : jobs[i] = tick.jobs[i]
  BY <1>3, <1>4, <1>11 DEF JobLists
<1>6. ASSUME NEW i \in (Ids \ excuse) \ (tick.due \ {j}) PROVE Timely(jobs[i], 1 - tick.spent)
  <2>1. CASE i = j
    <3>1. 1 - tick.spent \in Int /\ 1 - tick.spent <= 1
      BY <1>3
    <3> QED
      BY <1>4, <1>5, <2>1, <3>1, TimelyWeakens
  <2>2. CASE i # j
    BY <1>0, <1>1, <1>5, <2>2 DEF RunningOK
  <2> QED
    BY <2>1, <2>2
<1>7. CASE tick.due # {j}
  <2>1. tick' = [tick EXCEPT !.jobs = jobs, !.due = @ \ {j}] /\ UNCHANGED <<file, excuse>>
    BY <1>12, <1>7
  <2>2. /\ tick'.at = "running" /\ tick'.jobs = jobs /\ tick'.due = tick.due \ {j} /\ tick'.spent = tick.spent
        /\ tick' \in [at : {"waiting", "running"}, left : Nat, jobs : JobLists \cup {<<>>}, due : SUBSET Ids, spent : Nat,
                      skips : BOOLEAN]
    BY <1>1, <1>3, <1>5, <2>1
  <2>3. CronShape'
    BY <1>3, <1>5, <2>1, <2>2 DEF CronShape
  <2>4. RunningOK'
    BY <1>0, <1>1, <1>6, <2>1, <2>2 DEF RunningOK
  <2> QED
    BY <2>2, <2>3, <2>4 DEF CronInv, LoopWaitingOK
<1>8. CASE tick.due = {j}
  <2>1. /\ tick' = Jobs!Idle(1)
        /\ file' = IF tick.skips THEN file ELSE jobs
        /\ excuse' = IF tick.skips \/ Jobs!There(file) # Jobs!There(jobs) THEN Ids ELSE excuse
    BY <1>12, <1>8
  <2>2. file' \in JobLists /\ excuse' \in SUBSET Ids
    BY <1>3, <1>5, <2>1
  <2>3. ASSUME NEW i \in Ids \ excuse' PROVE Timely(file'[i], 1 - 1)
    <3>1. file' = jobs /\ i \in Ids \ excuse
      BY <2>1, <2>3
    <3>2. ~(tick.spent > 1)
      BY <1>0, <1>1, <3>1 DEF RunningOK
    <3>3. Timely(jobs[i], 1 - tick.spent)
      BY <1>6, <1>8, <3>1
    <3>4. 1 - tick.spent \in Int /\ 0 <= 1 - tick.spent /\ jobs[i] \in Job
      BY <1>3, <1>5, <3>2 DEF JobLists
    <3> QED
      BY <3>1, <3>3, <3>4, TimelyWeakens
  <2> QED
    BY <1>3, <2>1, <2>2, <2>3, LoopWaits
<1> QED
  BY <1>7, <1>8

\* What people do to the file, and the loop goes on.
LEMMA LoopGoesOn ==
    ASSUME Jobs!Numbered, CronInv, file' \in JobLists, UNCHANGED tick, manual' \in [job : Ids \cup {0}, jobs : JobLists \cup {<<>>}],
           manual'.job # 0 => manual'.jobs \in JobLists, excuse' \in SUBSET Ids, excuse \subseteq excuse',
           \A j \in Ids \ excuse' : file'[j] = file[j] \/ Timely(file'[j], 0)
    PROVE  CronInv'
<1>1. CronShape'
  BY DEF CronInv, CronShape
<1>2. ASSUME NEW j \in Ids, NEW since \in Int, since <= 0, j \notin excuse', Timely(file[j], since)
      PROVE  Timely(file'[j], since)
  <2>1. CASE file'[j] = file[j]
    BY <1>2, <2>1
  <2>2. CASE Timely(file'[j], 0)
    <3>1. file'[j] \in Job
      BY DEF JobLists
    <3> QED
      BY <1>2, <2>2, <3>1, TimelyWeakens
  <2> QED
    BY <1>2, <2>1, <2>2
<1>3. ASSUME tick.at = "waiting" PROVE LoopWaitingOK'
  <2>1. tick.left \in {0, 1} /\ \A j \in Ids \ excuse : Timely(file[j], tick.left - 1)
    BY <1>3 DEF CronInv, LoopWaitingOK
  <2>2. tick.left - 1 \in Int /\ tick.left - 1 <= 0
    BY <2>1
  <2>3. \A j \in Ids \ excuse' : Timely(file'[j], tick.left - 1)
    BY <1>2, <2>1, <2>2
  <2> QED
    BY <2>1, <2>3 DEF LoopWaitingOK
<1>4. ASSUME tick.at = "running" PROVE RunningOK'
  <2>1. /\ tick.spent > 1 => excuse = Ids
        /\ \A j \in Ids \ excuse : Timely(file[j], -1 - tick.spent)
        /\ \A j \in (Ids \ excuse) \ tick.due : Timely(tick.jobs[j], 1 - tick.spent)
    BY <1>4 DEF CronInv, RunningOK
  <2>2. -1 - tick.spent \in Int /\ -1 - tick.spent <= 0
    BY DEF CronInv, CronShape
  <2>3. \A j \in Ids \ excuse' : Timely(file'[j], -1 - tick.spent)
    BY <1>2, <2>1, <2>2
  <2> QED
    BY <2>1, <2>3 DEF RunningOK
<1> QED
  BY <1>1, <1>3, <1>4 DEF CronInv, LoopWaitingOK, RunningOK

\* A minute passes, for the loop and everything it holds.
LEMMA MinuteStep == Jobs!Numbered /\ CronInv /\ Jobs!Minute => CronInv'
<1> SUFFICES ASSUME Jobs!Numbered, CronInv, Jobs!Minute PROVE CronInv'
  OBVIOUS
<1>0. CronShape
  BY DEF CronInv
<1>1. /\ tick.at = "waiting" => tick.left > 0
      /\ file' = Jobs!AllAged(file)
      /\ tick' = IF tick.at = "waiting" THEN [tick EXCEPT !.left = @ - 1]
                 ELSE [tick EXCEPT !.jobs = Jobs!AllAged(@), !.spent = @ + 1]
      /\ manual' = IF manual.job = 0 THEN manual ELSE [manual EXCEPT !.jobs = Jobs!AllAged(@)]
      /\ excuse' = IF tick.at = "running" /\ tick.spent > 0 THEN Ids ELSE excuse
  BY DEF Jobs!Minute
<1>2. /\ file' \in JobLists
      /\ \A j \in Ids, since \in Int : Timely(file[j], since) => Timely(file'[j], since - 1)
  BY <1>0, <1>1, AllAgedRight DEF CronShape
<1>3. /\ manual' \in [job : Ids \cup {0}, jobs : JobLists \cup {<<>>}]
      /\ manual'.job # 0 => manual'.jobs \in JobLists
  <2>1. CASE manual.job = 0
    BY <1>0, <1>1, <2>1 DEF CronShape
  <2>2. CASE manual.job # 0
    <3>1. PICK aged : aged = Jobs!AllAged(manual.jobs)
      OBVIOUS
    <3>2. aged \in JobLists
      BY <1>0, <2>2, <3>1, AllAgedRight DEF CronShape
    <3>3. manual' = [manual EXCEPT !.jobs = aged]
      BY <1>1, <2>2, <3>1
    <3> QED
      BY <1>0, <3>2, <3>3 DEF CronShape
  <2> QED
    BY <2>1, <2>2
<1>4. excuse' \in SUBSET Ids
  BY <1>0, <1>1 DEF CronShape
<1>5. CASE tick.at = "waiting"
  <2>1. tick.left = 1 /\ \A j \in Ids \ excuse : Timely(file[j], 0)
    BY <1>1, <1>5 DEF CronInv, LoopWaitingOK
  <2>2. tick' = [tick EXCEPT !.left = 0] /\ excuse' = excuse
    BY <1>1, <1>5, <2>1
  <2>3. /\ tick'.at = "waiting" /\ tick'.left = 0
        /\ tick' \in [at : {"waiting", "running"}, left : Nat, jobs : JobLists \cup {<<>>}, due : SUBSET Ids, spent : Nat,
                      skips : BOOLEAN]
    BY <1>0, <1>5, <2>2 DEF CronShape
  <2>4. \A j \in Ids \ excuse' : Timely(file'[j], tick'.left - 1)
    BY <1>2, <2>1, <2>2, <2>3
  <2>5. CronShape'
    BY <1>2, <1>3, <1>4, <2>3 DEF CronShape
  <2> QED
    BY <2>3, <2>4, <2>5 DEF CronInv, LoopWaitingOK, RunningOK
<1>6. CASE tick.at # "waiting"
  <2>1. tick.at = "running" /\ tick.spent \in Nat /\ tick.jobs \in JobLists
    BY <1>0, <1>6 DEF CronShape
  <2>2. /\ tick.spent > 1 => excuse = Ids
        /\ \A j \in Ids \ excuse : Timely(file[j], -1 - tick.spent)
        /\ \A j \in (Ids \ excuse) \ tick.due : Timely(tick.jobs[j], 1 - tick.spent)
    BY <2>1 DEF CronInv, RunningOK
  <2>3. PICK aged : aged = Jobs!AllAged(tick.jobs)
    OBVIOUS
  <2>4. /\ aged \in JobLists
        /\ \A j \in Ids, since \in Int : Timely(tick.jobs[j], since) => Timely(aged[j], since - 1)
    BY <2>1, <2>3, AllAgedRight
  <2>5. tick' = [tick EXCEPT !.jobs = aged, !.spent = @ + 1]
    BY <1>1, <1>6, <2>3
  <2>6. /\ tick'.at = "running" /\ tick'.jobs = aged /\ tick'.due = tick.due /\ tick'.spent = tick.spent + 1
        /\ tick' \in [at : {"waiting", "running"}, left : Nat, jobs : JobLists \cup {<<>>}, due : SUBSET Ids, spent : Nat,
                      skips : BOOLEAN]
    <3>1. tick \in [at : {"waiting", "running"}, left : Nat, jobs : JobLists \cup {<<>>}, due : SUBSET Ids,
                    spent : Nat, skips : BOOLEAN]
      BY <1>0 DEF CronShape
    <3>2. PICK longer : longer = tick.spent + 1
      OBVIOUS
    <3>3. longer \in Nat
      BY <2>1, <3>2
    <3>4. tick' = [tick EXCEPT !.jobs = aged, !.spent = longer]
      BY <2>5, <3>2
    <3> QED
      BY <2>1, <2>4, <3>1, <3>2, <3>3, <3>4
  <2>7. CronShape'
    BY <1>2, <1>3, <1>4, <2>4, <2>6 DEF CronShape
  <2>8. (tick'.spent > 1 => excuse' = Ids) /\ excuse \subseteq excuse'
    BY <1>0, <1>1, <2>1, <2>6 DEF CronShape
  <2>9. /\ -1 - tick.spent \in Int /\ (-1 - tick.spent) - 1 = -1 - tick'.spent
        /\ 1 - tick.spent \in Int /\ (1 - tick.spent) - 1 = 1 - tick'.spent
    BY <2>1, <2>6
  <2>10. \A j \in Ids \ excuse' : Timely(file'[j], -1 - tick'.spent)
    <3>1. \A j \in Ids \ excuse' : Timely(file'[j], (-1 - tick.spent) - 1)
      BY <1>2, <2>2, <2>8, <2>9
    <3> QED
      BY <2>9, <3>1
  <2>11. \A j \in (Ids \ excuse') \ tick'.due : Timely(tick'.jobs[j], 1 - tick'.spent)
    <3>1. \A j \in (Ids \ excuse') \ tick'.due : Timely(aged[j], (1 - tick.spent) - 1)
      BY <2>2, <2>4, <2>6, <2>8, <2>9
    <3> QED
      BY <2>6, <2>9, <3>1
  <2> QED
    BY <2>6, <2>7, <2>8, <2>10, <2>11 DEF CronInv, LoopWaitingOK, RunningOK
<1> QED
  BY <1>5, <1>6

\* A new job is due later, or it has no time at all.
LEMMA CreateStep == Jobs!Numbered /\ CronInv /\ Jobs!Create => CronInv'
<1> SUFFICES ASSUME Jobs!Numbered, CronInv, Jobs!Create PROVE CronInv'
  OBVIOUS
<1>0. CronShape
  BY DEF CronInv
<1>1. PICK j \in Ids \ Jobs!There(file), kind \in Kinds, at \in {-1, 1}, left \in Repeats :
         LET job == [kind |-> kind, enabled |-> kind \in {"once", "naive"} => at > 0,
                     next |-> at, since |-> -1, left |-> left]
         IN  \E next \in Jobs!NextRuns(job) :
                file' = [file EXCEPT ![j] =
                            [job EXCEPT !.next = IF kind \in {"once", "naive"} THEN at ELSE next]]
  BY DEF Jobs!Create
<1>2. PICK on \in BOOLEAN : on = (kind \in {"once", "naive"} => at > 0)
  OBVIOUS
<1>3. PICK job : job = [kind |-> kind, enabled |-> on, next |-> at, since |-> -1, left |-> left]
  OBVIOUS
<1>4. job \in Job /\ job.since = -1 /\ job.kind = kind
  <2>1. at \in Int /\ left \in Int
    BY DEF Jobs!Numbered
  <2> QED
    BY <1>3, <2>1 DEF Job
<1>5. PICK next \in Jobs!NextRuns(job) :
          file' = [file EXCEPT ![j] = [job EXCEPT !.next = IF kind \in {"once", "naive"} THEN at ELSE next]]
  BY <1>1, <1>2, <1>3
<1>6. next \in Int /\ (kind \in {"interval", "cron"} => next >= 1)
  BY <1>4, <1>5, NextRunsRight
<1>7. PICK time : time = IF kind \in {"once", "naive"} THEN at ELSE next
  OBVIOUS
<1>8. time \in Int /\ (kind \in {"interval", "cron"} => time >= 1)
  BY <1>6, <1>7
<1>9. PICK new : new = [job EXCEPT !.next = time]
  OBVIOUS
<1>10. new \in Job /\ Timely(new, 0)
  BY <1>4, <1>8, <1>9 DEF Job, Timely
<1>11. file' = [file EXCEPT ![j] = new]
  BY <1>5, <1>7, <1>9
<1>12. file' \in JobLists /\ \A i \in Ids : file'[i] = file[i] \/ Timely(file'[i], 0)
  BY <1>0, <1>10, <1>11 DEF CronShape, JobLists
<1>13. UNCHANGED <<tick, manual, excuse>>
  BY DEF Jobs!Create
<1> QED
  BY <1>0, <1>12, <1>13, LoopGoesOn DEF CronShape

\* A job that is not there is never late.
LEMMA RemoveStep == Jobs!Numbered /\ CronInv /\ Jobs!RemoveJob => CronInv'
<1> SUFFICES ASSUME Jobs!Numbered, CronInv, Jobs!RemoveJob PROVE CronInv'
  OBVIOUS
<1>0. CronShape
  BY DEF CronInv
<1>1. PICK j \in Jobs!There(file) : file' = [file EXCEPT ![j] = Jobs!NoJob]
  BY DEF Jobs!RemoveJob
<1>2. Jobs!NoJob \in Job /\ Timely(Jobs!NoJob, 0)
  BY CountedRight DEF Jobs!NoJob, Job, Timely
<1>3. file' \in JobLists /\ \A i \in Ids : file'[i] = file[i] \/ Timely(file'[i], 0)
  BY <1>0, <1>1, <1>2 DEF CronShape, JobLists
<1>4. UNCHANGED <<tick, manual, excuse>>
  BY DEF Jobs!RemoveJob
<1> QED
  BY <1>0, <1>3, <1>4, LoopGoesOn DEF CronShape

\* A job that is paused is never late.
LEMMA PauseStep == Jobs!Numbered /\ CronInv /\ Jobs!Pause => CronInv'
<1> SUFFICES ASSUME Jobs!Numbered, CronInv, Jobs!Pause PROVE CronInv'
  OBVIOUS
<1>0. CronShape
  BY DEF CronInv
<1>1. PICK j \in Jobs!There(file) : file' = [file EXCEPT ![j].enabled = FALSE]
  BY DEF Jobs!Pause
<1>2. PICK paused : paused = [file[j] EXCEPT !.enabled = FALSE]
  OBVIOUS
<1>3. j \in Ids /\ file[j] \in Job
  BY <1>0 DEF Jobs!There, CronShape, JobLists
<1>4. paused \in Job /\ Timely(paused, 0)
  BY <1>2, <1>3 DEF Job, Timely
<1>5. file' = [file EXCEPT ![j] = paused]
  BY <1>1, <1>2
<1>6. file' \in JobLists /\ \A i \in Ids : file'[i] = file[i] \/ Timely(file'[i], 0)
  BY <1>0, <1>4, <1>5 DEF CronShape, JobLists
<1>7. UNCHANGED <<tick, manual, excuse>>
  BY DEF Jobs!Pause
<1> QED
  BY <1>0, <1>6, <1>7, LoopGoesOn DEF CronShape

\* A job that is resumed has its excuse.
LEMMA ResumeStep == Jobs!Numbered /\ CronInv /\ Jobs!Resume => CronInv'
<1> SUFFICES ASSUME Jobs!Numbered, CronInv, Jobs!Resume PROVE CronInv'
  OBVIOUS
<1>0. CronShape
  BY DEF CronInv
<1>1. PICK j \in Jobs!There(file) :
         /\ \E next \in Jobs!NextRuns(file[j]) \cup {file[j].next} :
                file' = [file EXCEPT ![j].enabled = TRUE, ![j].next = next]
         /\ excuse' = excuse \cup {j}
  BY DEF Jobs!Resume
<1>2. j \in Ids /\ file[j] \in Job
  BY <1>0 DEF Jobs!There, CronShape, JobLists
<1>3. PICK next \in Jobs!NextRuns(file[j]) \cup {file[j].next} :
          file' = [file EXCEPT ![j].enabled = TRUE, ![j].next = next]
  BY <1>1
<1>4. next \in Int
  <2>1. file[j].next \in Int /\ file[j].since \in Int
    BY <1>2 DEF Job
  <2>2. ASSUME next \in Jobs!NextRuns(file[j]) PROVE next \in Int
    BY <2>1, <2>2, CountedRight DEF Jobs!NextRuns, Jobs!Larger
  <2> QED
    BY <1>3, <2>1, <2>2
<1>5. PICK resumed : resumed = [file[j] EXCEPT !.enabled = TRUE, !.next = next]
  OBVIOUS
<1>6. resumed \in Job
  BY <1>2, <1>4, <1>5 DEF Job
<1>7. file' = [file EXCEPT ![j] = resumed]
  BY <1>0, <1>2, <1>3, <1>5 DEF CronShape, JobLists
<1>8. file' \in JobLists /\ \A i \in Ids \ excuse' : file'[i] = file[i]
  BY <1>0, <1>1, <1>6, <1>7 DEF CronShape, JobLists
<1>9. UNCHANGED <<tick, manual>> /\ excuse' \in SUBSET Ids /\ excuse \subseteq excuse'
  BY <1>0, <1>1, <1>2 DEF Jobs!Resume, CronShape
<1> QED
  BY <1>0, <1>8, <1>9, LoopGoesOn DEF CronShape

\* Somebody reads the file to run a job by hand.
LEMMA RunNowStep == Jobs!Numbered /\ CronInv /\ Jobs!RunNow => CronInv'
<1> SUFFICES ASSUME Jobs!Numbered, CronInv, Jobs!RunNow PROVE CronInv'
  OBVIOUS
<1>0. CronShape
  BY DEF CronInv
<1>1. PICK j \in Jobs!There(file) : manual' = Jobs!ByHand(j)
  BY DEF Jobs!RunNow
<1>2. /\ manual' \in [job : Ids \cup {0}, jobs : JobLists \cup {<<>>}]
      /\ manual'.job # 0 => manual'.jobs \in JobLists
  BY <1>0, <1>1 DEF Jobs!ByHand, Jobs!There, CronShape
<1>3. UNCHANGED <<file, tick, excuse>>
  BY DEF Jobs!RunNow
<1> QED
  BY <1>0, <1>2, <1>3, LoopGoesOn DEF CronShape

\* The list of a run by hand may be old: it excuses every job.
LEMMA RunNowEndsStep == Jobs!Numbered /\ CronInv /\ Jobs!RunNowEnds => CronInv'
<1> SUFFICES ASSUME Jobs!Numbered, CronInv, Jobs!RunNowEnds PROVE CronInv'
  OBVIOUS
<1>0. CronShape
  BY DEF CronInv
<1>1. PICK marked \in Jobs!Marked(manual.jobs[manual.job]) : file' = [manual.jobs EXCEPT ![manual.job] = marked]
  BY DEF Jobs!RunNowEnds
<1>2. manual.job \in Ids /\ manual.jobs \in JobLists
  BY <1>0 DEF Jobs!RunNowEnds, CronShape
<1>3. marked \in Job
  <2>1. manual.jobs[manual.job] \in Job
    BY <1>2 DEF JobLists
  <2> QED
    BY <1>1, <2>1, MarkedRight
<1>4. file' \in JobLists
  BY <1>1, <1>2, <1>3 DEF JobLists
<1>5. /\ UNCHANGED tick /\ excuse' = Ids
      /\ manual' \in [job : Ids \cup {0}, jobs : JobLists \cup {<<>>}] /\ manual'.job = 0
  BY DEF Jobs!RunNowEnds, Jobs!Nobody
<1>6. excuse \subseteq excuse'
  BY <1>0, <1>5 DEF CronShape
<1> QED
  BY <1>4, <1>5, <1>6, LoopGoesOn

\* A process that was down excuses every job.
LEMMA DownStep == Jobs!Numbered /\ CronInv /\ Jobs!Down => CronInv'
<1> SUFFICES ASSUME Jobs!Numbered, CronInv, Jobs!Down PROVE CronInv'
  OBVIOUS
<1>1. PICK late \in BOOLEAN : file' = IF late THEN Jobs!AllAged(Jobs!AllAged(Jobs!AllAged(file))) ELSE file
  BY DEF Jobs!Down
<1>2. file \in JobLists
  BY DEF CronInv, CronShape
<1>3. file' \in JobLists
  <2>1. Jobs!AllAged(file) \in JobLists
    BY <1>2, AllAgedRight
  <2>2. Jobs!AllAged(Jobs!AllAged(file)) \in JobLists
    BY <2>1, AllAgedRight
  <2>3. Jobs!AllAged(Jobs!AllAged(Jobs!AllAged(file))) \in JobLists
    BY <2>2, AllAgedRight
  <2> QED
    BY <1>1, <1>2, <2>3
<1>4. /\ tick' = Jobs!Idle(0) /\ excuse' = Ids
      /\ manual' \in [job : Ids \cup {0}, jobs : JobLists \cup {<<>>}] /\ manual'.job = 0
  BY DEF Jobs!Down, Jobs!Nobody
<1> QED
  BY <1>3, <1>4, LoopWaits

\* All steps, and none.
LEMMA CronStep == Jobs!Numbered /\ CronInv /\ [Jobs!Next]_(Jobs!vars) => CronInv'
<1> SUFFICES ASSUME Jobs!Numbered, CronInv, [Jobs!Next]_(Jobs!vars) PROVE CronInv'
  OBVIOUS
<1>1. CASE Jobs!Next
  BY <1>1, TickStep, RunEndsStep, MinuteStep, CreateStep, RemoveStep, PauseStep, ResumeStep, RunNowStep,
     RunNowEndsStep, DownStep DEF Jobs!Next
<1>2. CASE UNCHANGED Jobs!vars
  BY <1>2 DEF Jobs!vars, CronInv, CronShape, LoopWaitingOK, RunningOK
<1> QED
  BY <1>1, <1>2

\* The scheduler passes a job over only if there was a reason that it was late:
\* runs of one tick that took longer than a minute, a job whose time cannot be
\* read, a person or a stop of the process (grace_seconds in src/cron/jobs.py,
\* which is never less than the two minutes that a loop can be away).
THEOREM JobsAreLateForAReason == Jobs!Numbered => (Jobs!Spec => []Jobs!LateForAReason)
<1> SUFFICES ASSUME Jobs!Numbered PROVE Jobs!Spec => []Jobs!LateForAReason
  OBVIOUS
<1>1. Jobs!Init => CronInv
  BY InitCron
<1>2. CronInv /\ [Jobs!Next]_(Jobs!vars) => CronInv'
  BY CronStep
<1>3. CronInv => Jobs!LateForAReason
  BY NotOverdue DEF Jobs!LateForAReason
<1> QED
  BY <1>1, <1>2, <1>3, PTL DEF Jobs!Spec

-----------------------------------------------------------------------------
(* The two drafts.  The server finds a call by its slot, the browser by its id or
   by the last id an index had.  They agree because slot and key of an index are
   always of the same segment, no call has two, and a call that nobody has
   streamed meets no segment that is still being built. *)

\* A segment of what the model says or thinks.
Texts == [type : {"token", "reasoning_token"}, n : Nat, call : {Draft!NoCall}, index : {-1}, status : {"none"}]

\* A segment of a tool call.
Tools == [type : {"tool"}, n : {0}, call : Nat \ {0}, index : 0..1, status : {"building", "running", "completed"}]

\* The types of the reply, as far as events depend on it.
TypeInv ==
    /\ reply.calls \in [0..1 -> Nat]
    /\ reply.waiting \in SUBSET [index : 0..1, call : Nat \ {0}]
    /\ reply.running \in SUBSET (Nat \ {0})
    /\ reply.n \in Nat
    /\ reply = [calls |-> reply.calls, waiting |-> reply.waiting, running |-> reply.running,
                n |-> reply.n, sent |-> reply.sent]

\* The types of the two drafts.
DraftType ==
    /\ draft \in [segments : Seq(Texts \cup Tools), slots : [0..1 -> Nat]]
    /\ view \in [segments : Seq(Texts \cup Tools), keys : [0..1 -> Nat]]

\* The slot of an index is the last segment of that index, or none.
SlotsOK ==
    \A i \in 0..1 :
        /\ draft.slots[i] \in 0..Len(draft.segments)
        /\ draft.slots[i] > 0 => /\ draft.segments[draft.slots[i]].type = "tool"
                                 /\ draft.segments[draft.slots[i]].index = i
        /\ \A k \in 1..Len(draft.segments) :
              draft.segments[k].type = "tool" /\ draft.segments[k].index = i => k <= draft.slots[i]

\* The key of an index in the browser is the call of its slot on the server.
KeysOK ==
    \A i \in 0..1 :
        view.keys[i] = IF draft.slots[i] = 0 THEN Draft!NoCall ELSE draft.segments[draft.slots[i]].call

\* No two segments are of one call.
OneEach ==
    \A j, k \in 1..Len(draft.segments) :
        draft.segments[j].call = draft.segments[k].call /\ draft.segments[j].call # Draft!NoCall => j = k

\* Where the two sides stand to each other.
Shape == DraftType /\ Draft!DraftsAgree /\ SlotsOK /\ KeysOK /\ OneEach

\* The calls that have a segment are of the replies so far, or being streamed.
CallsOK ==
    \A k \in 1..Len(draft.segments) :
        \/ draft.segments[k].call <= reply.n
        \/ \E i \in 0..1 : draft.slots[i] = k /\ draft.segments[k].call = reply.calls[i]

\* A call that is streamed has the segment of its slot, and nobody has run it.
RepliesOK ==
    /\ \A i \in 0..1 :
          /\ reply.calls[i] \in {Draft!NoCall, reply.n + i + 1}
          /\ reply.calls[i] # Draft!NoCall =>
                /\ draft.slots[i] > 0
                /\ draft.segments[draft.slots[i]].call = reply.calls[i]
                /\ draft.segments[draft.slots[i]].status = "building"
    /\ reply.calls # Draft!EmptyKeys => Draft!Talking

\* No segment is of a call that is streamed or waits.
NoneBuilding == \A k \in 1..Len(draft.segments) : draft.segments[k].status # "building"

\* A call that waits to be run still has its slot, or it never had a segment,
\* and then the browser finds none it could take for it.
WaitingOK ==
    \A w \in reply.waiting :
        /\ w.call <= reply.n /\ w.call \notin reply.running
        /\ \A v \in reply.waiting : v.index = w.index \/ v.call = w.call => v = w
        /\ \/ draft.slots[w.index] > 0 /\ draft.segments[draft.slots[w.index]].call = w.call
           \/ NoneBuilding /\ \A k \in 1..Len(draft.segments) : draft.segments[k].call # w.call

\* A segment that is built is of a call that is streamed or waits, and one that
\* runs of a call that runs.
StatusOK ==
    \A k \in 1..Len(draft.segments) :
        /\ draft.segments[k].status = "building" =>
              \E i \in 0..1 : /\ draft.slots[i] = k
                              /\ \/ reply.calls[i] = draft.segments[k].call
                                 \/ [index |-> i, call |-> draft.segments[k].call] \in reply.waiting
        /\ draft.segments[k].status = "running" => draft.segments[k].call \in reply.running

\* What every event keeps, on the server and in the browser at once.
DraftInv ==
    TypeInv /\ Shape /\ CallsOK /\ RepliesOK /\ WaitingOK /\ StatusOK

-----------------------------------------------------------------------------
\* The greatest of a set of numbers is the one that is not smaller than any.
LEMMA MaxIsGreatest ==
    ASSUME NEW S \in SUBSET Int, NEW k \in S, \A y \in S : k >= y
    PROVE  Draft!Max(S) = k
<1>1. \E x \in S : \A y \in S : x >= y
  OBVIOUS
<1>2. Draft!Max(S) \in S /\ \A y \in S : Draft!Max(S) >= y
  BY <1>1, Zenon DEF Draft!Max
<1>3. Draft!Max(S) \in Int /\ k \in Int /\ k >= Draft!Max(S) /\ Draft!Max(S) >= k
  BY <1>2
<1> QED
  BY <1>3

\* Only tool calls have a call.
LEMMA SegmentKinds ==
    ASSUME DraftType, NEW k \in 1..Len(draft.segments)
    PROVE  /\ draft.segments[k] \in Texts \cup Tools
           /\ draft.segments[k].call \in Nat
           /\ draft.segments[k].type = "tool" <=> draft.segments[k].call # Draft!NoCall
           /\ draft.segments[k].type = "tool" <=> draft.segments[k] \in Tools
  BY DEF DraftType, Texts, Tools, Draft!NoCall

\* The browser finds a call where the server put it.
LEMMA FindsCall ==
    ASSUME Shape, NEW k \in 1..Len(draft.segments), draft.segments[k].type = "tool"
    PROVE  Draft!FindTool(view.segments, draft.segments[k].call) = k
<1> DEFINE c == draft.segments[k].call
           found == {i \in DOMAIN view.segments :
                        /\ view.segments[i].type = "tool"
                        /\ IF c # Draft!NoCall THEN view.segments[i].call = c
                                         ELSE view.segments[i].status = "building"}
<1>1. c # Draft!NoCall
  BY SegmentKinds DEF Shape
<1>2. DOMAIN view.segments = 1..Len(draft.segments)
  BY DEF Shape, DraftType, Draft!DraftsAgree
<1>3. k \in found /\ \A i \in found : i = k
  BY <1>1, <1>2 DEF Shape, Draft!DraftsAgree, OneEach
<1>4. found \in SUBSET Int /\ \A y \in found : k >= y
  BY <1>2, <1>3
<1>5. Draft!Max(found) = k
  BY <1>3, <1>4, MaxIsGreatest
<1> QED
  BY <1>3, <1>5 DEF Draft!FindTool

\* It finds no segment for a call that has none.
LEMMA FindsNoCall ==
    ASSUME Shape, NEW c \in Nat \ {Draft!NoCall},
           \A k \in 1..Len(draft.segments) : draft.segments[k].call # c
    PROVE  Draft!FindTool(view.segments, c) = 0
<1>1. DOMAIN view.segments = 1..Len(draft.segments)
  BY DEF Shape, DraftType, Draft!DraftsAgree
<1>2. {i \in DOMAIN view.segments :
         /\ view.segments[i].type = "tool"
         /\ IF c # Draft!NoCall THEN view.segments[i].call = c ELSE view.segments[i].status = "building"} = {}
  BY <1>1 DEF Shape, Draft!DraftsAgree
<1> QED
  BY <1>2 DEF Draft!FindTool

\* It finds no segment to go on with if none is being built.
LEMMA FindsNoBuilding ==
    ASSUME Shape, NoneBuilding
    PROVE  Draft!FindTool(view.segments, Draft!NoCall) = 0
<1>1. DOMAIN view.segments = 1..Len(draft.segments)
  BY DEF Shape, DraftType, Draft!DraftsAgree
<1>2. {i \in DOMAIN view.segments :
         /\ view.segments[i].type = "tool"
         /\ IF Draft!NoCall # Draft!NoCall THEN view.segments[i].call = Draft!NoCall
                               ELSE view.segments[i].status = "building"} = {}
  BY <1>1 DEF Shape, Draft!DraftsAgree, NoneBuilding
<1> QED
  BY <1>2 DEF Draft!FindTool

\* A new segment at the end, for a call that has none yet.
LEMMA NewSegment ==
    ASSUME Shape, NEW i \in 0..1, NEW t \in Tools, t.index = i,
           \A k \in 1..Len(draft.segments) : draft.segments[k].call # t.call,
           draft' = [segments |-> Append(draft.segments, t),
                     slots |-> [draft.slots EXCEPT ![i] = Len(draft.segments) + 1]],
           view' = [view EXCEPT !.segments = Append(@, t), !.keys[i] = t.call]
    PROVE  /\ Shape'
           /\ Len(draft'.segments) = Len(draft.segments) + 1
           /\ draft'.segments[Len(draft.segments) + 1] = t
           /\ \A k \in 1..Len(draft.segments) : draft'.segments[k] = draft.segments[k]
           /\ draft'.slots = [draft.slots EXCEPT ![i] = Len(draft.segments) + 1]
<1> USE DEF Shape
<1>1. /\ draft.segments \in Seq(Texts \cup Tools) /\ draft.slots \in [0..1 -> Nat]
      /\ view.keys \in [0..1 -> Nat] /\ view.segments = draft.segments
  BY DEF DraftType, Draft!DraftsAgree
<1>2. /\ draft'.segments = Append(draft.segments, t) /\ draft'.slots = [draft.slots EXCEPT ![i] = Len(draft.segments) + 1]
      /\ view'.segments = Append(draft.segments, t) /\ view'.keys = [view.keys EXCEPT ![i] = t.call]
  BY <1>1 DEF DraftType
<1>3. /\ Len(draft'.segments) = Len(draft.segments) + 1
      /\ draft'.segments[Len(draft.segments) + 1] = t
      /\ \A k \in 1..Len(draft.segments) : draft'.segments[k] = draft.segments[k]
      /\ draft'.segments \in Seq(Texts \cup Tools)
  BY <1>1, <1>2
<1>4. t.call \in Nat \ {Draft!NoCall} /\ t.type = "tool"
  BY DEF Tools, Draft!NoCall
<1>5. DraftType'
  <2>1. draft' \in [segments : Seq(Texts \cup Tools), slots : [0..1 -> Nat]]
    BY <1>1, <1>2, <1>3
  <2>2. view' \in [segments : Seq(Texts \cup Tools), keys : [0..1 -> Nat]]
    BY <1>1, <1>2, <1>3, <1>4 DEF DraftType
  <2> QED
    BY <2>1, <2>2 DEF DraftType
<1>6. Draft!DraftsAgree'
  BY <1>2 DEF Draft!DraftsAgree
<1>7. SlotsOK'
  BY <1>1, <1>2, <1>3, <1>4 DEF SlotsOK
<1>8. KeysOK'
  <2> SUFFICES ASSUME NEW j \in 0..1
               PROVE  view'.keys[j] = IF draft'.slots[j] = 0 THEN Draft!NoCall ELSE draft'.segments[draft'.slots[j]].call
    BY DEF KeysOK
  <2>1. CASE j = i
    BY <2>1, <1>1, <1>2, <1>3
  <2>2. CASE j # i
    <3>1. view'.keys[j] = view.keys[j] /\ draft'.slots[j] = draft.slots[j]
      BY <2>2, <1>1, <1>2
    <3>2. draft.slots[j] # 0 => draft'.segments[draft.slots[j]] = draft.segments[draft.slots[j]]
      BY <1>1, <1>3 DEF SlotsOK
    <3>3. view.keys[j] = IF draft.slots[j] = 0 THEN Draft!NoCall ELSE draft.segments[draft.slots[j]].call
      BY DEF KeysOK
    <3> QED
      BY <3>1, <3>2, <3>3
  <2> QED
    BY <2>1, <2>2
<1>9. OneEach'
  BY <1>1, <1>2, <1>3, <1>4 DEF OneEach
<1> QED
  BY <1>2, <1>3, <1>5, <1>6, <1>7, <1>8, <1>9

\* The segment of a slot is replaced, for the same call or for a new one.
LEMMA SameSegment ==
    ASSUME Shape, NEW i \in 0..1, NEW t \in Tools, t.index = i, draft.slots[i] > 0,
           \A k \in 1..Len(draft.segments) \ {draft.slots[i]} : draft.segments[k].call # t.call,
           draft' = [draft EXCEPT !.segments[draft.slots[i]] = t],
           view' = [view EXCEPT !.segments = [@ EXCEPT ![draft.slots[i]] = t], !.keys[i] = t.call]
    PROVE  /\ Shape'
           /\ Len(draft'.segments) = Len(draft.segments)
           /\ draft.slots[i] \in 1..Len(draft.segments)
           /\ draft'.segments[draft.slots[i]] = t
           /\ \A k \in 1..Len(draft.segments) \ {draft.slots[i]} : draft'.segments[k] = draft.segments[k]
           /\ draft'.slots = draft.slots
<1> USE DEF Shape
<1>1. /\ draft.segments \in Seq(Texts \cup Tools) /\ draft.slots \in [0..1 -> Nat]
      /\ view.keys \in [0..1 -> Nat] /\ view.segments = draft.segments
  BY DEF DraftType, Draft!DraftsAgree
<1> DEFINE at == draft.slots[i]
<1>2. /\ draft'.segments = [draft.segments EXCEPT ![at] = t] /\ draft'.slots = draft.slots
      /\ view'.segments = [draft.segments EXCEPT ![at] = t] /\ view'.keys = [view.keys EXCEPT ![i] = t.call]
  BY <1>1 DEF DraftType
<1>3. /\ Len(draft'.segments) = Len(draft.segments) /\ at \in 1..Len(draft.segments)
      /\ draft'.segments[at] = t
      /\ \A k \in 1..Len(draft.segments) \ {at} : draft'.segments[k] = draft.segments[k]
      /\ draft'.segments \in Seq(Texts \cup Tools)
  BY <1>1, <1>2 DEF SlotsOK
<1>4. t.call \in Nat \ {Draft!NoCall} /\ t.type = "tool"
  BY DEF Tools, Draft!NoCall
<1>5. DraftType'
  <2>1. draft' \in [segments : Seq(Texts \cup Tools), slots : [0..1 -> Nat]]
    BY <1>1, <1>2, <1>3 DEF DraftType
  <2>2. view' \in [segments : Seq(Texts \cup Tools), keys : [0..1 -> Nat]]
    BY <1>1, <1>2, <1>3, <1>4 DEF DraftType
  <2> QED
    BY <2>1, <2>2 DEF DraftType
<1>6. Draft!DraftsAgree'
  BY <1>2 DEF Draft!DraftsAgree
<1>7. SlotsOK'
  BY <1>1, <1>2, <1>3, <1>4 DEF SlotsOK
<1>8. KeysOK'
  BY <1>1, <1>2, <1>3, <1>4 DEF KeysOK, SlotsOK, Draft!NoCall
<1>9. OneEach'
  BY <1>1, <1>2, <1>3, <1>4 DEF OneEach
<1> QED
  BY <1>2, <1>3, <1>5, <1>6, <1>7, <1>8, <1>9

-----------------------------------------------------------------------------
\* Text goes to the last segment or to a new one, on both sides.
LEMMA TokenKeeps ==
    ASSUME DraftInv, Draft!Token
    PROVE  DraftInv'
<1> USE DEF DraftInv
<1>1. PICK type \in {"token", "reasoning_token"} : Draft!Take(Draft!Event(type), reply)
  BY DEF Draft!Token
<1> DEFINE S == draft.segments
<1>2. /\ S \in Seq(Texts \cup Tools) /\ draft.slots \in [0..1 -> Nat] /\ draft = [segments |-> S, slots |-> draft.slots]
      /\ view.keys \in [0..1 -> Nat] /\ view.segments = S /\ view = [segments |-> S, keys |-> view.keys]
  BY DEF Shape, DraftType, Draft!DraftsAgree
<1>3. /\ draft'.segments = Draft!AppendContent(S, type) /\ draft'.slots = draft.slots
      /\ view'.segments = Draft!AppendContent(S, type) /\ view'.keys = view.keys
      /\ draft' = [segments |-> draft'.segments, slots |-> draft'.slots]
      /\ view' = [segments |-> view'.segments, keys |-> view'.keys]
  BY <1>1, <1>2 DEF Draft!Take, Draft!Event, Draft!ServerDraft, Draft!ClientDraft
<1>4. /\ reply'.calls = reply.calls /\ reply'.waiting = reply.waiting /\ reply'.running = reply.running
      /\ reply'.n = reply.n
      /\ reply' = [calls |-> reply'.calls, waiting |-> reply'.waiting, running |-> reply'.running,
                   n |-> reply'.n, sent |-> reply'.sent]
  BY <1>1 DEF Draft!Take, TypeInv
<1>5. /\ draft'.segments \in Seq(Texts \cup Tools)
      /\ Len(draft'.segments) \in {Len(S), Len(S) + 1}
      /\ \A k \in 1..Len(S) : /\ draft'.segments[k].call = S[k].call
                              /\ draft'.segments[k].type = S[k].type
                              /\ draft'.segments[k].index = S[k].index
                              /\ draft'.segments[k].status = S[k].status
      /\ \A k \in 1..Len(draft'.segments) : k \notin 1..Len(S) => draft'.segments[k] \in Texts
  <2>1. CASE S # <<>> /\ Draft!Last(S).type = type
    <3>1. Draft!Last(S) = S[Len(S)] /\ Len(S) \in 1..Len(S) /\ S[Len(S)] \in Texts
      BY <2>1, <1>2 DEF Draft!Last, Texts, Tools
    <3>2. draft'.segments = [S EXCEPT ![Len(S)].n = @ + 1]
      BY <2>1, <1>3 DEF Draft!AppendContent
    <3>3. [S[Len(S)] EXCEPT !.n = @ + 1] \in Texts
      BY <3>1 DEF Texts
    <3>4. draft'.segments = [S EXCEPT ![Len(S)] = [S[Len(S)] EXCEPT !.n = @ + 1]]
      BY <3>1, <3>2, <1>2
    <3> QED
      BY <3>1, <3>3, <3>4, <1>2 DEF Texts
  <2>2. CASE ~(S # <<>> /\ Draft!Last(S).type = type)
    <3>1. draft'.segments = Append(S, Draft!TextSegment(type, 1)) /\ Draft!TextSegment(type, 1) \in Texts
      BY <2>2, <1>3 DEF Draft!AppendContent, Draft!TextSegment, Texts
    <3> QED
      BY <3>1, <1>2
  <2> QED
    BY <2>1, <2>2
<1>6. \A k \in 1..Len(draft'.segments) : k \notin 1..Len(S) =>
         draft'.segments[k].call = Draft!NoCall /\ draft'.segments[k].type # "tool" /\ draft'.segments[k].status = "none"
  BY <1>5 DEF Texts
<1>7. Shape'
  <2>1. DraftType'
    BY <1>2, <1>3, <1>5 DEF DraftType
  <2>2. Draft!DraftsAgree'
    BY <1>3 DEF Draft!DraftsAgree
  <2>3. SlotsOK'
    <3> SUFFICES ASSUME NEW i \in 0..1
                 PROVE  /\ draft.slots[i] \in 0..Len(draft'.segments)
                        /\ draft.slots[i] > 0 => /\ draft'.segments[draft.slots[i]].type = "tool"
                                                 /\ draft'.segments[draft.slots[i]].index = i
                        /\ \A k \in 1..Len(draft'.segments) :
                              draft'.segments[k].type = "tool" /\ draft'.segments[k].index = i => k <= draft.slots[i]
      BY <1>3 DEF SlotsOK
    <3>1. /\ draft.slots[i] \in 0..Len(S)
          /\ draft.slots[i] > 0 => S[draft.slots[i]].type = "tool" /\ S[draft.slots[i]].index = i
          /\ \A k \in 1..Len(S) : S[k].type = "tool" /\ S[k].index = i => k <= draft.slots[i]
      BY DEF SlotsOK, Shape
    <3>2. draft.slots[i] \in 0..Len(draft'.segments)
      BY <3>1, <1>2, <1>5
    <3>3. draft.slots[i] > 0 => /\ draft'.segments[draft.slots[i]].type = "tool"
                               /\ draft'.segments[draft.slots[i]].index = i
      BY <3>1, <1>2, <1>5
    <3>4. ASSUME NEW k \in 1..Len(draft'.segments),
                 draft'.segments[k].type = "tool" /\ draft'.segments[k].index = i
          PROVE  k <= draft.slots[i]
      <4>1. k \in 1..Len(S)
        BY <3>4, <1>6
      <4> QED
        BY <4>1, <3>1, <3>4, <1>5
    <3> QED
      BY <3>2, <3>3, <3>4
  <2>4. KeysOK'
    BY <1>2, <1>3, <1>5 DEF SlotsOK, KeysOK, Shape
  <2>5. OneEach'
    BY <1>2, <1>3, <1>5, <1>6 DEF OneEach, Shape, Draft!NoCall
  <2> QED
    BY <2>1, <2>2, <2>3, <2>4, <2>5 DEF Shape
<1>8. TypeInv'
  BY <1>4 DEF TypeInv
<1>9. CallsOK'
  <2> SUFFICES ASSUME NEW k \in 1..Len(draft'.segments)
               PROVE  \/ draft'.segments[k].call <= reply.n
                      \/ \E i \in 0..1 : draft.slots[i] = k /\ draft'.segments[k].call = reply.calls[i]
    BY <1>3, <1>4 DEF CallsOK
  <2>1. CASE k \in 1..Len(S)
    BY <2>1, <1>5 DEF CallsOK
  <2>2. CASE k \notin 1..Len(S)
    BY <2>2, <1>6 DEF Draft!NoCall, TypeInv
  <2> QED
    BY <2>1, <2>2
<1>10. RepliesOK'
  BY <1>2, <1>3, <1>4, <1>5 DEF RepliesOK, Draft!Talking, SlotsOK, Shape
<1>11. WaitingOK'
  BY <1>1, <1>4 DEF WaitingOK, Draft!Token, Draft!Talking
<1>12. StatusOK'
  BY <1>2, <1>3, <1>4, <1>5, <1>6 DEF StatusOK
<1> QED
  BY <1>7, <1>8, <1>9, <1>10, <1>11, <1>12

\* What a chunk does to the browser's draft when the call of its slot is another
\* one, and when it is the one that is being built there.
Viewing(v, segments, i, call) == [v EXCEPT !.segments = segments, !.keys[i] = call]

\* The first chunk of a call, of an index whose slot another call still has.
LEMMA FirstChunk ==
    ASSUME NEW v, NEW e, e.call # Draft!NoCall, Draft!FindTool(v.segments, e.call) = 0,
           v.keys[e.index] # Draft!NoCall, v.segments[Draft!FindTool(v.segments, v.keys[e.index])].call # e.call
    PROVE  Draft!ClientDelta(v, e) =
             Viewing(v, Append(v.segments, Draft!ToolSegment(e.call, e.index, "building")), e.index, e.call)
  BY DEF Draft!ClientDelta, Viewing

\* A further chunk, without an id: it belongs to the call of its index.
LEMMA LaterChunk ==
    ASSUME NEW v, NEW e, e.call = Draft!NoCall, NEW at \in Nat \ {0}, at = Draft!FindTool(v.segments, v.keys[e.index]),
           v.segments[at].call = v.keys[e.index], v.segments[at].status = "building"
    PROVE  Draft!ClientDelta(v, e) =
             Viewing(v, [v.segments EXCEPT ![at] = Draft!ToolSegment(v.keys[e.index], e.index, "building")],
                     e.index, v.keys[e.index])
<1> DEFINE key == v.keys[e.index]
           tool == Draft!ToolSegment(key, e.index, "building")
<1>1. at > 0 /\ at # 0
  OBVIOUS
<1> HIDE DEF tool
<1>2. Draft!ClientDelta(v, e) = [v EXCEPT !.segments = [v.segments EXCEPT ![at] = tool], !.keys[e.index] = key]
  BY <1>1 DEF Draft!ClientDelta, tool, Draft!NoCall
<1> QED
  BY <1>2 DEF Viewing, tool

\* A chunk of a tool call: the first one of its index names the call, those that
\* follow do not.
LEMMA ChunkKeeps ==
    ASSUME DraftInv, Draft!Chunk
    PROVE  DraftInv'
<1> USE DEF DraftInv
<1> DEFINE S == draft.segments
<1>1. PICK i \in 0..1 :
         LET first == reply.calls[i] = Draft!NoCall
             call == reply.n + i + 1
         IN  Draft!Take([type |-> "tool_call_delta", index |-> i, call |-> IF first THEN call ELSE Draft!NoCall],
                  [reply EXCEPT !.calls[i] = IF first THEN call ELSE @])
  BY DEF Draft!Chunk
<1>2. /\ S \in Seq(Texts \cup Tools) /\ draft.slots \in [0..1 -> Nat] /\ draft = [segments |-> S, slots |-> draft.slots]
      /\ view.keys \in [0..1 -> Nat] /\ view.segments = S /\ view = [segments |-> S, keys |-> view.keys]
  BY DEF Shape, DraftType, Draft!DraftsAgree
<1>3. reply.waiting = {} /\ reply.running = {}
  BY DEF Draft!Chunk, Draft!Talking
<1>4. /\ reply.n \in Nat /\ reply.calls \in [0..1 -> Nat]
      /\ draft.slots[i] \in 0..Len(S)
      /\ view.keys[i] = IF draft.slots[i] = 0 THEN Draft!NoCall ELSE S[draft.slots[i]].call
      /\ draft.slots[i] > 0 => S[draft.slots[i]].type = "tool" /\ S[draft.slots[i]].index = i
  BY DEF TypeInv, Shape, SlotsOK, KeysOK
<1>5. CASE reply.calls[i] = Draft!NoCall
  <2> DEFINE call == reply.n + i + 1
             event == [type |-> "tool_call_delta", index |-> i, call |-> call]
             t == Draft!ToolSegment(call, i, "building")
             at == draft.slots[i]
  <2>1. t \in Tools /\ t.index = i /\ t.call = call /\ call \in Nat \ {Draft!NoCall} /\ t.status = "building"
    BY <1>4 DEF Draft!ToolSegment, Tools, Draft!NoCall
  <2>2. \A k \in 1..Len(S) : S[k].call # call
    <3> SUFFICES ASSUME NEW k \in 1..Len(S), S[k].call = call PROVE FALSE
      OBVIOUS
    <3>1. \E j \in 0..1 : S[k].call = reply.calls[j]
      BY <1>4 DEF CallsOK
    <3>2. PICK j \in 0..1 : reply.calls[j] = call
      BY <3>1
    <3>3. j # i
      BY <3>2, <1>5, <2>1
    <3> QED
      BY <3>2, <3>3, <1>4 DEF RepliesOK, Draft!NoCall
  <2>3. draft' = Draft!ServerDelta(draft, event) /\ view' = Draft!ClientDelta(view, event)
    BY <1>1, <1>5 DEF Draft!Take, Draft!ServerDraft, Draft!ClientDraft
  <2>4. at > 0 => at \in 1..Len(S) /\ S[at].call # call
    BY <1>4, <2>2
  <2>5. draft' = [segments |-> Append(S, t), slots |-> [draft.slots EXCEPT ![i] = Len(S) + 1]]
    BY <1>4, <2>3, <2>4, <2>1 DEF Draft!ServerDelta
  <2>6. Draft!FindTool(view.segments, call) = 0
    BY <2>1, <2>2, FindsNoCall
  <2>7. at > 0 => Draft!FindTool(view.segments, view.keys[i]) = at /\ view.keys[i] # Draft!NoCall
    BY <1>4, <2>4, FindsCall, SegmentKinds DEF Shape
  <2>8. view' = [view EXCEPT !.segments = Append(@, t), !.keys[i] = call]
    <3>1. CASE at = 0
      BY <3>1, <1>2, <1>4, <2>1, <2>3, <2>6 DEF Draft!ClientDelta
    <3>2. CASE at > 0
      <4>1. view.segments[at].call # call
        BY <3>2, <1>2, <2>4
      <4>2. call # Draft!NoCall /\ at # 0
        BY <2>1, <3>2
      <4>3. view.keys[i] # Draft!NoCall /\ Draft!FindTool(view.segments, view.keys[i]) = at
        BY <2>7, <3>2
      <4>5. event.call = call /\ event.index = i
        OBVIOUS
      <4> HIDE DEF call, at, event
      <4>4. Draft!ClientDelta(view, event) =
               Viewing(view, Append(view.segments, Draft!ToolSegment(call, i, "building")), i, call)
        BY <4>1, <4>2, <4>3, <4>5, <2>6, FirstChunk
      <4> QED
        BY <2>3, <4>4 DEF Viewing
    <3> QED
      BY <3>1, <3>2, <1>4
  <2>9. /\ Shape'
        /\ Len(draft'.segments) = Len(S) + 1
        /\ draft'.segments[Len(S) + 1] = t
        /\ \A k \in 1..Len(S) : draft'.segments[k] = S[k]
        /\ draft'.slots = [draft.slots EXCEPT ![i] = Len(S) + 1]
    BY <2>1, <2>2, <2>5, <2>8, NewSegment
  <2>10. reply' = [calls |-> [reply.calls EXCEPT ![i] = call], waiting |-> {}, running |-> {},
                   n |-> reply.n, sent |-> reply.sent + 1]
    BY <1>1, <1>3, <1>5 DEF Draft!Take, TypeInv
  <2>11. TypeInv'
    BY <2>10, <2>1, <1>4 DEF TypeInv
  <2>12. CallsOK'
    <3> SUFFICES ASSUME NEW k \in 1..Len(draft'.segments)
                 PROVE  \/ draft'.segments[k].call <= reply.n
                        \/ \E j \in 0..1 : draft'.slots[j] = k /\ draft'.segments[k].call = reply'.calls[j]
      BY <2>10 DEF CallsOK
    <3>1. CASE k \in 1..Len(S)
      <4>1. CASE S[k].call <= reply.n
        BY <3>1, <4>1, <2>9
      <4>2. CASE \E j \in 0..1 : draft.slots[j] = k /\ S[k].call = reply.calls[j]
        <5>1. PICK j \in 0..1 : draft.slots[j] = k /\ S[k].call = reply.calls[j]
          BY <4>2
        <5>2. CASE j = i
          BY <5>1, <5>2, <1>5, <2>9, <1>4, <3>1 DEF Draft!NoCall
        <5>3. CASE j # i
          BY <5>1, <5>3, <2>9, <2>10, <1>2, <1>4, <3>1
        <5> QED
          BY <5>2, <5>3
      <4> QED
        BY <3>1, <4>1, <4>2 DEF CallsOK
    <3>2. CASE k = Len(S) + 1
      BY <3>2, <2>1, <2>9, <2>10, <1>2, <1>4
    <3> QED
      BY <3>1, <3>2, <2>9, <1>2
  <2>13. RepliesOK'
    <3>1. ASSUME NEW j \in 0..1
          PROVE  /\ reply'.calls[j] \in {Draft!NoCall, reply'.n + j + 1}
                 /\ reply'.calls[j] # Draft!NoCall =>
                       /\ draft'.slots[j] > 0
                       /\ draft'.segments[draft'.slots[j]].call = reply'.calls[j]
                       /\ draft'.segments[draft'.slots[j]].status = "building"
      <4>1. CASE j = i
        BY <4>1, <2>1, <2>9, <2>10, <1>2, <1>4
      <4>2. CASE j # i
        <5>1. draft'.slots[j] = draft.slots[j] /\ reply'.calls[j] = reply.calls[j] /\ reply'.n = reply.n
          BY <4>2, <2>9, <2>10, <1>2, <1>4
        <5>2. draft.slots[j] \in 0..Len(S)
          BY DEF Shape, SlotsOK
        <5> QED
          BY <5>1, <5>2, <2>9, <1>2 DEF RepliesOK
      <4> QED
        BY <4>1, <4>2
    <3> QED
      BY <3>1, <2>10 DEF RepliesOK, Draft!Talking
  <2>14. WaitingOK'
    BY <2>10 DEF WaitingOK
  <2>15. StatusOK'
    <3> SUFFICES ASSUME NEW k \in 1..Len(draft'.segments)
                 PROVE  /\ draft'.segments[k].status = "building" =>
                              \E j \in 0..1 : draft'.slots[j] = k /\ reply'.calls[j] = draft'.segments[k].call
                        /\ draft'.segments[k].status = "running" => draft'.segments[k].call \in {}
      BY <2>10 DEF StatusOK
    <3>1. CASE k \in 1..Len(S)
      <4>1. S[k].status # "running"
        BY <3>1, <1>3 DEF StatusOK
      <4>2. ASSUME S[k].status = "building"
            PROVE  \E j \in 0..1 : draft'.slots[j] = k /\ reply'.calls[j] = draft'.segments[k].call
        <5>1. PICK j \in 0..1 : draft.slots[j] = k /\ reply.calls[j] = S[k].call
          BY <3>1, <4>2, <1>3 DEF StatusOK
        <5>2. S[k].call # Draft!NoCall
          BY <3>1, <4>2, <1>2 DEF Texts, Tools, Draft!NoCall
        <5>3. j # i
          BY <5>1, <5>2, <1>5
        <5> QED
          BY <5>1, <5>3, <2>9, <2>10, <1>2, <1>4, <3>1
      <4> QED
        BY <3>1, <4>1, <4>2, <2>9
    <3>2. CASE k = Len(S) + 1
      BY <3>2, <2>1, <2>9, <2>10, <1>2, <1>4
    <3> QED
      BY <3>1, <3>2, <2>9, <1>2
  <2> QED
    BY <2>9, <2>11, <2>12, <2>13, <2>14, <2>15
<1>6. CASE reply.calls[i] # Draft!NoCall
  <2> DEFINE event == [type |-> "tool_call_delta", index |-> i, call |-> Draft!NoCall]
             at == draft.slots[i]
  <2>1. at > 0 /\ S[at].call = reply.calls[i] /\ S[at].status = "building" /\ at \in 1..Len(S)
    BY <1>4, <1>6 DEF RepliesOK
  <2>2. draft' = Draft!ServerDelta(draft, event) /\ view' = Draft!ClientDelta(view, event)
    BY <1>1, <1>6 DEF Draft!Take, Draft!ServerDraft, Draft!ClientDraft
  <2>3. draft' = draft
    BY <2>1, <2>2 DEF Draft!ServerDelta
  <2>4. S[at] \in Tools /\ S[at].index = i
    BY <1>4, <2>1, SegmentKinds DEF Shape
  <2>5. view.keys[i] = S[at].call /\ S[at].call # Draft!NoCall
    BY <1>4, <2>1, <1>6
  <2>6. Draft!FindTool(view.segments, view.keys[i]) = at
    BY <2>1, <2>4, <2>5, FindsCall DEF Tools
  <2>7. S[at] = Draft!ToolSegment(S[at].call, i, "building")
    BY <2>1, <2>4 DEF Tools, Draft!ToolSegment
  <2>8. view' = [view EXCEPT !.segments = [@ EXCEPT ![at] = S[at]], !.keys[i] = S[at].call]
    <3>1. view.segments[at].call = S[at].call /\ view.segments[at].status = "building"
      BY <1>2, <2>1
    <3>2. at \in Nat \ {0} /\ view.segments[at].call = view.keys[i] /\ view.keys[i] # Draft!NoCall
      BY <2>1, <2>5, <3>1
    <3>4. event.call = Draft!NoCall /\ event.index = i
      OBVIOUS
    <3> HIDE DEF at, event
    <3>3. Draft!ClientDelta(view, event) =
             Viewing(view, [view.segments EXCEPT ![at] = Draft!ToolSegment(view.keys[i], i, "building")], i, view.keys[i])
      BY <2>6, <3>1, <3>2, <3>4, LaterChunk
    <3> QED
      BY <2>2, <2>5, <2>7, <3>3 DEF Viewing
  <2>9. view' = view
    <3>1. [S EXCEPT ![at] = S[at]] = S /\ [view.keys EXCEPT ![i] = view.keys[i]] = view.keys
      BY <1>2, <2>1
    <3>2. view' = [segments |-> [S EXCEPT ![at] = S[at]], keys |-> [view.keys EXCEPT ![i] = view.keys[i]]]
      BY <1>2, <2>5, <2>8
    <3> QED
      BY <1>2, <3>1, <3>2
  <2>10. reply' = [reply EXCEPT !.sent = @ + 1]
    BY <1>1, <1>4, <1>6 DEF Draft!Take, TypeInv
  <2>11. /\ reply'.calls = reply.calls /\ reply'.waiting = reply.waiting /\ reply'.running = reply.running
         /\ reply'.n = reply.n
         /\ reply' = [calls |-> reply'.calls, waiting |-> reply'.waiting, running |-> reply'.running,
                      n |-> reply'.n, sent |-> reply'.sent]
    BY <2>10 DEF TypeInv
  <2> QED
    BY <2>3, <2>9, <2>11
       DEF TypeInv, Shape, DraftType, Draft!DraftsAgree, SlotsOK, KeysOK, OneEach, CallsOK, RepliesOK, WaitingOK,
           NoneBuilding, StatusOK, Draft!Talking
<1> QED
  BY <1>5, <1>6

\* The model has said all: its calls wait to be run.
LEMMA ReplyEndsKeeps ==
    ASSUME DraftInv, Draft!ReplyEnds
    PROVE  DraftInv'
<1> USE DEF DraftInv
<1> DEFINE S == draft.segments
<1>1. PICK calls \in {reply.calls} \cup
                (IF reply.calls = Draft!EmptyKeys
                 THEN {[Draft!EmptyKeys EXCEPT ![0] = reply.n + 1],
                       [i \in 0..1 |-> reply.n + i + 1]} ELSE {}) :
            reply' = [reply EXCEPT !.calls = Draft!EmptyKeys, !.waiting = Draft!Slots(calls),
                                   !.n = @ + 2, !.sent = @ + 1]
  BY DEF Draft!ReplyEnds
<1>2. draft' = draft /\ view' = view /\ reply.waiting = {} /\ reply.running = {}
  BY DEF Draft!ReplyEnds, Draft!Talking
<1>3. reply.n \in Nat /\ reply.calls \in [0..1 -> Nat] /\ Draft!EmptyKeys \in [0..1 -> Nat]
  BY DEF TypeInv, Draft!EmptyKeys, Draft!NoCall
<1>4. calls \in [0..1 -> Nat] /\ \A i \in 0..1 : calls[i] \in {Draft!NoCall, reply.n + i + 1}
  <2>1. CASE calls = reply.calls
    BY <2>1, <1>3 DEF RepliesOK
  <2>2. CASE calls = [Draft!EmptyKeys EXCEPT ![0] = reply.n + 1]
    BY <2>2, <1>3 DEF Draft!EmptyKeys
  <2>3. CASE calls = [i \in 0..1 |-> reply.n + i + 1]
    BY <2>3, <1>3
  <2> QED
    BY <1>1, <2>1, <2>2, <2>3
<1>5. /\ reply'.calls = Draft!EmptyKeys /\ reply'.waiting = Draft!Slots(calls) /\ reply'.running = {}
      /\ reply'.n = reply.n + 2
      /\ reply' = [calls |-> reply'.calls, waiting |-> reply'.waiting, running |-> reply'.running,
                   n |-> reply'.n, sent |-> reply'.sent]
  BY <1>1, <1>2 DEF TypeInv
<1>6. \A w \in Draft!Slots(calls) : w.index \in 0..1 /\ w.call = calls[w.index] /\ w.call # Draft!NoCall
                              /\ w = [index |-> w.index, call |-> w.call]
  BY DEF Draft!Slots
<1>7. \A i \in 0..1 : calls[i] # Draft!NoCall => [index |-> i, call |-> calls[i]] \in Draft!Slots(calls)
  BY DEF Draft!Slots
<1>8. TypeInv'
  BY <1>3, <1>4, <1>5, <1>6 DEF TypeInv, Draft!NoCall
<1>9. Shape'
  BY <1>2 DEF Shape, DraftType, Draft!DraftsAgree, SlotsOK, KeysOK, OneEach
<1>10. \A k \in 1..Len(S) : S[k].call \in Nat
  BY SegmentKinds DEF Shape
<1>11. CallsOK'
  <2> SUFFICES ASSUME NEW k \in 1..Len(S) PROVE S[k].call <= reply.n + 2
    BY <1>2, <1>5 DEF CallsOK
  <2>1. S[k].call <= reply.n \/ \E i \in 0..1 : S[k].call = reply.calls[i]
    BY DEF CallsOK
  <2>2. ASSUME NEW i \in 0..1 PROVE reply.calls[i] <= reply.n + 2
    <3>1. reply.calls[i] = 0 \/ reply.calls[i] = reply.n + i + 1
      BY DEF RepliesOK, Draft!NoCall
    <3> QED
      BY <3>1, <1>3
  <2>3. CASE S[k].call <= reply.n
    BY <2>3, <1>3, <1>10
  <2>4. CASE \E i \in 0..1 : S[k].call = reply.calls[i]
    BY <2>2, <2>4
  <2> QED
    BY <2>1, <2>3, <2>4
<1>12. RepliesOK'
  BY <1>5 DEF RepliesOK, Draft!EmptyKeys
<1>13. WaitingOK'
  <2> SUFFICES ASSUME NEW w \in Draft!Slots(calls)
               PROVE  /\ w.call <= reply.n + 2
                      /\ \A v \in Draft!Slots(calls) : v.index = w.index \/ v.call = w.call => v = w
                      /\ \/ draft.slots[w.index] > 0 /\ S[draft.slots[w.index]].call = w.call
                         \/ NoneBuilding /\ \A k \in 1..Len(S) : S[k].call # w.call
    BY <1>2, <1>5 DEF WaitingOK, NoneBuilding
  <2>1. w.call <= reply.n + 2
    BY <1>3, <1>4, <1>6 DEF Draft!NoCall
  <2>2. ASSUME NEW v \in Draft!Slots(calls), v.index = w.index \/ v.call = w.call
        PROVE  v = w
    <3>1. v.index = w.index
      BY <2>2, <1>3, <1>4, <1>6 DEF Draft!NoCall
    <3> QED
      BY <3>1, <1>6
  <2>3. \/ draft.slots[w.index] > 0 /\ S[draft.slots[w.index]].call = w.call
        \/ NoneBuilding /\ \A k \in 1..Len(S) : S[k].call # w.call
    <3>1. CASE calls = reply.calls
      BY <3>1, <1>6 DEF RepliesOK
    <3>2. CASE calls # reply.calls
      <4>1. reply.calls = Draft!EmptyKeys
        BY <3>2, <1>1
      <4>2. \A k \in 1..Len(S) : S[k].call <= reply.n
        BY <4>1, <1>3 DEF CallsOK, Draft!EmptyKeys, Draft!NoCall
      <4>3. NoneBuilding
        <5> SUFFICES ASSUME NEW k \in 1..Len(S), S[k].status = "building" PROVE FALSE
          BY DEF NoneBuilding
        <5>1. S[k].call = Draft!NoCall
          BY <1>2, <4>1 DEF StatusOK, Draft!EmptyKeys
        <5>2. S[k] \in Texts \cup Tools
          BY SegmentKinds DEF Shape
        <5> QED
          BY <5>1, <5>2 DEF Texts, Tools, Draft!NoCall
      <4>4. \A k \in 1..Len(S) : S[k].call # w.call
        BY <4>2, <1>3, <1>4, <1>6, <1>10
      <4> QED
        BY <4>3, <4>4
    <3> QED
      BY <3>1, <3>2
  <2> QED
    BY <2>1, <2>2, <2>3
<1>14. StatusOK'
  <2> SUFFICES ASSUME NEW k \in 1..Len(S)
               PROVE  /\ S[k].status = "building" =>
                           \E i \in 0..1 : draft.slots[i] = k /\ [index |-> i, call |-> S[k].call] \in Draft!Slots(calls)
                      /\ S[k].status # "running"
    BY <1>2, <1>5 DEF StatusOK
  <2>1. S[k].status # "running"
    BY <1>2 DEF StatusOK
  <2>2. ASSUME S[k].status = "building"
        PROVE  \E i \in 0..1 : draft.slots[i] = k /\ [index |-> i, call |-> S[k].call] \in Draft!Slots(calls)
    <3>1. PICK i \in 0..1 : draft.slots[i] = k /\ reply.calls[i] = S[k].call
      BY <2>2, <1>2 DEF StatusOK
    <3>2. S[k] \in Texts \cup Tools
      BY SegmentKinds DEF Shape
    <3>3. S[k].call # Draft!NoCall
      BY <3>2, <2>2 DEF Texts, Tools, Draft!NoCall
    <3>4. calls = reply.calls
      BY <3>1, <3>3, <1>1 DEF Draft!EmptyKeys
    <3> QED
      BY <3>1, <3>3, <3>4, <1>7
  <2> QED
    BY <2>1, <2>2
<1> QED
  BY <1>8, <1>9, <1>11, <1>12, <1>13, <1>14

\* A call is done, wherever its segment is.
LEMMA ToolEndKeeps ==
    ASSUME DraftInv, Draft!ToolEnd
    PROVE  DraftInv'
<1> USE DEF DraftInv
<1> DEFINE S == draft.segments
<1>1. PICK call \in reply.running :
         Draft!Take([type |-> "tool_end", index |-> -1, call |-> call], [reply EXCEPT !.running = @ \ {call}])
  BY DEF Draft!ToolEnd
<1> DEFINE event == [type |-> "tool_end", index |-> -1, call |-> call]
           done == [k \in 1..Len(S) |-> IF S[k].call = call THEN [S[k] EXCEPT !.status = "completed"] ELSE S[k]]
<1>2. /\ S \in Seq(Texts \cup Tools) /\ draft.slots \in [0..1 -> Nat] /\ draft = [segments |-> S, slots |-> draft.slots]
      /\ view.keys \in [0..1 -> Nat] /\ view.segments = S /\ view = [segments |-> S, keys |-> view.keys]
      /\ DOMAIN S = 1..Len(S) /\ call \in Nat \ {Draft!NoCall}
  BY DEF Shape, DraftType, Draft!DraftsAgree, TypeInv, Draft!NoCall
<1>3. /\ reply'.calls = reply.calls /\ reply'.waiting = reply.waiting /\ reply'.running = reply.running \ {call}
      /\ reply'.n = reply.n
      /\ reply' = [calls |-> reply'.calls, waiting |-> reply'.waiting, running |-> reply'.running,
                   n |-> reply'.n, sent |-> reply'.sent]
  BY <1>1 DEF Draft!Take, TypeInv
<1>4. draft' = Draft!ServerEnd(draft, event) /\ view' = Draft!ClientEnd(view, event)
  BY <1>1 DEF Draft!Take, Draft!ServerDraft, Draft!ClientDraft
<1>5. \A k \in 1..Len(S) : S[k].call = call => S[k] \in Tools /\ S[k].type = "tool"
  BY <1>2, SegmentKinds DEF Shape
<1>6. draft'.segments = done /\ draft'.slots = draft.slots /\ draft' = [segments |-> done, slots |-> draft.slots]
  <2> DEFINE found == {i \in DOMAIN S : S[i].call = call}
  <2>1. CASE found = {}
    <3>1. draft' = draft
      BY <2>1, <1>4 DEF Draft!ServerEnd
    <3>2. done = S
      BY <2>1, <1>2
    <3> QED
      BY <3>1, <3>2, <1>2
  <2>2. CASE found # {}
    <3>1. PICK k \in found : TRUE
      BY <2>2
    <3>2. \A i \in found : i = k
      BY <3>1, <1>2 DEF Shape, OneEach
    <3>3. Draft!Max(found) = k
      <4>1. found \in SUBSET Int /\ k \in found /\ \A i \in found : k >= i
        BY <3>1, <3>2, <1>2
      <4> HIDE DEF found
      <4> QED
        BY <4>1, MaxIsGreatest
    <3>4. draft' = [draft EXCEPT !.segments[k].status = "completed"]
      BY <2>2, <3>3, <1>4 DEF Draft!ServerEnd
    <3>5. [S EXCEPT ![k].status = "completed"] = done
      BY <3>1, <3>2, <1>2
    <3> QED
      BY <3>4, <3>5, <1>2
  <2> QED
    BY <2>1, <2>2
<1>7. view' = [segments |-> done, keys |-> view.keys]
  <2>1. [i \in DOMAIN S |-> IF S[i].type = "tool" /\ S[i].call = call
                            THEN [S[i] EXCEPT !.status = "completed"] ELSE S[i]] = done
    BY <1>2, <1>5
  <2>2. view' = [view EXCEPT !.segments =
                    [i \in DOMAIN S |-> IF S[i].type = "tool" /\ S[i].call = call
                                        THEN [S[i] EXCEPT !.status = "completed"] ELSE S[i]]]
    BY <1>2, <1>4 DEF Draft!ClientEnd
  <2> QED
    BY <2>1, <2>2, <1>2
<1>8. /\ done \in Seq(Texts \cup Tools) /\ Len(done) = Len(S)
      /\ \A k \in 1..Len(S) : /\ done[k].call = S[k].call /\ done[k].type = S[k].type /\ done[k].index = S[k].index
                              /\ done[k].status = IF S[k].call = call THEN "completed" ELSE S[k].status
  <2>1. \A k \in 1..Len(S) : S[k].call = call => [S[k] EXCEPT !.status = "completed"] \in Tools
    BY <1>5 DEF Tools
  <2>2. \A k \in 1..Len(S) : done[k] \in Texts \cup Tools
    BY <2>1, <1>2
  <2>3. done \in Seq(Texts \cup Tools) /\ Len(done) = Len(S)
    BY <2>2, <1>2
  <2>4. \A k \in 1..Len(S) : S[k].call = call =>
           LET t == [S[k] EXCEPT !.status = "completed"]
           IN  t.call = S[k].call /\ t.type = S[k].type /\ t.index = S[k].index /\ t.status = "completed"
    BY <1>5 DEF Tools
  <2> QED
    BY <2>3, <2>4
<1> HIDE DEF done, S, event
<1>9. Shape'
  <2>0. Shape
    OBVIOUS
  <2>1. DraftType'
    BY <1>2, <1>6, <1>7, <1>8 DEF DraftType
  <2>2. Draft!DraftsAgree'
    BY <1>6, <1>7 DEF Draft!DraftsAgree
  <2>3. SlotsOK'
    BY <2>0, <1>6, <1>8 DEF SlotsOK, Shape, S
  <2>4. KeysOK'
    <3>1. \A i \in 0..1 : draft.slots[i] \in 0..Len(S)
      BY <2>0 DEF Shape, SlotsOK, S
    <3>2. \A i \in 0..1 : view.keys[i] = IF draft.slots[i] = 0 THEN Draft!NoCall ELSE S[draft.slots[i]].call
      BY <2>0 DEF Shape, KeysOK, S
    <3> QED
      BY <3>1, <3>2, <1>6, <1>7, <1>8, <1>2 DEF KeysOK
  <2>5. OneEach'
    BY <2>0, <1>6, <1>8 DEF OneEach, Shape, S
  <2> QED
    BY <2>1, <2>2, <2>3, <2>4, <2>5 DEF Shape
<1>10. TypeInv'
  BY <1>3 DEF TypeInv
<1>11. CallsOK'
  BY <1>3, <1>6, <1>8 DEF CallsOK, S
<1>12. reply.calls = Draft!EmptyKeys
  BY DEF RepliesOK, Draft!Talking
<1>13. RepliesOK'
  BY <1>3, <1>12 DEF RepliesOK, Draft!EmptyKeys
<1>14. WaitingOK'
  <2>1. NoneBuilding => NoneBuilding'
    BY <1>6, <1>8 DEF NoneBuilding, S
  <2>2. \A i \in 0..1 : draft.slots[i] \in 0..Len(S)
    BY DEF Shape, SlotsOK, S
  <2>3. \A w \in reply.waiting : w.index \in 0..1
    BY DEF TypeInv
  <2> QED
    BY <1>3, <1>6, <1>8, <2>1, <2>2, <2>3 DEF WaitingOK, S
<1>15. StatusOK'
  BY <1>3, <1>6, <1>8 DEF StatusOK, S
<1> QED
  BY <1>9, <1>10, <1>11, <1>13, <1>14, <1>15

\* A call that starts takes the place the browser has for its index.
LEMMA StartInPlace ==
    ASSUME NEW v, NEW e, NEW at \in Nat \ {0}, at = Draft!FindTool(v.segments, v.keys[e.index])
    PROVE  Draft!ClientStart(v, e) =
             Viewing(v, [v.segments EXCEPT ![at] = Draft!ToolSegment(e.call, e.index, "running")], e.index, e.call)
<1> DEFINE tool == Draft!ToolSegment(e.call, e.index, "running")
<1>1. at > 0 /\ at # 0
  OBVIOUS
<1> HIDE DEF tool
<1>2. Draft!ClientStart(v, e) = [v EXCEPT !.segments = [v.segments EXCEPT ![at] = tool], !.keys[e.index] = e.call]
  BY <1>1 DEF Draft!ClientStart, tool
<1> QED
  BY <1>2 DEF Viewing, tool

\* A call starts, in its own segment or, if it was never streamed, in a new one.
LEMMA ToolStartKeeps ==
    ASSUME DraftInv, Draft!ToolStart
    PROVE  DraftInv'
<1> USE DEF DraftInv
<1> DEFINE S == draft.segments
<1>1. PICK w \in reply.waiting :
         Draft!Take([type |-> "tool_start", index |-> w.index, call |-> w.call],
              [reply EXCEPT !.waiting = @ \ {w}, !.running = @ \cup {w.call}])
  BY DEF Draft!ToolStart
<1> DEFINE event == [type |-> "tool_start", index |-> w.index, call |-> w.call]
           i == w.index
           at == draft.slots[i]
           t == Draft!ToolSegment(w.call, i, "running")
<1>2. /\ S \in Seq(Texts \cup Tools) /\ draft.slots \in [0..1 -> Nat] /\ draft = [segments |-> S, slots |-> draft.slots]
      /\ view.keys \in [0..1 -> Nat] /\ view.segments = S /\ view = [segments |-> S, keys |-> view.keys]
  BY DEF Shape, DraftType, Draft!DraftsAgree
<1>3. i \in 0..1 /\ w.call \in Nat \ {Draft!NoCall} /\ w = [index |-> i, call |-> w.call]
  BY DEF TypeInv, Draft!NoCall
<1>4. /\ w.call <= reply.n /\ w.call \notin reply.running
      /\ \A v \in reply.waiting : v.index = w.index \/ v.call = w.call => v = w
      /\ \/ at > 0 /\ S[at].call = w.call
         \/ NoneBuilding /\ \A k \in 1..Len(S) : S[k].call # w.call
  BY DEF WaitingOK
<1>5. /\ reply'.calls = reply.calls /\ reply'.waiting = reply.waiting \ {w}
      /\ reply'.running = reply.running \cup {w.call} /\ reply'.n = reply.n
      /\ reply' = [calls |-> reply'.calls, waiting |-> reply'.waiting, running |-> reply'.running,
                   n |-> reply'.n, sent |-> reply'.sent]
  BY <1>1 DEF Draft!Take, TypeInv
<1>6. draft' = Draft!ServerStart(draft, event) /\ view' = Draft!ClientStart(view, event)
  BY <1>1 DEF Draft!Take, Draft!ServerDraft, Draft!ClientDraft
<1>7. t \in Tools /\ t.index = i /\ t.call = w.call /\ t.status = "running"
  BY <1>3 DEF Draft!ToolSegment, Tools, Draft!NoCall
<1>8. reply.calls = Draft!EmptyKeys /\ reply.n \in Nat
  BY DEF RepliesOK, Draft!Talking, TypeInv
<1>9. at \in 0..Len(S) /\ (at > 0 => S[at].type = "tool" /\ S[at].index = i)
  BY <1>3 DEF Shape, SlotsOK
<1>10. \A k \in 1..Len(S) \ {at} : S[k].call # w.call
  BY <1>3, <1>4, <1>9 DEF Shape, OneEach
<1>11. \A k \in 1..Len(S) : S[k].call <= reply.n
  BY <1>8 DEF CallsOK, Draft!EmptyKeys, Draft!NoCall
<1>12. TypeInv'
  BY <1>3, <1>5 DEF TypeInv, Draft!NoCall
<1>13. RepliesOK'
  BY <1>5, <1>8 DEF RepliesOK, Draft!EmptyKeys
\* One segment is the call's, at the place of its slot; the others stay.
<1>14. \E place \in 1..Len(S) + 1 :
          /\ Shape'
          /\ place = IF at > 0 THEN at ELSE Len(S) + 1
          /\ Len(draft'.segments) = IF at > 0 THEN Len(S) ELSE Len(S) + 1
          /\ draft'.segments[place] = t
          /\ \A k \in 1..Len(S) \ {place} : draft'.segments[k] = S[k]
          /\ draft'.slots = [draft.slots EXCEPT ![i] = place]
  <2>1. CASE at > 0
    <3>1. at \in 1..Len(S) /\ view.keys[i] = S[at].call
      BY <2>1, <1>3, <1>9 DEF Shape, KeysOK
    <3>2. Draft!FindTool(view.segments, view.keys[i]) = at
      BY <2>1, <3>1, <1>9, FindsCall
    <3>3. draft' = [draft EXCEPT !.segments[at] = t]
      BY <2>1, <1>6 DEF Draft!ServerStart
    <3>4. view' = [view EXCEPT !.segments = [@ EXCEPT ![at] = t], !.keys[i] = t.call]
      <4>1. event.index = i /\ event.call = w.call
        OBVIOUS
      <4>3. at \in Nat \ {0}
        BY <3>1
      <4> HIDE DEF event, i, at
      <4>2. Draft!ClientStart(view, event) =
               Viewing(view, [view.segments EXCEPT ![at] = Draft!ToolSegment(w.call, i, "running")], i, w.call)
        BY <3>2, <4>1, <4>3, StartInPlace
      <4> QED
        BY <4>2, <1>6, <1>7 DEF Viewing
    <3> HIDE DEF t, i
    <3>5. /\ Shape'
          /\ Len(draft'.segments) = Len(S)
          /\ draft'.segments[at] = t
          /\ \A k \in 1..Len(S) \ {at} : draft'.segments[k] = S[k]
          /\ draft'.slots = draft.slots
      BY <2>1, <3>3, <3>4, <1>3, <1>7, <1>10, SameSegment
    <3>6. [draft.slots EXCEPT ![i] = at] = draft.slots
      BY <1>2, <1>3
    <3> QED
      BY <2>1, <3>1, <3>5, <3>6
  <2>2. CASE at = 0
    <3>1. NoneBuilding /\ \A k \in 1..Len(S) : S[k].call # w.call
      BY <2>2, <1>4
    <3>2. view.keys[i] = Draft!NoCall
      BY <2>2, <1>3 DEF Shape, KeysOK
    <3>3. Draft!FindTool(view.segments, Draft!NoCall) = 0
      BY <3>1, FindsNoBuilding
    <3>4. draft' = [segments |-> Append(S, t), slots |-> [draft.slots EXCEPT ![i] = Len(S) + 1]]
      BY <2>2, <1>6 DEF Draft!ServerStart
    <3>5. view' = [view EXCEPT !.segments = Append(@, t), !.keys[i] = t.call]
      <4>1. event.index = i /\ event.call = w.call
        OBVIOUS
      <4> HIDE DEF event, i
      <4>2. Draft!ClientStart(view, event) =
               Viewing(view, Append(view.segments, Draft!ToolSegment(w.call, i, "running")), i, w.call)
        BY <3>2, <3>3, <4>1 DEF Draft!ClientStart, Viewing
      <4> QED
        BY <4>2, <1>6, <1>7 DEF Viewing
    <3>6. /\ Shape'
          /\ Len(draft'.segments) = Len(S) + 1
          /\ draft'.segments[Len(S) + 1] = t
          /\ \A k \in 1..Len(S) : draft'.segments[k] = S[k]
          /\ draft'.slots = [draft.slots EXCEPT ![i] = Len(S) + 1]
      BY <3>1, <3>4, <3>5, <1>3, <1>7, NewSegment
    <3> QED
      BY <2>2, <3>6, <1>2
  <2> QED
    BY <2>1, <2>2, <1>9
<1>15. PICK place \in 1..Len(S) + 1 :
          /\ Shape'
          /\ place = IF at > 0 THEN at ELSE Len(S) + 1
          /\ Len(draft'.segments) = IF at > 0 THEN Len(S) ELSE Len(S) + 1
          /\ draft'.segments[place] = t
          /\ \A k \in 1..Len(S) \ {place} : draft'.segments[k] = S[k]
          /\ draft'.slots = [draft.slots EXCEPT ![i] = place]
  BY <1>14
<1>16. \A k \in 1..Len(draft'.segments) : k = place \/ k \in 1..Len(S) \ {place}
  BY <1>15, <1>9
<1> HIDE DEF t, event, at
<1>17. CallsOK'
  BY <1>4, <1>5, <1>7, <1>11, <1>15, <1>16 DEF CallsOK
\* The slots of the other calls that wait are not touched.
<1>18. ASSUME NEW j \in 0..1, j # i
       PROVE  /\ draft'.slots[j] = draft.slots[j]
              /\ draft.slots[j] > 0 => draft.slots[j] \in 1..Len(S) \ {place}
  <2>1. draft'.slots[j] = draft.slots[j]
    BY <1>2, <1>15, <1>18
  <2>2. draft.slots[j] \in 0..Len(S) /\ (draft.slots[j] > 0 => S[draft.slots[j]].index = j)
    BY DEF Shape, SlotsOK
  <2>3. draft.slots[j] > 0 => draft.slots[j] # at
    BY <2>2, <1>9, <1>18
  <2> QED
    BY <2>1, <2>2, <2>3, <1>2, <1>9, <1>15
<1>19. WaitingOK'
  <2> SUFFICES ASSUME NEW v \in reply.waiting, v # w
               PROVE  /\ v.call <= reply.n /\ v.call \notin reply.running \cup {w.call}
                      /\ \A u \in reply.waiting : u.index = v.index \/ u.call = v.call => u = v
                      /\ \/ draft'.slots[v.index] > 0 /\ draft'.segments[draft'.slots[v.index]].call = v.call
                         \/ NoneBuilding' /\ \A k \in 1..Len(draft'.segments) : draft'.segments[k].call # v.call
    BY <1>5 DEF WaitingOK
  <2>1. v.index \in 0..1 /\ v.index # i /\ v.call # w.call
    BY <1>4 DEF TypeInv
  <2>2. /\ v.call <= reply.n /\ v.call \notin reply.running \cup {w.call}
        /\ \A u \in reply.waiting : u.index = v.index \/ u.call = v.call => u = v
    BY <2>1 DEF WaitingOK
  <2>3. \/ draft'.slots[v.index] > 0 /\ draft'.segments[draft'.slots[v.index]].call = v.call
        \/ NoneBuilding' /\ \A k \in 1..Len(draft'.segments) : draft'.segments[k].call # v.call
    <3>1. CASE draft.slots[v.index] > 0 /\ S[draft.slots[v.index]].call = v.call
      <4>1. draft'.slots[v.index] = draft.slots[v.index] /\ draft.slots[v.index] \in 1..Len(S) \ {place}
        BY <2>1, <3>1, <1>18
      <4> QED
        BY <3>1, <4>1, <1>15
    <3>2. CASE NoneBuilding /\ \A k \in 1..Len(S) : S[k].call # v.call
      <4>1. NoneBuilding'
        BY <3>2, <1>7, <1>15, <1>16 DEF NoneBuilding
      <4>2. \A k \in 1..Len(draft'.segments) : draft'.segments[k].call # v.call
        BY <2>1, <3>2, <1>7, <1>15, <1>16
      <4> QED
        BY <4>1, <4>2
    <3> QED
      BY <3>1, <3>2 DEF WaitingOK
  <2> QED
    BY <2>2, <2>3
<1>20. StatusOK'
  <2> SUFFICES ASSUME NEW k \in 1..Len(draft'.segments)
               PROVE  /\ draft'.segments[k].status = "building" =>
                            \E j \in 0..1 : /\ draft'.slots[j] = k
                                            /\ [index |-> j, call |-> draft'.segments[k].call] \in reply.waiting \ {w}
                      /\ draft'.segments[k].status = "running" =>
                            draft'.segments[k].call \in reply.running \cup {w.call}
    BY <1>5 DEF StatusOK
  <2>1. CASE k = place
    BY <2>1, <1>7, <1>15
  <2>2. CASE k \in 1..Len(S) \ {place}
    <3>1. draft'.segments[k] = S[k]
      BY <2>2, <1>15
    <3>2. S[k].status = "running" => S[k].call \in reply.running
      BY <2>2 DEF StatusOK
    <3>3. ASSUME S[k].status = "building"
          PROVE  \E j \in 0..1 : draft'.slots[j] = k /\ [index |-> j, call |-> S[k].call] \in reply.waiting \ {w}
      <4>1. PICK j \in 0..1 : /\ draft.slots[j] = k
                              /\ reply.calls[j] = S[k].call \/ [index |-> j, call |-> S[k].call] \in reply.waiting
        BY <2>2, <3>3 DEF StatusOK
      <4>2. S[k].call # Draft!NoCall
        <5>1. S[k] \in Texts \cup Tools
          BY <2>2, SegmentKinds DEF Shape
        <5> QED
          BY <5>1, <3>3 DEF Texts, Tools, Draft!NoCall
      <4>3. [index |-> j, call |-> S[k].call] \in reply.waiting
        BY <4>1, <4>2, <1>8 DEF Draft!EmptyKeys
      <4>4. j # i
        BY <4>1, <2>2, <1>15, <1>9 DEF at
      <4>5. [index |-> j, call |-> S[k].call].index = j
        OBVIOUS
      <4> QED
        BY <4>1, <4>3, <4>4, <4>5, <1>18
    <3> QED
      BY <3>1, <3>2, <3>3
  <2> QED
    BY <2>1, <2>2, <1>16
<1> QED
  BY <1>12, <1>13, <1>15, <1>17, <1>19, <1>20

\* Who joins reads off the snapshot what those who followed know.
LEMMA JoinKeeps ==
    ASSUME DraftInv, Draft!Join
    PROVE  DraftInv'
<1> USE DEF DraftInv
<1> DEFINE S == draft.segments
<1>1. view' = [segments |-> S, keys |-> Draft!KeysOf(S)] /\ reply' = reply /\ draft' = draft
  BY DEF Draft!Join
<1>2. S \in Seq(Texts \cup Tools) /\ DOMAIN S = 1..Len(S) /\ draft.slots \in [0..1 -> Nat]
  BY DEF Shape, DraftType
<1>3. ASSUME NEW i \in 0..1
      PROVE  Draft!KeysOf(S)[i] = (IF draft.slots[i] = 0 THEN Draft!NoCall ELSE S[draft.slots[i]].call)
  <2> DEFINE found == {k \in DOMAIN S : S[k].type = "tool" /\ S[k].index = i}
  <2>1. Draft!KeysOf(S)[i] = IF found = {} THEN Draft!NoCall ELSE S[Draft!Max(found)].call
    BY DEF Draft!KeysOf
  <2>2. /\ draft.slots[i] \in 0..Len(S)
        /\ draft.slots[i] > 0 => S[draft.slots[i]].type = "tool" /\ S[draft.slots[i]].index = i
        /\ \A k \in 1..Len(S) : S[k].type = "tool" /\ S[k].index = i => k <= draft.slots[i]
    BY DEF Shape, SlotsOK
  <2>3. CASE draft.slots[i] = 0
    <3>1. found = {}
      BY <2>2, <2>3, <1>2
    <3> QED
      BY <2>1, <2>3, <3>1
  <2>4. CASE draft.slots[i] > 0
    <3>1. found \in SUBSET Int /\ draft.slots[i] \in found /\ \A k \in found : draft.slots[i] >= k
      BY <2>2, <2>4, <1>2
    <3> HIDE DEF found
    <3>2. Draft!Max(found) = draft.slots[i]
      BY <3>1, MaxIsGreatest
    <3>3. found # {} /\ draft.slots[i] # 0
      BY <2>4, <3>1
    <3> QED
      BY <2>1, <3>2, <3>3
  <2> QED
    BY <2>2, <2>3, <2>4
<1>4. Draft!KeysOf(S) \in [0..1 -> Nat]
  <2>1. Draft!KeysOf(S) = [i \in 0..1 |-> Draft!KeysOf(S)[i]]
    BY DEF Draft!KeysOf
  <2>2. ASSUME NEW i \in 0..1 PROVE Draft!KeysOf(S)[i] \in Nat
    <3>1. draft.slots[i] # 0 => S[draft.slots[i]].call \in Nat
      BY <1>2, SegmentKinds DEF Shape, SlotsOK
    <3> QED
      BY <3>1, <1>3 DEF Draft!NoCall
  <2> QED
    BY <2>1, <2>2
<1>5. Shape'
  BY <1>1, <1>2, <1>3, <1>4 DEF Shape, DraftType, Draft!DraftsAgree, SlotsOK, KeysOK, OneEach
<1> QED
  BY <1>1, <1>5 DEF TypeInv, CallsOK, RepliesOK, Draft!Talking, WaitingOK, NoneBuilding, StatusOK

\* Both sides begin with nothing.
LEMMA DraftStarts == Draft!Init => DraftInv
  BY DEF Draft!Init, DraftInv, TypeInv, Shape, DraftType, Draft!DraftsAgree, SlotsOK, KeysOK, OneEach, CallsOK, RepliesOK,
         Draft!Talking, WaitingOK, StatusOK, Draft!NoReply, Draft!NoDraft, Draft!EmptySlots, Draft!EmptyKeys, Draft!NoCall

\* One case for each event, and one for a browser that joins late.
LEMMA DraftNext ==
    ASSUME DraftInv, [Draft!Next]_(Draft!vars)
    PROVE  DraftInv'
<1>1. CASE UNCHANGED Draft!vars
  BY <1>1 DEF Draft!vars, DraftInv, TypeInv, Shape, DraftType, Draft!DraftsAgree, SlotsOK, KeysOK, OneEach, CallsOK, RepliesOK,
              Draft!Talking, WaitingOK, NoneBuilding, StatusOK
<1> QED
  BY <1>1, TokenKeeps, ChunkKeeps, ReplyEndsKeeps, ToolStartKeeps, ToolEndKeeps, JoinKeeps DEF Draft!Next

\* The browser shows what the server has drafted, whichever order tokens, chunks
\* of parallel calls and tool events come in and whenever it joins; and no call
\* writes into the segment of another (_update_stream_segments in
\* src/web/event_bus.py against conversationReducer.ts).
THEOREM DraftsAlwaysAgree == Draft!Spec => [](Draft!DraftsAgree /\ Draft!CallsStayApart)
<1>1. DraftInv => Draft!DraftsAgree /\ Draft!CallsStayApart
  <2> SUFFICES ASSUME DraftInv PROVE Draft!DraftsAgree /\ Draft!CallsStayApart
    OBVIOUS
  <2>1. DOMAIN draft.segments = 1..Len(draft.segments)
    BY DEF DraftInv, Shape, DraftType
  <2> QED
    BY <2>1 DEF DraftInv, Shape, OneEach, StatusOK, Draft!CallsStayApart
<1> QED
  BY <1>1, DraftStarts, DraftNext, PTL DEF Draft!Spec

-----------------------------------------------------------------------------
(* The identities a task is run under, and the processes its scripts leave.      *)

\* Every process is of the attempt at work (or just being killed), of one that
\* was cut off, or has let go of its output.
ProcessesKnown ==
    \A p \in alive :
        \/ p[1] = run.id /\ run.at \in {"running", "killed"}
        \/ p[1] \in cut
        \/ p[2] = "apart"
ProcessType == \A p \in alive : p = <<p[1], p[2]>> /\ p[2] \in {"script", "holds", "apart"}
ScriptInv == ProcessType /\ ProcessesKnown

-------------------------------------------------------------------------------
\* A step that leaves the processes, what was cut off and the run alone keeps
\* the invariant.
LEMMA Untouched ==
    ScriptInv /\ UNCHANGED <<alive, cut, run>> => ScriptInv'
BY DEF ScriptInv, ProcessType, ProcessesKnown

\* Where no process has the output of the attempt open, all that is left of it
\* has let go of it: the run may do without it.
LEMMA OutputEnded ==
    ScriptInv /\ Identities!OutputEnds /\ UNCHANGED <<alive, cut>> => ScriptInv'
<1> SUFFICES ASSUME ScriptInv, Identities!OutputEnds, UNCHANGED <<alive, cut>>
             PROVE  ScriptInv'
  OBVIOUS
<1>1. ProcessType'
  BY DEF ScriptInv, ProcessType
<1>2. ASSUME NEW p \in alive
      PROVE  p[1] \in cut \/ p[2] = "apart"
  <2>1. p[2] \in {"script", "holds", "apart"} /\ p = <<p[1], p[2]>>
    BY <1>2 DEF ScriptInv, ProcessType
  <2>2. CASE p[1] = run.id /\ p[2] # "apart"
    BY <2>1, <2>2, <1>2 DEF Identities!OutputEnds
  <2> QED BY <2>1, <2>2, <1>2 DEF ScriptInv, ProcessesKnown
<1> QED BY <1>1, <1>2 DEF ScriptInv, ProcessesKnown

\* Nothing is at work before there is a task.
LEMMA ScriptInvInit == Identities!Init => ScriptInv
  BY DEF Identities!Init, ScriptInv, ProcessType, ProcessesKnown

\* One step per action, by what it does to the run and its processes.
LEMMA ScriptInvNext == ScriptInv /\ [Identities!Next]_(Identities!vars) => ScriptInv'
<1> SUFFICES ASSUME ScriptInv, [Identities!Next]_(Identities!vars)
             PROVE  ScriptInv'
  OBVIOUS
<1>1. CASE Identities!SavesScript \/ Identities!SavesLibraryScript \/ Identities!TogglesOwner \/ Identities!EditsAgent
  BY <1>1, Untouched DEF Identities!SavesScript, Identities!SavesLibraryScript, Identities!TogglesOwner, Identities!EditsAgent, Identities!Changes
<1>2. CASE Identities!Creates("pending") \/ Identities!Creates("pre_running") \/ Identities!PreStarts \/ Identities!PreStarted \/ Identities!SetsVariable
  BY <1>2, Untouched DEF Identities!Creates, Identities!PreStarts, Identities!PreStarted, Identities!SetsVariable
\* Nothing is at work when a run begins.
<1>3. CASE Identities!Runs \/ Identities!RunsAgain
  <2>1. run.at = "none" /\ UNCHANGED <<alive, cut>>
    BY <1>3 DEF Identities!Runs, Identities!RunsAgain
  <2> QED BY <2>1 DEF ScriptInv, ProcessType, ProcessesKnown
<1>4. CASE Identities!Verifies
  <2>1. run.at = "idle" /\ UNCHANGED <<alive, cut>>
    BY <1>4 DEF Identities!Verifies, Identities!Working
  <2> QED BY <2>1 DEF ScriptInv, ProcessType, ProcessesKnown
<1>5. CASE Identities!Starts
  <2>1. run.at = "verified" /\ UNCHANGED cut
    BY <1>5 DEF Identities!Starts, Identities!Working
  <2>2. \A p \in alive : p[1] \in cut \/ p[2] = "apart"
    BY <2>1 DEF ScriptInv, ProcessesKnown
  <2>3. run'.at = "running" /\ run'.id = run.id
    BY <1>5 DEF Identities!Starts
  <2>4. alive' \subseteq alive \cup {<<run.id, "script">>}
    BY <1>5 DEF Identities!Starts
  <2> QED BY <2>1, <2>2, <2>3, <2>4 DEF ScriptInv, ProcessType, ProcessesKnown
<1>6. CASE Identities!Forks
  <2>1. run.at = "running" /\ UNCHANGED <<run, cut>>
    BY <1>6 DEF Identities!Forks, Identities!Working
  <2>2. PICK kind \in {"holds", "apart"} : alive' = alive \cup {<<run.id, kind>>}
    BY <1>6 DEF Identities!Forks
  <2> QED BY <2>1, <2>2 DEF ScriptInv, ProcessType, ProcessesKnown
<1>7. CASE Identities!Exits
  <2>1. alive' \subseteq alive /\ UNCHANGED <<run, cut>>
    BY <1>7 DEF Identities!Exits, Identities!Working
  <2> QED BY <2>1 DEF ScriptInv, ProcessType, ProcessesKnown
\* A run goes on only when nobody holds the output.
<1>8. CASE Identities!NodeEnds \/ Identities!Killed
  BY <1>8, OutputEnded DEF Identities!NodeEnds, Identities!Killed, Identities!Working
<1>9. CASE Identities!TimesOut
  <2>1. alive' \subseteq alive /\ UNCHANGED cut
    BY <1>9 DEF Identities!TimesOut, Identities!Working
  <2>2. run'.at = "killed" /\ run'.id = run.id
    BY <1>9 DEF Identities!TimesOut
  <2> QED BY <2>1, <2>2 DEF ScriptInv, ProcessType, ProcessesKnown
\* What a stop or a restart leaves behind counts as cut off.
<1>10. CASE Identities!Stops \/ Identities!Restarts
  <2>1. cut' = cut \cup {run.id} /\ UNCHANGED alive
    BY <1>10 DEF Identities!Stops, Identities!Restarts
  <2> QED BY <2>1 DEF ScriptInv, ProcessType, ProcessesKnown
<1>11. CASE UNCHANGED Identities!vars
  BY <1>11, Untouched DEF Identities!vars
<1> QED
  BY <1>1, <1>2, <1>3, <1>4, <1>5, <1>6, <1>7, <1>8, <1>9, <1>10, <1>11 DEF Identities!Next

\* For any contents, agents and bounds: while a script runs, no process of an
\* attempt before it is at work in its workspace, except where a stop or the end
\* of the program cut that attempt off or the process let go of its output
\* (ScriptNode.execute kills a script that is over its time and reads its output
\* to the end before the node ends).
THEOREM RunsAlone == Identities!Spec => []Identities!ScriptRunsAlone
<1>1. ScriptInv => Identities!ScriptRunsAlone
  BY DEF ScriptInv, ProcessesKnown, Identities!ScriptRunsAlone
<1> QED
  BY <1>1, ScriptInvInit, ScriptInvNext, PTL DEF Identities!Spec

-------------------------------------------------------------------------------
(* What a task runs is what was frozen                                         *)

Active == {"pending", "pre_running", "running", "failed"}
Guards == {"inline", "library", "agent"}

\* Records as the actions make them; what an identity is made of does not matter.
IsGuard(g) == g = [inline |-> g.inline, library |-> g.library, agent |-> g.agent]
IsTask(t) ==
    /\ t = [status |-> t.status, value |-> t.value, guard |-> t.guard, next |-> t.next]
    /\ IsGuard(t.guard)
Records ==
    /\ IsTask(kept) /\ IsTask(starting)
    /\ run = [at |-> run.at, task |-> run.task, saw |-> run.saw, id |-> run.id]
    /\ IsTask(run.task) /\ IsGuard(run.saw)
    /\ made = [was |-> made.was, over |-> made.over]
    /\ IsGuard(made.was) /\ made.over \in BOOLEAN

\* Where the task stands: there is a next node as long as it can run, and a run
\* is about a task that exists and says so, unless what was pre-started wrote
\* over it.
PlaceOK ==
    /\ kept.status \in Active => kept.next \in 1 .. 3
    /\ kept.status \in Active \cup {"none", "completed"}
    /\ starting # Identities!NoTask => /\ starting.status = "pending" /\ starting.next \in 1 .. 3
                            /\ ~made.over /\ kept.status # "none"
    /\ run.at # "none" => /\ run.task.status = "running" /\ run.task.next \in 1 .. 3
                          /\ kept.status # "none"
                          /\ kept.status = "running" \/ made.over

\* A guard is what the task was made with; that of the agent, unless what was
\* pre-started wrote over it.
Frozen(guard) ==
    /\ guard.inline = made.was.inline /\ guard.library = made.was.library
    /\ guard.agent = made.was.agent \/ made.over
GuardOK ==
    /\ kept.status # "none" => Frozen(kept.guard)
    /\ run.at # "none" => Frozen(run.task.guard)
    /\ starting # Identities!NoTask => /\ starting.guard.inline = made.was.inline
                            /\ starting.guard.library = made.was.library

\* What an attempt saw when it was verified is what its guard says.
SawOK ==
    run.at = "verified" => run.saw[Identities!Node] = made.was[Identities!Node] \/ (Identities!Node = "agent" /\ made.over)

FrozenInv == Records /\ PlaceOK /\ GuardOK /\ SawOK

\* The next node of a task that runs is one of the three.
LEMMA NodeKnown ==
    ASSUME run.task.next \in 1 .. 3
    PROVE  Identities!Node \in Guards
  BY DEF Identities!Node, Identities!Nodes, Guards

\* Nothing of this changes where the task, its run and what it was made with stay.
LEMMA FrozenUntouched ==
    FrozenInv /\ UNCHANGED <<kept, starting, run, made>> => FrozenInv'
  BY DEF FrozenInv, Records, PlaceOK, GuardOK, SawOK, Frozen, IsTask, IsGuard, Identities!Node

\* Before there is a task all of this holds.
LEMMA FrozenInit == Identities!Init => FrozenInv
  BY DEF Identities!Init, FrozenInv, Records, PlaceOK, GuardOK, SawOK, Frozen, IsTask, IsGuard, Identities!NoTask, Identities!NoRun, Identities!NoGuard, Active

\* A task is created, maybe with a copy that is held while a session is awaited.
LEMMA CreatesFrozen ==
    ASSUME FrozenInv, Identities!Creates("pending") \/ Identities!Creates("pre_running") \/ Identities!PreStarts
    PROVE  FrozenInv'
<1> DEFINE guard == Identities!Identity(Default)
<1>0. IsGuard(guard)
  BY DEF Identities!Identity, IsGuard
<1> HIDE DEF guard
<1>1. PICK status \in {"pending", "pre_running"} :
         /\ kept' = [Identities!NoTask EXCEPT !.status = status, !.value = Default, !.guard = guard]
         /\ made' = [was |-> guard, over |-> FALSE]
         /\ starting' = starting \/ (starting' = kept' /\ status = "pending")
         /\ starting = Identities!NoTask
         /\ kept.status = "none" /\ UNCHANGED run
  BY DEF Identities!Creates, Identities!PreStarts, Identities!Born, guard
<1>2. run.at = "none"
  BY <1>1 DEF FrozenInv, PlaceOK
<1>3. /\ IsTask(kept') /\ kept'.status = status /\ kept'.guard = guard /\ kept'.next = 1
      /\ IsTask(Identities!NoTask)
  BY <1>0, <1>1 DEF Identities!NoTask, Identities!NoGuard, IsTask, IsGuard
<1>4. Records'
  BY <1>0, <1>1, <1>3 DEF FrozenInv, Records
<1>5. PlaceOK' /\ SawOK'
  <2>1. ~made'.over
    BY <1>1
  <2>2. starting' # Identities!NoTask => starting' = kept' /\ status = "pending"
    BY <1>1
  <2>3. run'.at = "none"
    BY <1>1, <1>2
  <2>4. kept'.status \in Active
    BY <1>3 DEF Active
  <2> QED
    BY <1>3, <2>1, <2>2, <2>3, <2>4 DEF PlaceOK, SawOK, Active
<1>6. GuardOK'
  BY <1>1, <1>2, <1>3 DEF FrozenInv, GuardOK, Frozen
<1> QED
  BY <1>4, <1>5, <1>6 DEF FrozenInv

\* The copy is written over the file.
LEMMA PreStartedFrozen ==
    ASSUME FrozenInv, Identities!PreStarted
    PROVE  FrozenInv'
<1>1. PICK over \in BOOLEAN : over <=> kept # starting
  BY Zenon
<1>2. /\ made' = [made EXCEPT !.over = over]
      /\ kept' = [starting EXCEPT !.status = "pre_running"]
      /\ starting # Identities!NoTask /\ starting' = Identities!NoTask /\ UNCHANGED run
  BY <1>1 DEF Identities!PreStarted
<1>3. /\ IsTask(kept') /\ kept'.status = "pre_running" /\ kept'.guard = starting.guard
      /\ kept'.next = starting.next
  BY <1>2 DEF FrozenInv, Records, IsTask
<1>4. /\ made'.was = made.was /\ (made'.over <=> over)
      /\ made' = [was |-> made'.was, over |-> made'.over]
  BY <1>2 DEF FrozenInv, Records
<1>5. IsTask(Identities!NoTask)
  BY DEF Identities!NoTask, Identities!NoGuard, IsTask, IsGuard
<1>6. over \/ (kept = starting /\ kept.status = "pending" /\ ~made.over)
  BY <1>1, <1>2 DEF FrozenInv, PlaceOK
<1> QED
  BY <1>2, <1>3, <1>4, <1>5, <1>6, NodeKnown
     DEF FrozenInv, Records, PlaceOK, GuardOK, SawOK, Frozen, Active, Identities!Node, Guards

\* The variable is set: the agent is frozen anew while the task is accepting,
\* which a task that runs is only when what was pre-started wrote over it.
LEMMA SetsVariableFrozen ==
    ASSUME FrozenInv, Identities!SetsVariable
    PROVE  FrozenInv'
<1>1. kept.status # "none" /\ UNCHANGED <<starting, run>>
  BY DEF Identities!SetsVariable
<1>2. PICK value \in AgentTypes :
         \/ /\ Identities!Accepting
            /\ kept' = [kept EXCEPT !.value = value, !.guard.agent = Identities!Identity(value).agent]
            /\ made' = [made EXCEPT !.was.agent = Identities!Identity(value).agent]
         \/ /\ kept' = [kept EXCEPT !.value = value]
            /\ UNCHANGED made
  BY DEF Identities!SetsVariable, Identities!Refreezes
<1> DEFINE agent == Identities!Identity(value).agent
<1> HIDE DEF agent
<1>3. CASE /\ Identities!Accepting
           /\ kept' = [kept EXCEPT !.value = value, !.guard.agent = agent]
           /\ made' = [made EXCEPT !.was.agent = agent]
  <2>1. /\ IsTask(kept') /\ kept'.status = kept.status /\ kept'.next = kept.next
        /\ kept'.guard.inline = kept.guard.inline /\ kept'.guard.library = kept.guard.library
        /\ kept'.guard.agent = agent
    BY <1>3 DEF FrozenInv, Records, IsTask, IsGuard
  <2>2. /\ made' = [was |-> made'.was, over |-> made'.over]
        /\ IsGuard(made'.was) /\ made'.over = made.over
        /\ made'.was.inline = made.was.inline /\ made'.was.library = made.was.library
        /\ made'.was.agent = agent
    BY <1>3 DEF FrozenInv, Records, IsGuard
  <2>3. run.at # "none" => made.over
    BY <1>3 DEF FrozenInv, PlaceOK, Identities!Accepting
  <2>4. run.at # "none" => Identities!Node \in Guards
    BY NodeKnown DEF FrozenInv, PlaceOK
  <2>5. SawOK'
    BY <1>1, <2>2, <2>3, <2>4 DEF FrozenInv, SawOK, Identities!Node, Guards
  <2> QED
    BY <1>1, <2>1, <2>2, <2>3, <2>5 DEF FrozenInv, Records, PlaceOK, GuardOK, Frozen
<1>4. CASE /\ kept' = [kept EXCEPT !.value = value]
           /\ UNCHANGED made
  <2>1. /\ IsTask(kept') /\ kept'.status = kept.status /\ kept'.next = kept.next
        /\ kept'.guard = kept.guard
    BY <1>4 DEF FrozenInv, Records, IsTask
  <2> QED
    BY <1>1, <1>4, <2>1 DEF FrozenInv, Records, PlaceOK, GuardOK, Frozen, SawOK, Identities!Node
<1> QED
  BY <1>2, <1>3, <1>4 DEF agent

\* A run begins with a copy of the file.
LEMMA RunsFrozen ==
    ASSUME FrozenInv, Identities!Runs \/ Identities!RunsAgain
    PROVE  FrozenInv'
<1>1. /\ kept.status \in Active
      /\ kept' = [kept EXCEPT !.status = "running"]
      /\ run' = [Identities!NoRun EXCEPT !.at = "idle", !.task = kept']
      /\ UNCHANGED <<starting, made>>
  BY DEF Identities!Runs, Identities!RunsAgain, Identities!Accepting, Active
<1>2. IsTask(kept') /\ kept'.status = "running" /\ kept'.guard = kept.guard /\ kept'.next = kept.next
  BY <1>1 DEF FrozenInv, Records, IsTask
<1>3. /\ run' = [at |-> run'.at, task |-> run'.task, saw |-> run'.saw, id |-> run'.id]
      /\ run'.at = "idle" /\ run'.task = kept' /\ run'.saw = Identities!NoGuard
  BY <1>1 DEF Identities!NoRun
<1>4. IsGuard(Identities!NoGuard)
  BY DEF Identities!NoGuard, IsGuard
<1> QED
  BY <1>1, <1>2, <1>3, <1>4 DEF FrozenInv, Records, PlaceOK, GuardOK, SawOK, Frozen, Active

\* What a run leaves in the file is its copy, with a status of its own.
LEMMA LeavesFrozen ==
    ASSUME FrozenInv, run.at # "none", UNCHANGED <<starting, made>>,
           NEW task, IsTask(task), task.guard = run.task.guard, Identities!Leaves(task),
           \/ task.status = "failed" /\ task.next \in 1 .. 3
           \/ task.status = "completed"
    PROVE  FrozenInv'
<1>1. /\ kept' = task
      /\ run' = [at |-> "none", task |-> Identities!NoTask, saw |-> Identities!NoGuard, id |-> 0]
  BY DEF Identities!Leaves, Identities!NoRun
<1>2. IsTask(Identities!NoTask) /\ IsGuard(Identities!NoGuard)
  BY DEF Identities!NoTask, Identities!NoGuard, IsTask, IsGuard
<1> QED
  BY <1>1, <1>2 DEF FrozenInv, Records, PlaceOK, GuardOK, SawOK, Frozen, Active

\* A run that fails leaves its copy as failed ...
LEMMA FailsFrozen ==
    ASSUME FrozenInv, run.at # "none", UNCHANGED <<starting, made>>, Identities!Fails
    PROVE  FrozenInv'
<1>1. PICK task : task = [run.task EXCEPT !.status = "failed"]
  OBVIOUS
<1>2. /\ IsTask(task) /\ task.guard = run.task.guard /\ task.status = "failed"
      /\ task.next \in 1 .. 3
  BY <1>1 DEF FrozenInv, Records, PlaceOK, IsTask
<1> QED
  BY <1>1, <1>2, LeavesFrozen DEF Identities!Fails

\* ... and one whose node has ended leaves it as completed, or goes on to the next.
LEMMA AdvancesFrozen ==
    ASSUME FrozenInv, run.at # "none", UNCHANGED <<starting, made>>, Identities!Advances
    PROVE  FrozenInv'
<1>1. PICK task : task = [run.task EXCEPT !.next = @ + 1]
  OBVIOUS
<1>2. /\ IsTask(task) /\ task.guard = run.task.guard /\ task.status = "running"
      /\ task.next = run.task.next + 1 /\ run.task.next \in 1 .. 3
  BY <1>1 DEF FrozenInv, Records, PlaceOK, IsTask
<1>3. Len(Identities!Nodes) = 3
  BY DEF Identities!Nodes
<1>4. CASE task.next > 3
  <2>1. PICK done : done = [task EXCEPT !.status = "completed"]
    OBVIOUS
  <2>2. IsTask(done) /\ done.guard = run.task.guard /\ done.status = "completed"
    BY <1>2, <2>1 DEF IsTask
  <2>3. Identities!Leaves(done)
    BY <1>1, <1>3, <1>4, <2>1 DEF Identities!Advances
  <2> QED
    BY <2>2, <2>3, LeavesFrozen
<1>5. CASE ~(task.next > 3)
  <2>1. kept' = task /\ run' = [run EXCEPT !.at = "idle", !.task = task]
    BY <1>1, <1>3, <1>5 DEF Identities!Advances
  <2>2. /\ run' = [at |-> "idle", task |-> task, saw |-> run.saw, id |-> run.id]
    BY <2>1 DEF FrozenInv, Records
  <2>3. task.next \in 1 .. 3
    BY <1>2, <1>5
  <2>4. Records'
    BY <1>2, <2>1, <2>2 DEF FrozenInv, Records
  <2>5. PlaceOK' /\ SawOK'
    BY <1>2, <2>1, <2>2, <2>3 DEF FrozenInv, PlaceOK, SawOK, Active
  <2>6. GuardOK'
    BY <1>2, <2>1, <2>2 DEF FrozenInv, GuardOK, Frozen
  <2> QED
    BY <2>4, <2>5, <2>6 DEF FrozenInv
<1> QED
  BY <1>4, <1>5

\* An attempt is verified where the guard of its node is the identity it saw.
LEMMA VerifiesFrozen ==
    ASSUME FrozenInv, Identities!Verifies
    PROVE  FrozenInv'
<1>1. run.at = "idle" /\ UNCHANGED <<starting, made>>
  BY DEF Identities!Verifies, Identities!Working
<1>2. PICK now : now = Identities!Identity(run.task.value)
  OBVIOUS
<1>3. IsGuard(now)
  BY <1>2 DEF Identities!Identity, IsGuard
<1>4. CASE Identities!Matches(Identities!Node, run.task.guard, now)
  <2>1. PICK id : run' = [run EXCEPT !.at = "verified", !.saw = now, !.id = id]
    BY <1>2, <1>4 DEF Identities!Verifies
  <2>2. run' = [at |-> "verified", task |-> run.task, saw |-> now, id |-> id]
    BY <2>1 DEF FrozenInv, Records
  <2>3. UNCHANGED kept
    BY <1>2, <1>4 DEF Identities!Verifies
  <2>4. now[Identities!Node] = run.task.guard[Identities!Node] /\ Identities!Node \in Guards
    BY <1>4 DEF Identities!Matches, Identities!InlineMatches, Identities!LibraryMatches, Identities!AgentMatches, Guards
  <2>5. Identities!Node' = Identities!Node
    BY <2>2 DEF Identities!Node
  <2>6. SawOK'
    BY <1>1, <2>2, <2>4, <2>5 DEF FrozenInv, GuardOK, Frozen, SawOK, Guards
  <2> QED
    BY <1>1, <1>3, <2>2, <2>3, <2>6 DEF FrozenInv, Records, PlaceOK, GuardOK, Frozen
<1>5. CASE ~Identities!Matches(Identities!Node, run.task.guard, now)
  BY <1>1, <1>2, <1>5, FailsFrozen DEF Identities!Verifies
<1> QED
  BY <1>4, <1>5

\* One step per action, by what it does to the file, the run and the guards.
LEMMA FrozenNext == FrozenInv /\ [Identities!Next]_(Identities!vars) => FrozenInv'
<1> SUFFICES ASSUME FrozenInv, [Identities!Next]_(Identities!vars)
             PROVE  FrozenInv'
  OBVIOUS
<1>1. CASE Identities!SavesScript \/ Identities!SavesLibraryScript \/ Identities!TogglesOwner \/ Identities!EditsAgent
  BY <1>1, FrozenUntouched DEF Identities!SavesScript, Identities!SavesLibraryScript, Identities!TogglesOwner, Identities!EditsAgent, Identities!Changes
<1>2. CASE Identities!Creates("pending") \/ Identities!Creates("pre_running") \/ Identities!PreStarts
  BY <1>2, CreatesFrozen
<1>3. CASE Identities!PreStarted
  BY <1>3, PreStartedFrozen
<1>4. CASE Identities!SetsVariable
  BY <1>4, SetsVariableFrozen
<1>5. CASE Identities!Runs \/ Identities!RunsAgain
  BY <1>5, RunsFrozen
<1>6. CASE Identities!Verifies
  BY <1>6, VerifiesFrozen
<1>7. CASE Identities!Starts \/ Identities!TimesOut
  <2>1. PICK at \in {"running", "killed"}, saw \in {run.saw, Identities!NoGuard} :
           run' = [run EXCEPT !.at = at, !.saw = saw]
    BY <1>7 DEF Identities!Starts, Identities!TimesOut, FrozenInv, Records
  <2>2. run' = [at |-> at, task |-> run.task, saw |-> saw, id |-> run.id] /\ IsGuard(saw)
    BY <2>1 DEF FrozenInv, Records, Identities!NoGuard, IsGuard
  <2>3. run.at # "none" /\ UNCHANGED <<kept, starting, made>>
    BY <1>7 DEF Identities!Starts, Identities!TimesOut, Identities!Working
  <2> QED
    BY <2>2, <2>3 DEF FrozenInv, Records, PlaceOK, GuardOK, SawOK, Frozen
<1>8. CASE Identities!Forks \/ Identities!Exits
  BY <1>8, FrozenUntouched DEF Identities!Forks, Identities!Exits, Identities!Working
<1>9. CASE Identities!NodeEnds \/ Identities!Killed
  BY <1>9, AdvancesFrozen, FailsFrozen DEF Identities!NodeEnds, Identities!Killed, Identities!Working
<1>10. CASE Identities!Stops
  BY <1>10, FailsFrozen DEF Identities!Stops
<1>11. CASE Identities!Restarts
  <2>1. run' = Identities!NoRun /\ starting' = Identities!NoTask /\ UNCHANGED <<kept, made>>
    BY <1>11 DEF Identities!Restarts
  <2>2. IsTask(Identities!NoTask) /\ IsGuard(Identities!NoGuard)
    BY DEF Identities!NoTask, Identities!NoGuard, IsTask, IsGuard
  <2> QED
    BY <2>1, <2>2 DEF FrozenInv, Records, PlaceOK, GuardOK, SawOK, Frozen, Identities!NoRun
<1>12. CASE UNCHANGED Identities!vars
  BY <1>12, FrozenUntouched DEF Identities!vars
<1> QED
  BY <1>1, <1>2, <1>3, <1>4, <1>5, <1>6, <1>7, <1>8, <1>9, <1>10, <1>11, <1>12 DEF Identities!Next

\* What is now equals what the guard of the next node says, or was changed.
LEMMA FrozenGuard ==
    ASSUME FrozenInv, run.at # "none"
    PROVE  /\ Identities!Node \in Guards
           /\ run.task.guard[Identities!Node] = made.was[Identities!Node] \/ Identities!SettingLost
  BY NodeKnown DEF FrozenInv, PlaceOK, GuardOK, Frozen, Guards, Identities!SettingLost

\* A step that verifies an attempt finds what its guard says.
LEMMA FrozenVerified ==
    ASSUME FrozenInv, Identities!Next, run.at = "idle", run'.at = "verified"
    PROVE  Identities!AsMade \/ Identities!SettingLost
<1>1. Identities!Verifies /\ Identities!Matches(Identities!Node, run.task.guard, Identities!Identity(run.task.value))
  <2>1. CASE Identities!Verifies
    BY <2>1 DEF Identities!Verifies, Identities!Fails, Identities!Leaves, Identities!NoRun
  <2>2. CASE Identities!Runs \/ Identities!RunsAgain \/ Identities!Starts \/ Identities!NodeEnds \/ Identities!TimesOut \/ Identities!Killed
    BY <2>2 DEF Identities!Runs, Identities!RunsAgain, Identities!Starts, Identities!NodeEnds, Identities!TimesOut, Identities!Killed
  <2>3. CASE Identities!Stops \/ Identities!Restarts
    <3>1. run' = [Identities!NoRun EXCEPT !.task = Identities!NoTask] \/ run' = Identities!NoRun
      BY <2>3 DEF Identities!Stops, Identities!Restarts, Identities!Fails, Identities!Leaves
    <3> QED
      BY <3>1 DEF Identities!NoRun
  <2>4. CASE UNCHANGED run
    BY <2>4
  <2> QED
    BY <2>1, <2>2, <2>3, <2>4
       DEF Identities!Next, Identities!SavesScript, Identities!SavesLibraryScript, Identities!TogglesOwner, Identities!EditsAgent, Identities!Changes, Identities!Creates, Identities!PreStarts,
           Identities!PreStarted, Identities!SetsVariable, Identities!Forks, Identities!Exits, Identities!Working
<1> QED
  BY <1>1, FrozenGuard
     DEF Identities!Matches, Identities!InlineMatches, Identities!LibraryMatches, Identities!AgentMatches, Identities!AsMade, Guards

\* A step that lets an attempt run finds what was seen, or something changed.
LEMMA FrozenStarted ==
    ASSUME FrozenInv, run.at = "verified"
    PROVE  Identities!AsMade \/ Identities!SettingLost \/ Identities!Identity(run.task.value)[Identities!Node] # run.saw[Identities!Node]
  BY DEF FrozenInv, SawOK, Identities!AsMade, Identities!SettingLost

\* An attempt that is refused finds something else than what its guard says.
LEMMA FrozenRefused ==
    ASSUME FrozenInv, Identities!Verifies, run'.at = "none"
    PROVE  ~Identities!AsMade \/ Identities!SettingLost
<1>1. run.at = "idle"
  BY DEF Identities!Verifies
<1>2. ~Identities!Matches(Identities!Node, run.task.guard, Identities!Identity(run.task.value))
  BY <1>1 DEF Identities!Verifies, FrozenInv, Records
<1> QED
  BY <1>1, <1>2, FrozenGuard
     DEF Identities!Matches, Identities!InlineMatches, Identities!LibraryMatches, Identities!AgentMatches, Identities!AsMade, Guards

\* So each step is one the property allows.
LEMMA FrozenStep == FrozenInv /\ [Identities!Next]_(Identities!vars) => [Identities!RunsAsFrozen]_(Identities!vars)
  BY FrozenVerified, FrozenStarted, FrozenRefused DEF Identities!RunsAsFrozen

\* For any contents, agents and bounds: an attempt that is verified or used runs
\* what the task was created with or last set to, except for what changed between
\* the two or was written over by pre_start_task; and an attempt is refused only
\* when what it would run has changed (runtime_guards.py, the verifications of the
\* three kinds of node).
THEOREM TasksRunAsFrozen == Identities!Spec => [][Identities!RunsAsFrozen]_(Identities!vars)
<1> QED
  BY FrozenInit, FrozenNext, FrozenStep, PTL DEF Identities!Spec

-----------------------------------------------------------------------------
(* The meeting, for any seats and guests, any number of rounds, requests and
   tokens.  In a fixed order no round passes anybody over, and what has been seen
   of a speech stays.  The seats are a sequence, and nothing else is assumed. *)

SeatsAssumption == Seats \in Seq(Table!Members(Seats))

AllSeats == Table!Members(Seats) \cup Guests \cup {"nobody"}
Entries == [who: AllSeats \cup {"user", "moderator"}, round: Nat,
            type: {"moderator_note", "statement", "notice", "called", "summary",
                   "conclusion", "interrupted"},
            tokens: Nat]
Askings == [type: {"inject", "nominate", "remove_seat", "add_seat"}, seat: AllSeats,
            with: BOOLEAN]
InMeeting == {"outer", "head", "next", "speaking", "rest", "deciding", "summarising"}
Spots == InMeeting \cup {"none", "started", "concluding", "leaving", "gone"}

TableShape ==
    /\ strategy \in {"round_robin", "moderator_decides"}
    /\ standing \in {"waiting", "discussing", "paused", "ended"}
    /\ seats \in Seq(AllSeats)
    /\ turn \in [round: Nat, index: Nat, finished: BOOLEAN]
    /\ runner \in [at: Spots, rest: Seq(Askings), called: BOOLEAN]
    /\ speech \in [seat: AllSeats, tokens: Nat]
    /\ transcript \in Seq(Entries)
    /\ asked \in Seq(Askings)

\* Where the runner is and what the meeting's status is go together.
TurnPlaceOK ==
    /\ standing = "waiting" => turn.index = 1 /\ runner.at \in {"none", "started"}
    /\ runner.at \in InMeeting => Table!Going
    /\ runner.at = "deciding" => strategy = "moderator_decides"
    /\ runner.at # "speaking" => speech.tokens = 0

\* Everybody in front of the one who is next has spoken in this round, but for those
\* who came after it began; and who speaks is the one who is next.
SaidIn(said, seat, round) ==
    \E k \in DOMAIN said : /\ said[k].who = seat /\ said[k].round = round
                           /\ said[k].type \in {"statement", "notice"}
Heard(list, index, said) ==
    \A i \in 1 .. index - 1 : list[i] \in present => SaidIn(said, list[i], turn.round)
OrderOK ==
    strategy = "round_robin" =>
        /\ turn.index \in 1 .. Len(seats) + 1
        /\ Heard(seats, turn.index, transcript)
        /\ runner.at = "speaking" /\ ~runner.called =>
               turn.index <= Len(seats) /\ speech.seat = seats[turn.index]
PresentOK == present \subseteq Table!Members(seats)

TableInv == TableShape /\ TurnPlaceOK /\ OrderOK /\ PresentOK

------------------------------------------------------------------------------
(* Counting *)

\* Of some numbers one is the least.
LEMMA LeastNumber ==
    ASSUME NEW T \in SUBSET Nat, T # {}
    PROVE  \E x \in T : \A y \in T : x <= y
<1> DEFINE less == {ss \in Nat \X Nat : ss[1] < ss[2]}
<1>1. IsWellFoundedOn(less, Nat)
  BY NatLessThanWellFounded DEF OpToRel
<1>2. \A x, y \in Nat : y < x => <<y, x>> \in less
  OBVIOUS
<1> HIDE DEF less
<1>3. PICK x \in T : \A y \in T : ~(<<y, x>> \in less)
  BY <1>1, WFMin
<1>4. \A y \in T : x <= y
  <2> SUFFICES ASSUME NEW y \in T PROVE x <= y
    OBVIOUS
  <2>1. x \in Nat /\ y \in Nat /\ ~(y < x)
    BY <1>2, <1>3
  <2> QED
    BY <2>1
<1> QED
  BY <1>4

\* Removing the element at a place closes up the rest.
LEMMA RemoveAtProperties ==
    ASSUME NEW S, NEW s \in Seq(S), NEW i \in 1 .. Len(s)
    PROVE  /\ Table!RemoveAt(s, i) \in Seq(S)
           /\ Len(Table!RemoveAt(s, i)) = Len(s) - 1
           /\ \A k \in 1 .. Len(s) - 1 : Table!RemoveAt(s, i)[k] = IF k < i THEN s[k] ELSE s[k + 1]
<1> DEFINE a == SubSeq(s, 1, i - 1)
           b == SubSeq(s, i + 1, Len(s))
<1>1. /\ a \in Seq(S) /\ Len(a) = i - 1
      /\ \A k \in 1 .. i - 1 : a[k] = s[k]
  <2>1. \A k \in 1 .. i - 1 : s[k] \in S
    BY ElementOfSeq
  <2> QED
    BY <2>1, SubSeqProperties
<1>2. /\ b \in Seq(S) /\ Len(b) = Len(s) - i
      /\ \A k \in 1 .. Len(s) - i : b[k] = s[k + i]
  <2>1. \A k \in i + 1 .. Len(s) : s[k] \in S
    BY ElementOfSeq
  <2>2. /\ SubSeq(s, i + 1, Len(s)) \in Seq(S)
        /\ Len(b) = IF i + 1 <= Len(s) THEN Len(s) - (i + 1) + 1 ELSE 0
        /\ \A k \in 1 .. Len(s) - (i + 1) + 1 : b[k] = s[(i + 1) + k - 1]
    BY <2>1, SubSeqProperties, LenProperties
  <2> QED
    BY <2>2, LenProperties
<1> HIDE DEF a, b
<1>3. Table!RemoveAt(s, i) = a \o b
  BY DEF Table!RemoveAt, a, b
<1>4. /\ a \o b \in Seq(S) /\ Len(a \o b) = Len(a) + Len(b)
      /\ \A k \in 1 .. Len(a) + Len(b) : (a \o b)[k] = IF k <= Len(a) THEN a[k] ELSE b[k - Len(a)]
  BY <1>1, <1>2, ConcatProperties
<1>5. Len(s) \in Nat
  OBVIOUS
<1> QED
  BY <1>1, <1>2, <1>3, <1>4, <1>5

------------------------------------------------------------------------------
(* The interventions *)

\* A meeting the interventions lead to: the order in it is kept, and nothing said is
\* taken back.
Meetings == [seats: Seq(AllSeats), index: Nat, transcript: Seq(Entries)]
MeetingOK(m) ==
    /\ m \in Meetings
    /\ strategy = "round_robin" =>
           m.index \in 1 .. Len(m.seats) + 1 /\ Heard(m.seats, m.index, m.transcript)
    /\ turn.index = 1 => m.index = 1

\* What joins the transcript is an entry of it.
LEMMA EntryRight ==
    ASSUME NEW who \in AllSeats \cup {"user", "moderator"}, NEW round \in Nat, NEW tokens \in Nat,
           NEW type \in {"moderator_note", "statement", "notice", "called", "summary",
                         "conclusion", "interrupted"}
    PROVE  /\ Table!Entry(who, round, type, tokens) \in Entries
           /\ Table!Entry(who, round, type, tokens).who = who
           /\ Table!Entry(who, round, type, tokens).round = round
           /\ Table!Entry(who, round, type, tokens).type = type
           /\ Table!Entry(who, round, type, tokens).tokens = tokens
  BY DEF Table!Entry, Entries

\* What is said in addition takes nothing back.
LEMMA SaidMore ==
    ASSUME NEW said \in Seq(Entries), NEW e \in Entries
    PROVE  /\ Append(said, e) \in Seq(Entries)
           /\ \A seat, round : SaidIn(said, seat, round) => SaidIn(Append(said, e), seat, round)
           /\ e.type \in {"statement", "notice"} => SaidIn(Append(said, e), e.who, e.round)
<1>1. /\ Append(said, e) \in Seq(Entries) /\ Len(Append(said, e)) = Len(said) + 1
      /\ \A i \in 1 .. Len(said) : Append(said, e)[i] = said[i]
      /\ Append(said, e)[Len(said) + 1] = e
  BY AppendProperties
<1>2. DOMAIN said = 1 .. Len(said) /\ DOMAIN Append(said, e) = 1 .. Len(said) + 1 /\ Len(said) \in Nat
  BY <1>1, LenProperties
<1> QED
  BY <1>1, <1>2 DEF SaidIn

\* Adding a seat behind the others keeps those in front of the next heard.
LEMMA AddKeeps ==
    ASSUME NEW m, MeetingOK(m), NEW seat \in AllSeats
    PROVE  MeetingOK(Table!AddSeat(m, seat))
<1>1. /\ m \in Meetings /\ m.seats \in Seq(AllSeats)
  BY DEF MeetingOK, Meetings
<1>2. PICK s : s = Append(m.seats, seat)
  OBVIOUS
<1>3. /\ s \in Seq(AllSeats) /\ Len(s) = Len(m.seats) + 1 /\ Len(m.seats) \in Nat
      /\ \A i \in 1 .. Len(m.seats) : s[i] = m.seats[i]
  BY <1>1, <1>2, AppendProperties, LenProperties
<1>4. PICK a : a = Table!AddSeat(m, seat)
  OBVIOUS
<1>5. a \in Meetings /\ a.seats = s /\ a.index = m.index /\ a.transcript = m.transcript
  BY <1>1, <1>2, <1>3, <1>4 DEF Table!AddSeat, Meetings
<1>6. m.index \in Nat
  BY <1>1 DEF Meetings
<1> QED
  BY <1>3, <1>4, <1>5, <1>6 DEF MeetingOK, Heard

\* So does removing one: the next stays the next, or is the last but one.
LEMMA RemoveKeeps ==
    ASSUME NEW m, MeetingOK(m), NEW seat
    PROVE  MeetingOK(Table!RemoveSeat(m, seat))
<1>1. /\ m \in Meetings /\ m.seats \in Seq(AllSeats) /\ m.index \in Nat
  BY DEF MeetingOK, Meetings
<1>2. CASE seat \notin Table!Members(m.seats)
  BY <1>2 DEF Table!RemoveSeat
<1>3. CASE seat \in Table!Members(m.seats)
  <2>1. PICK i : /\ i = (CHOOSE k \in DOMAIN m.seats : m.seats[k] = seat)
                 /\ i \in DOMAIN m.seats
    BY <1>3 DEF Table!Members
  <2>2. PICK n : n = Len(m.seats) /\ n \in Nat /\ i \in 1 .. n
    BY <1>1, <2>1, LenProperties
  <2>3. PICK s : s = Table!RemoveAt(m.seats, i)
    OBVIOUS
  <2>4. /\ s \in Seq(AllSeats) /\ Len(s) = n - 1
        /\ \A k \in 1 .. n - 1 : s[k] = IF k < i THEN m.seats[k] ELSE m.seats[k + 1]
    BY <1>1, <2>2, <2>3, RemoveAtProperties
  <2>5. PICK x : x = IF strategy = "round_robin" THEN Table!IndexWithout(m.index, i, n - 1) ELSE m.index
    OBVIOUS
  <2>6. /\ x \in Nat
        /\ m.index = 1 => x = 1
        /\ strategy = "round_robin" /\ m.index \in 1 .. n + 1 =>
               /\ x \in 1 .. n
               /\ m.index > i => x <= m.index - 1
               /\ m.index <= i => x <= m.index
    BY <1>1, <2>2, <2>5 DEF Table!IndexWithout, Table!Least, Table!Greatest
  <2>7. PICK a : a = Table!RemoveSeat(m, seat)
    OBVIOUS
  <2>8. a = [m EXCEPT !.seats = s, !.index = x]
    BY <1>3, <2>1, <2>2, <2>3, <2>5, <2>7 DEF Table!RemoveSeat
  <2>9. a \in Meetings /\ a.seats = s /\ a.index = x /\ a.transcript = m.transcript
    <3>1. PICK b : b = [m EXCEPT !.seats = s]
      OBVIOUS
    <3>2. b \in Meetings /\ b.seats = s /\ b.transcript = m.transcript
      BY <1>1, <2>4, <3>1 DEF Meetings
    <3>3. a = [b EXCEPT !.index = x]
      BY <2>8, <3>1
    <3> QED
      BY <2>6, <3>2, <3>3 DEF Meetings
  <2>10. ASSUME strategy = "round_robin"
         PROVE  a.index \in 1 .. Len(a.seats) + 1 /\ Heard(a.seats, a.index, a.transcript)
    <3>1. m.index \in 1 .. n + 1 /\ Heard(m.seats, m.index, m.transcript)
      BY <2>2, <2>10 DEF MeetingOK
    <3>2. ASSUME NEW k \in 1 .. x - 1
          PROVE  \E j \in 1 .. m.index - 1 : s[k] = m.seats[j]
      <4>1. CASE k < i
        <5>1. k \in 1 .. m.index - 1 /\ k \in 1 .. n - 1
          BY <2>2, <2>6, <2>10, <3>1, <3>2
        <5> QED
          BY <2>2, <2>4, <4>1, <5>1
      <4>2. CASE k >= i
        <5>1. k + 1 \in 1 .. m.index - 1 /\ k \in 1 .. n - 1
          BY <2>2, <2>6, <2>10, <3>1, <3>2, <4>2
        <5> QED
          BY <2>2, <2>4, <4>2, <5>1
      <4> QED
        BY <2>2, <4>1, <4>2
    <3>3. a.index \in 1 .. Len(a.seats) + 1
      BY <2>2, <2>4, <2>6, <2>9, <2>10, <3>1
    <3>4. ASSUME NEW k \in 1 .. x - 1, s[k] \in present
          PROVE  SaidIn(m.transcript, s[k], turn.round)
      BY <3>1, <3>2, <3>4 DEF Heard
    <3> QED
      BY <2>9, <3>3, <3>4 DEF Heard
  <2>11. turn.index = 1 => a.index = 1
    BY <2>6, <2>9 DEF MeetingOK
  <2>12. MeetingOK(a)
    BY <2>9, <2>10, <2>11 DEF MeetingOK
  <2> QED
    BY <2>7, <2>12
<1> QED
  BY <1>2, <1>3

\* An intervention keeps the order, whichever it is.
LEMMA ApplyKeeps ==
    ASSUME TableShape, NEW m, MeetingOK(m), NEW asking \in Askings
    PROVE  MeetingOK(Table!Apply(m, asking))
<1>1. m \in Meetings /\ m.transcript \in Seq(Entries)
  BY DEF MeetingOK, Meetings
<1>2. CASE asking.type = "inject" \/ (asking.type = "nominate" /\ asking.with)
  <2>1. PICK e : e = Table!Entry("user", turn.round, "moderator_note", 1) /\ e \in Entries
    <3>1. turn.round \in Nat /\ 1 \in Nat
      BY DEF TableShape
    <3> QED
      BY <3>1, EntryRight
  <2>2. PICK a : a = [m EXCEPT !.transcript = Append(@, e)]
    OBVIOUS
  <2>3. Append(m.transcript, e) \in Seq(Entries)
    BY <1>1, <2>1, SaidMore
  <2>4. a \in Meetings /\ a.seats = m.seats /\ a.index = m.index /\ a.transcript = Append(m.transcript, e)
    BY <1>1, <2>2, <2>3 DEF Meetings
  <2>5. Table!Apply(m, asking) = a
    BY <1>2, <2>1, <2>2 DEF Table!Apply
  <2> QED
    BY <1>1, <2>1, <2>4, <2>5, SaidMore DEF MeetingOK, Heard
<1>3. CASE asking.type = "add_seat"
  BY <1>3, AddKeeps DEF Table!Apply, Askings
<1>4. CASE asking.type = "remove_seat"
  BY <1>4, RemoveKeeps DEF Table!Apply
<1>5. CASE asking.type = "nominate" /\ ~asking.with
  BY <1>5 DEF Table!Apply
<1> QED
  BY <1>2, <1>3, <1>4, <1>5 DEF Askings

\* The meeting as it is.
LEMMA MeetingRight ==
    ASSUME TableInv
    PROVE  MeetingOK(Table!Meeting)
<1>1. Table!Meeting \in Meetings /\ Table!Meeting.seats = seats /\ Table!Meeting.index = turn.index
      /\ Table!Meeting.transcript = transcript
  BY DEF TableInv, TableShape, Table!Meeting, Meetings
<1> HIDE DEF Table!Meeting
<1> QED
  BY <1>1 DEF MeetingOK, TableInv, OrderOK


\* What some interventions lead to, one after the other.
Follows(m, list, n) ==
    m = [k \in 0 .. n |-> IF k = 0 THEN Table!Meeting ELSE Table!Apply(m[k - 1], list[k])]

\* There is such a sequence of meetings, however many interventions there are.
LEMMA FollowsExists ==
    ASSUME NEW list, NEW n \in Nat
    PROVE  \E m : Follows(m, list, n)
<1> DEFINE T == {k \in Nat : ~\E m : Follows(m, list, k)}
<1> SUFFICES ASSUME T # {} PROVE FALSE
  OBVIOUS
<1>1. PICK k \in T : \A j \in T : k <= j
  BY LeastNumber
<1>2. k # 0
  <2>1. PICK m : m = [j \in 0 .. 0 |-> Table!Meeting]
    OBVIOUS
  <2>2. m = [j \in 0 .. 0 |-> IF j = 0 THEN Table!Meeting ELSE Table!Apply(m[j - 1], list[j])]
    BY <2>1
  <2> QED
    BY <1>1, <2>2 DEF Follows
<1>3. k - 1 \in Nat /\ k - 1 \notin T
  BY <1>1, <1>2
<1>4. PICK m : Follows(m, list, k - 1)
  BY <1>3
<1>5. PICK h : h = [j \in 0 .. k |-> IF j = k THEN Table!Apply(m[k - 1], list[k]) ELSE m[j]]
  OBVIOUS
<1>6. \A j \in 0 .. k : h[j] = IF j = 0 THEN Table!Meeting ELSE Table!Apply(h[j - 1], list[j])
  <2> SUFFICES ASSUME NEW j \in 0 .. k
               PROVE  h[j] = IF j = 0 THEN Table!Meeting ELSE Table!Apply(h[j - 1], list[j])
    OBVIOUS
  <2>1. CASE j = k
    <3>1. h[k] = Table!Apply(m[k - 1], list[k]) /\ h[k - 1] = m[k - 1]
      BY <1>1, <1>3, <1>5
    <3> QED
      BY <1>2, <2>1, <3>1
  <2>2. CASE j # k
    <3>1. j \in 0 .. k - 1
      BY <1>1, <2>2
    <3>2. m[j] = IF j = 0 THEN Table!Meeting ELSE Table!Apply(m[j - 1], list[j])
      BY <1>4, <3>1 DEF Follows
    <3>3. h[j] = m[j] /\ (j # 0 => h[j - 1] = m[j - 1])
      BY <1>1, <1>5, <2>2, <3>1
    <3> QED
      BY <3>2, <3>3
  <2> QED
    BY <2>1, <2>2
<1>7. h = [j \in 0 .. k |-> IF j = 0 THEN Table!Meeting ELSE Table!Apply(h[j - 1], list[j])]
  BY <1>5, <1>6
<1> QED
  BY <1>1, <1>7 DEF Follows

\* The meeting after any number of interventions is as one of them leaves it.
LEMMA AfterKeeps ==
    ASSUME TableInv, NEW list \in Seq(Askings), NEW n \in 0 .. Len(list)
    PROVE  MeetingOK(Table!After(list, n))
<1>1. n \in Nat /\ TableShape
  BY DEF TableInv
<1>2. PICK m : m = (CHOOSE g : Follows(g, list, n)) /\ Follows(m, list, n)
  BY <1>1, FollowsExists
<1>3. Table!After(list, n) = m[n]
  BY <1>2 DEF Table!After, Follows
<1>4. \A k \in 0 .. n : m[k] = IF k = 0 THEN Table!Meeting ELSE Table!Apply(m[k - 1], list[k])
  BY <1>2 DEF Follows
<1> DEFINE T == {k \in 0 .. n : ~MeetingOK(m[k])}
<1>5. T = {}
  <2> SUFFICES ASSUME T # {} PROVE FALSE
    OBVIOUS
  <2>1. T \in SUBSET Nat
    OBVIOUS
  <2>2. PICK k \in T : \A j \in T : k <= j
    BY <2>1, LeastNumber
  <2>3. k # 0
    BY <1>4, <2>2, MeetingRight
  <2>4. k - 1 \in 0 .. n /\ k - 1 \notin T
    BY <2>2, <2>3
  <2>5. list[k] \in Askings
    BY <2>2, <2>3, ElementOfSeq
  <2>6. MeetingOK(Table!Apply(m[k - 1], list[k]))
    BY <1>1, <2>4, <2>5, ApplyKeeps
  <2> QED
    BY <1>4, <2>2, <2>3, <2>6
<1> QED
  BY <1>1, <1>3, <1>5

\* The first call on a seat, or 0.
LEMMA FirstCallRight ==
    ASSUME NEW list \in Seq(Askings)
    PROVE  /\ Table!FirstCall(list) \in 0 .. Len(list)
           /\ Table!FirstCall(list) > 0 => list[Table!FirstCall(list)].seat \in AllSeats
<1> DEFINE C == Table!Calls(list)
<1>1. C \subseteq 1 .. Len(list) /\ Len(list) \in Nat
  BY LenProperties DEF Table!Calls
<1> HIDE DEF C
<1>2. C = {} \/ Table!FirstCall(list) \in C
  <2> SUFFICES ASSUME C # {} PROVE Table!FirstCall(list) \in C
    OBVIOUS
  <2>1. \E n \in C : \A k \in C : n <= k
    BY <1>1, LeastNumber
  <2> QED
    BY <2>1 DEF Table!FirstCall, C
<1>3. CASE C = {}
  BY <1>1, <1>3 DEF Table!FirstCall, C
<1>4. CASE Table!FirstCall(list) \in C
  <2>1. PICK n : n = Table!FirstCall(list) /\ n \in 1 .. Len(list)
    BY <1>1, <1>4
  <2>2. list[n] \in Askings
    BY <2>1, ElementOfSeq
  <2>3. list[n].seat \in AllSeats
    BY <2>2 DEF Askings
  <2>4. n \in 0 .. Len(list)
    BY <1>1, <2>1
  <2> QED
    BY <2>1, <2>3, <2>4
<1> QED
  BY <1>2, <1>3, <1>4


\* What the runner does with the interventions in hand.
LEMMA InterveneKeeps ==
    ASSUME TableInv, NEW list \in Seq(Askings), NEW goesOn \in {"head", "next"},
           Table!Intervene(list, goesOn), UNCHANGED <<strategy, standing>>,
           runner.at \in {"outer", "head", "rest"}, asked' \in Seq(Askings)
    PROVE  TableInv'
<1> DEFINE n == Table!FirstCall(list)
<1>1. PICK m : m = Table!After(list, IF n = 0 THEN Len(list) ELSE n) /\ MeetingOK(m)
  <2>1. (IF n = 0 THEN Len(list) ELSE n) \in 0 .. Len(list)
    BY FirstCallRight, LenProperties
  <2> QED
    BY <2>1, AfterKeeps
<1>2. /\ seats' = m.seats /\ transcript' = m.transcript
      /\ present' = present \cap Table!Members(m.seats)
      /\ turn' = [turn EXCEPT !.index = m.index]
  BY <1>1 DEF Table!Intervene
<1>3. m.seats \in Seq(AllSeats) /\ m.index \in Nat /\ m.transcript \in Seq(Entries)
  BY <1>1 DEF MeetingOK, Meetings
<1>4. /\ runner' \in [at: Spots, rest: Seq(Askings), called: BOOLEAN]
      /\ speech' \in [seat: AllSeats, tokens: Nat]
      /\ speech'.tokens = 0
      /\ runner'.at \in {"speaking", "head", "next"}
      /\ runner'.at = "speaking" => runner'.called
  <2>1. CASE n > 0
    <3>1. n \in 1 .. Len(list) /\ list[n].seat \in AllSeats
      BY <2>1, FirstCallRight
    <3>2. PICK rest : rest = SubSeq(list, n + 1, Len(list)) /\ rest \in Seq(Askings)
      <4>1. \A k \in n + 1 .. Len(list) : list[k] \in Askings
        BY <3>1, ElementOfSeq
      <4>2. n + 1 \in Int /\ Len(list) \in Int
        BY <3>1, LenProperties
      <4>3. SubSeq(list, n + 1, Len(list)) \in Seq(Askings)
        BY <4>1, <4>2, SubSeqProperties
      <4> QED
        BY <4>3
    <3>3. speech' = [seat |-> list[n].seat, tokens |-> 0]
          /\ runner' = [at |-> "speaking", rest |-> rest, called |-> TRUE]
      BY <2>1, <3>2 DEF Table!Intervene, Table!Speak
    <3> QED
      BY <3>1, <3>2, <3>3 DEF Spots, InMeeting
  <2>2. CASE ~(n > 0)
    <3>1. runner' = [at |-> goesOn, rest |-> <<>>, called |-> FALSE] /\ speech' = speech
      BY <2>2 DEF Table!Intervene, Table!Waits
    <3>2. speech \in [seat: AllSeats, tokens: Nat] /\ speech.tokens = 0
      BY DEF TableInv, TableShape, TurnPlaceOK
    <3> QED
      BY <3>1, <3>2 DEF Spots, InMeeting
  <2> QED
    BY <2>1, <2>2
<1>5. /\ turn' \in [round: Nat, index: Nat, finished: BOOLEAN]
      /\ turn'.index = m.index /\ turn'.round = turn.round
  BY <1>2, <1>3 DEF TableInv, TableShape
<1>6. TableShape'
  BY <1>2, <1>3, <1>4, <1>5 DEF TableInv, TableShape
<1>7. TurnPlaceOK'
  <2>1. Table!Going /\ standing' = standing
    BY DEF TableInv, TurnPlaceOK, InMeeting
  <2> QED
    BY <1>4, <2>1 DEF TurnPlaceOK, Table!Going
<1>8. OrderOK'
  <2> SUFFICES ASSUME strategy = "round_robin"
               PROVE  /\ m.index \in 1 .. Len(m.seats) + 1
                      /\ Heard(m.seats, m.index, m.transcript)'
    BY <1>2, <1>4, <1>5 DEF OrderOK
  <2>1. m.index \in 1 .. Len(m.seats) + 1 /\ Heard(m.seats, m.index, m.transcript)
    BY <1>1 DEF MeetingOK
  <2> QED
    BY <1>2, <1>5, <2>1 DEF Heard
<1>9. PresentOK'
  BY <1>2 DEF PresentOK
<1> QED
  BY <1>6, <1>7, <1>8, <1>9 DEF TableInv

\* The runner takes what people asked for in hand.
LEMMA AtHeadKeeps ==
    ASSUME TableInv, Table!AtHead
    PROVE  TableInv'
<1>1. <<>> \in Seq(Askings)
  OBVIOUS
<1>2. PICK goesOn \in {"head", "next"} : Table!Intervene(asked, goesOn)
  BY DEF Table!AtHead
<1>3. UNCHANGED <<strategy, standing>> /\ runner.at \in {"outer", "head", "rest"} /\ asked' = <<>>
  BY DEF Table!AtHead
<1>4. asked \in Seq(Askings)
  BY DEF TableInv, TableShape
<1> QED
  BY <1>1, <1>2, <1>3, <1>4, InterveneKeeps

\* It goes on with what it has in hand.
LEMMA MoreInterventionsKeeps ==
    ASSUME TableInv, Table!MoreInterventions
    PROVE  TableInv'
<1>1. /\ Table!Intervene(runner.rest, "next") /\ UNCHANGED <<strategy, standing, asked>>
      /\ runner.at \in {"outer", "head", "rest"}
  BY DEF Table!MoreInterventions
<1>2. asked \in Seq(Askings) /\ runner.rest \in Seq(Askings)
  BY DEF TableInv, TableShape
<1> QED
  BY <1>1, <1>2, InterveneKeeps

------------------------------------------------------------------------------
(* The runner's turns *)

\* What was said stays said, and maybe more is.
SaysMore ==
    /\ transcript' \in Seq(Entries)
    /\ \A seat, round : SaidIn(transcript, seat, round) => SaidIn(transcript', seat, round)

\* A step after which the runner does not let a seat speak, and which moves the turn on
\* only to the first seat, or where a moderator decides.
LEMMA WaitsKeeps ==
    ASSUME TableInv, NEW at \in Spots \ {"speaking"}, runner' = Table!Waits(at),
           UNCHANGED <<strategy, seats, asked>>, SaysMore,
           \/ turn'.index = 1 \/ strategy = "moderator_decides"
           \/ turn'.index = turn.index /\ turn'.round = turn.round /\ present' = present,
           turn' \in [round: Nat, index: Nat, finished: BOOLEAN],
           present' \in {present, Table!Members(seats)},
           speech' = speech \/ speech' = Table!NoDraft,
           standing' \in {"waiting", "discussing", "paused", "ended"},
           TurnPlaceOK'
    PROVE  TableInv'
<1>1. runner' \in [at: Spots, rest: Seq(Askings), called: BOOLEAN] /\ runner'.at = at
  BY DEF Table!Waits
<1>2. speech' \in [seat: AllSeats, tokens: Nat]
  BY DEF TableInv, TableShape, Table!NoDraft, AllSeats
<1>3. TableShape'
  BY <1>1, <1>2 DEF TableInv, TableShape, SaysMore
<1>4. OrderOK'
  <2> SUFFICES ASSUME strategy = "round_robin" PROVE OrderOK'
    BY DEF OrderOK
  <2>1. /\ turn.index \in 1 .. Len(seats) + 1 /\ Heard(seats, turn.index, transcript)
        /\ Len(seats) \in Nat
    BY DEF TableInv, OrderOK, TableShape
  <2>2. Heard(seats, turn.index, transcript)'
    BY <2>1 DEF Heard, SaysMore
  <2>3. turn'.index \in 1 .. Len(seats) + 1
    BY <2>1
  <2> QED
    BY <1>1, <2>2, <2>3 DEF OrderOK
<1>5. PresentOK'
  BY DEF TableInv, PresentOK
<1> QED
  BY <1>3, <1>4, <1>5 DEF TableInv

\* A strategy that moves on is one.
LEMMA TurnRight ==
    ASSUME NEW t \in [round: Nat, index: Nat, finished: BOOLEAN]
    PROVE  /\ [t EXCEPT !.round = @ + 1] \in [round: Nat, index: Nat, finished: BOOLEAN]
           /\ [t EXCEPT !.index = @ + 1] \in [round: Nat, index: Nat, finished: BOOLEAN]
           /\ [t EXCEPT !.finished = TRUE] \in [round: Nat, index: Nat, finished: BOOLEAN]
<1>1. [t EXCEPT !.round = @ + 1] \in [round: Nat, index: Nat, finished: BOOLEAN]
  OBVIOUS
<1>2. [t EXCEPT !.index = @ + 1] \in [round: Nat, index: Nat, finished: BOOLEAN]
  OBVIOUS
<1>3. [t EXCEPT !.finished = TRUE] \in [round: Nat, index: Nat, finished: BOOLEAN]
  OBVIOUS
<1> QED
  BY <1>1, <1>2, <1>3

\* Where nothing is added nothing is lost.
LEMMA SaysNothing == TableShape /\ UNCHANGED transcript => SaysMore
  BY DEF TableShape, SaysMore

\* An entry that joins the transcript takes nothing back.
LEMMA SaysOneMore ==
    ASSUME TableShape, NEW e \in Entries, transcript' = Append(transcript, e)
    PROVE  SaysMore /\ (e.type \in {"statement", "notice"} => SaidIn(transcript', e.who, e.round))
  BY SaidMore DEF TableShape, SaysMore

\* The meeting begins, a moderator is asked, the runner leaves, or is started.
LEMMA BeginKeeps ==
    ASSUME TableInv, Table!Begin \/ Table!Decide \/ Table!Leave \/ Table!Start
    PROVE  TableInv'
<1>1. PICK at \in {"outer", "deciding", "gone", "started"} :
        /\ runner' = Table!Waits(at) /\ runner'.at = at
        /\ at = "outer" => standing' = "discussing"
        /\ at = "deciding" => strategy = "moderator_decides" /\ standing' = standing /\ runner.at = "next"
        /\ at = "gone" => standing' = "ended"
        /\ at = "started" => standing' = standing /\ standing = "waiting"
        /\ runner.at # "speaking"
  BY DEF Table!Begin, Table!Decide, Table!Leave, Table!Start, Table!Waits
<1>2. UNCHANGED <<strategy, seats, turn, speech, transcript, asked, present>>
  BY DEF Table!Begin, Table!Decide, Table!Leave, Table!Start
<1>3. TableShape
  BY DEF TableInv
<1>4. TurnPlaceOK'
  BY <1>1, <1>2 DEF TableInv, TurnPlaceOK, Table!Going, InMeeting
<1>5. standing' \in {"waiting", "discussing", "paused", "ended"} /\ at \in Spots \ {"speaking"}
  BY <1>1, <1>3 DEF TableShape, Spots, InMeeting
<1>6. turn' \in [round: Nat, index: Nat, finished: BOOLEAN]
  BY <1>2, <1>3 DEF TableShape
<1> QED
  BY <1>1, <1>2, <1>3, <1>4, <1>5, <1>6, SaysNothing, WaitsKeeps

\* A seat speaks whose turn it is, or whom a moderator chose.
LEMMA SpeakKeeps ==
    ASSUME TableInv, NEW seat \in AllSeats, Table!Speak(seat, FALSE, <<>>),
           runner.at \in {"next", "deciding"},
           UNCHANGED <<strategy, standing, seats, transcript, asked>>,
           turn' \in [round: Nat, index: Nat, finished: BOOLEAN],
           present' \in {present, Table!Members(seats)},
           strategy = "round_robin" =>
               /\ turn'.index \in 1 .. Len(seats) /\ seat = seats[turn'.index]
               /\ turn'.index = 1 \/ UNCHANGED <<turn, present>>
    PROVE  TableInv'
<1>1. /\ runner' \in [at: Spots, rest: Seq(Askings), called: BOOLEAN]
      /\ runner'.at = "speaking" /\ ~runner'.called
      /\ speech' \in [seat: AllSeats, tokens: Nat] /\ speech'.seat = seat
  BY DEF Table!Speak, Spots, InMeeting
<1>2. TableShape'
  BY <1>1 DEF TableInv, TableShape
<1>3. TurnPlaceOK'
  <2>1. Table!Going /\ standing' = standing
    BY DEF TableInv, TurnPlaceOK, InMeeting
  <2> QED
    BY <1>1, <2>1 DEF TurnPlaceOK, Table!Going
<1>4. OrderOK'
  <2> SUFFICES ASSUME strategy = "round_robin" PROVE OrderOK'
    BY DEF OrderOK
  <2>1. turn'.index \in 1 .. Len(seats) /\ seat = seats[turn'.index] /\ Len(seats) \in Nat
    BY DEF TableInv, TableShape
  <2>2. Heard(seats, turn.index, transcript)
    BY DEF TableInv, OrderOK
  <2>3. Heard(seats, turn.index, transcript)'
    BY <2>2 DEF Heard
  <2> QED
    BY <1>1, <2>1, <2>3 DEF OrderOK
<1>5. PresentOK'
  BY DEF TableInv, PresentOK
<1> QED
  BY <1>2, <1>3, <1>4, <1>5 DEF TableInv

\* What next_speaker answers.
LEMMA NextInOrderRight ==
    ASSUME TableInv, NEW next, next = Table!NextInOrder(seats), strategy = "round_robin"
    PROVE  /\ next.turn \in [round: Nat, index: Nat, finished: BOOLEAN]
           /\ \/ /\ next.seat = "nobody" /\ next.turn.round = turn.round /\ next.turn.index = turn.index
                 /\ turn.index > Len(seats) \/ seats = <<>>
              \/ /\ next.turn = turn /\ turn.index \in 1 .. Len(seats)
                 /\ next.seat = seats[turn.index]
              \/ /\ next.turn.index = 1 /\ next.turn.round = turn.round + 1
                 /\ turn.index > Len(seats)
                 /\ 1 \in 1 .. Len(seats) /\ next.seat = seats[1]
<1>1. /\ turn \in [round: Nat, index: Nat, finished: BOOLEAN]
      /\ turn.index \in 1 .. Len(seats) + 1 /\ Len(seats) \in Nat /\ seats \in Seq(AllSeats)
      /\ turn.index \in Nat
  BY DEF TableInv, TableShape, OrderOK
<1>2. PICK over : over = [turn EXCEPT !.finished = TRUE]
  OBVIOUS
<1>3. /\ over \in [round: Nat, index: Nat, finished: BOOLEAN]
      /\ over.round = turn.round /\ over.index = turn.index
  BY <1>1, <1>2
<1>4. CASE seats = <<>>
  BY <1>2, <1>3, <1>4 DEF Table!NextInOrder
<1>5. CASE seats # <<>> /\ turn.index <= Len(seats)
  BY <1>1, <1>5 DEF Table!NextInOrder
<1>6. CASE seats # <<>> /\ turn.index > Len(seats) /\ turn.round >= MaxRounds
  <2>1. next.seat = "nobody" /\ next.turn = over
    BY <1>1, <1>2, <1>6 DEF Table!NextInOrder
  <2> QED
    BY <1>3, <1>6, <2>1
<1>7. CASE seats # <<>> /\ turn.index > Len(seats) /\ ~(turn.round >= MaxRounds)
  <2>1. PICK new : new = [turn EXCEPT !.round = @ + 1, !.index = 1]
    OBVIOUS
  <2>2. next.seat = seats[1] /\ next.turn = new
    BY <1>1, <1>7, <2>1 DEF Table!NextInOrder
  <2>3. PICK half : half = [turn EXCEPT !.round = @ + 1]
    OBVIOUS
  <2>4. half \in [round: Nat, index: Nat, finished: BOOLEAN] /\ half.round = turn.round + 1
    BY <1>1, <2>3
  <2>5. new = [half EXCEPT !.index = 1]
    BY <2>1, <2>3
  <2>6. new \in [round: Nat, index: Nat, finished: BOOLEAN] /\ new.index = 1 /\ new.round = half.round
    BY <2>4, <2>5
  <2>7. 1 \in 1 .. Len(seats)
    BY <1>1, <1>7, EmptySeq
  <2> QED
    BY <1>7, <2>2, <2>4, <2>6, <2>7
<1> QED
  BY <1>1, <1>4, <1>5, <1>6, <1>7

\* The next in order speaks, in this round or a new one, or the meeting is over.
LEMMA NextSpeakerKeeps ==
    ASSUME TableInv, Table!NextSpeaker
    PROVE  TableInv'
<1>1. PICK next : next = Table!NextInOrder(seats)
  OBVIOUS
<1>2. /\ runner.at = "next" /\ strategy = "round_robin" /\ turn' = next.turn
      /\ present' = IF next.turn.round # turn.round THEN Table!Members(seats) ELSE present
      /\ IF next.seat = "nobody" THEN Table!Conclude /\ UNCHANGED speech ELSE Table!Speak(next.seat, FALSE, <<>>)
      /\ UNCHANGED <<strategy, standing, seats, transcript, asked>>
  BY <1>1 DEF Table!NextSpeaker
<1>3. TableShape /\ turn.round \in Nat
  BY DEF TableInv, TableShape
<1>4. /\ turn' \in [round: Nat, index: Nat, finished: BOOLEAN]
      /\ present' \in {present, Table!Members(seats)}
      /\ turn'.index = 1 \/ (turn'.index = turn.index /\ turn'.round = turn.round /\ present' = present)
  BY <1>1, <1>2, NextInOrderRight
<1>5. CASE next.seat = "nobody"
  <2>1. PICK at \in {"leaving", "concluding"} : runner' = Table!Waits(at) /\ runner'.at = at
    BY <1>2, <1>5 DEF Table!Conclude, Table!Waits
  <2>2. TurnPlaceOK'
    BY <1>2, <1>5, <2>1 DEF TableInv, TurnPlaceOK, Table!Going, InMeeting
  <2>3. at \in Spots \ {"speaking"} /\ standing' \in {"waiting", "discussing", "paused", "ended"}
    BY <1>2, <1>3 DEF Spots, InMeeting, TableShape
  <2> QED
    BY <1>2, <1>3, <1>4, <1>5, <2>1, <2>2, <2>3, SaysNothing, WaitsKeeps
<1>6. CASE next.seat # "nobody"
  <2>1. /\ turn'.index \in 1 .. Len(seats) /\ next.seat = seats[turn'.index]
        /\ turn'.index = 1 \/ UNCHANGED <<turn, present>>
    BY <1>1, <1>2, <1>6, NextInOrderRight
  <2>2. next.seat \in AllSeats
    BY <1>3, <2>1, ElementOfSeq DEF TableShape
  <2> QED
    BY <1>2, <1>4, <1>6, <2>1, <2>2, SpeakKeeps
<1> QED
  BY <1>5, <1>6

\* A moderator chooses a speaker, a new round or the end.
LEMMA SelectSpeakerKeeps ==
    ASSUME TableInv, Table!SelectSpeaker
    PROVE  TableInv'
<1>1. PICK new \in BOOLEAN, seat \in Table!Members(Seats) \cup Guests :
        /\ turn' = CASE ~new -> turn
                     [] new /\ turn.round < MaxRounds -> [turn EXCEPT !.round = @ + 1]
                     [] OTHER -> [turn EXCEPT !.finished = TRUE]
        /\ present' = IF turn'.round # turn.round THEN Table!Members(seats) ELSE present
        /\ CASE turn'.finished -> Table!Conclude /\ UNCHANGED speech
             [] ~turn'.finished /\ seat \in Table!Members(seats) -> Table!Speak(seat, FALSE, <<>>)
             [] OTHER -> runner' = Table!Waits("head") /\ UNCHANGED speech
  BY DEF Table!SelectSpeaker
<1>2. UNCHANGED <<strategy, standing, seats, transcript, asked>> /\ runner.at = "deciding"
  BY DEF Table!SelectSpeaker
<1>3. /\ TableShape /\ strategy = "moderator_decides" /\ seat \in AllSeats
      /\ turn \in [round: Nat, index: Nat, finished: BOOLEAN]
  BY <1>2 DEF TableInv, TurnPlaceOK, TableShape, AllSeats
<1>4. turn' \in [round: Nat, index: Nat, finished: BOOLEAN]
  BY <1>1, <1>3, TurnRight
<1>5. present' \in {present, Table!Members(seats)}
  BY <1>1
<1>6. CASE Table!Speak(seat, FALSE, <<>>)
  BY <1>2, <1>3, <1>4, <1>5, <1>6, SpeakKeeps
<1>7. ASSUME NEW at \in {"leaving", "concluding", "head"}, runner' = Table!Waits(at), speech' = speech
      PROVE  TableInv'
  <2>1. runner'.at = at
    BY <1>7 DEF Table!Waits
  <2>2. TurnPlaceOK'
    <3>1. Table!Going /\ standing' = standing /\ speech.tokens = 0 /\ standing # "waiting"
      BY <1>2 DEF TableInv, TurnPlaceOK, InMeeting, Table!Going
    <3> QED
      BY <1>7, <2>1, <3>1 DEF TurnPlaceOK, Table!Going
  <2>3. at \in Spots \ {"speaking"} /\ standing' \in {"waiting", "discussing", "paused", "ended"}
    BY <1>2, <1>3 DEF Spots, InMeeting, TableShape
  <2> QED
    BY <1>2, <1>3, <1>4, <1>5, <1>7, <2>2, <2>3, SaysNothing, WaitsKeeps
<1>8. \/ Table!Speak(seat, FALSE, <<>>)
      \/ Table!Conclude /\ speech' = speech
      \/ runner' = Table!Waits("head") /\ speech' = speech
  BY <1>1
<1> QED
  BY <1>6, <1>7, <1>8 DEF Table!Conclude

\* A moderator wants a summary, or no more.
LEMMA DecideOtherwiseKeeps ==
    ASSUME TableInv, Table!DecideOtherwise
    PROVE  TableInv'
<1>1. PICK at \in {"summarising", "leaving", "concluding"} :
        /\ runner' = Table!Waits(at)
        /\ turn' \in {[turn EXCEPT !.index = @ + 1], [turn EXCEPT !.finished = TRUE]}
  BY DEF Table!DecideOtherwise, Table!Conclude
<1>2. UNCHANGED <<strategy, standing, seats, speech, transcript, asked, present>> /\ runner.at = "deciding"
  BY DEF Table!DecideOtherwise
<1>3. /\ TableShape /\ strategy = "moderator_decides"
      /\ turn \in [round: Nat, index: Nat, finished: BOOLEAN]
  BY <1>2 DEF TableInv, TurnPlaceOK, TableShape
<1>4. turn' \in [round: Nat, index: Nat, finished: BOOLEAN]
  BY <1>1, <1>3, TurnRight
<1>5. TurnPlaceOK'
  <2>1. Table!Going /\ standing' = standing /\ speech.tokens = 0 /\ standing # "waiting" /\ speech' = speech
    BY <1>2 DEF TableInv, TurnPlaceOK, InMeeting, Table!Going
  <2>2. runner'.at = at
    BY <1>1 DEF Table!Waits
  <2> QED
    BY <1>1, <2>1, <2>2 DEF TurnPlaceOK, Table!Going
<1>6. at \in Spots \ {"speaking"} /\ standing' \in {"waiting", "discussing", "paused", "ended"}
  BY <1>2, <1>3 DEF Spots, InMeeting, TableShape
<1> QED
  BY <1>1, <1>2, <1>3, <1>4, <1>5, <1>6, SaysNothing, WaitsKeeps

\* What follows a turn, up to the end of the meeting, takes nothing back.
LEMMA AfterwardsKeeps ==
    ASSUME TableInv, Table!Summarise \/ Table!Concluded \/ Table!SpeechImpossible \/ Table!ConclusionImpossible
    PROVE  TableInv'
<1>1. TableShape /\ turn.round \in Nat /\ 1 \in Nat
  BY DEF TableInv, TableShape
<1>2. PICK at \in {"head", "leaving", "concluding", "gone"} :
        /\ runner' = Table!Waits(at)
        /\ at = "head" => runner.at = "summarising" /\ UNCHANGED <<standing, speech>>
        /\ at # "head" => (UNCHANGED standing /\ runner.at = "concluding") \/ standing' = "ended"
        /\ speech' = Table!NoDraft \/ (speech' = speech /\ speech.tokens = 0)
  <2>1. runner.at # "speaking" => speech.tokens = 0
    BY DEF TableInv, TurnPlaceOK
  <2>2. CASE Table!Summarise
    BY <2>1, <2>2 DEF Table!Summarise
  <2>3. CASE Table!Concluded
    BY <2>1, <2>3 DEF Table!Concluded
  <2>4. CASE Table!SpeechImpossible
    BY <2>4 DEF Table!SpeechImpossible, Table!Conclude
  <2>5. CASE Table!ConclusionImpossible
    BY <2>5 DEF Table!ConclusionImpossible
  <2> QED
    BY <2>2, <2>3, <2>4, <2>5
<1>3. UNCHANGED <<strategy, seats, turn, asked, present>>
  BY DEF Table!Summarise, Table!Concluded, Table!SpeechImpossible, Table!ConclusionImpossible
<1>4. SaysMore
  <2>1. \/ UNCHANGED transcript
        \/ transcript' = Append(transcript, Table!Entry("moderator", turn.round, "summary", 1))
        \/ transcript' = Append(transcript, Table!Entry("moderator", turn.round, "conclusion", 1))
    BY DEF Table!Summarise, Table!Concluded, Table!SpeechImpossible, Table!ConclusionImpossible
  <2>0. turn.round \in Nat
    BY <1>1
  <2>2. Table!Entry("moderator", turn.round, "summary", 1) \in Entries
    BY <2>0 DEF Table!Entry, Entries
  <2>3. Table!Entry("moderator", turn.round, "conclusion", 1) \in Entries
    BY <2>0 DEF Table!Entry, Entries
  <2> QED
    BY <1>1, <2>1, <2>2, <2>3, SaysNothing, SaysOneMore
<1>5. runner'.at = at
  BY <1>2 DEF Table!Waits
<1>6. TurnPlaceOK'
  <2>1. speech'.tokens = 0
    BY <1>2 DEF Table!NoDraft
  <2> QED
    BY <1>2, <1>3, <1>5, <2>1 DEF TableInv, TurnPlaceOK, Table!Going, InMeeting
<1>7. at \in Spots \ {"speaking"} /\ standing' \in {"waiting", "discussing", "paused", "ended"}
  BY <1>1, <1>2 DEF Spots, InMeeting, TableShape
<1>8. turn' \in [round: Nat, index: Nat, finished: BOOLEAN]
  BY <1>1, <1>3 DEF TableShape
<1> QED
  BY <1>2, <1>3, <1>4, <1>6, <1>7, <1>8, WaitsKeeps

------------------------------------------------------------------------------
(* A seat's speech *)

\* A seat says a little more.
LEMMA TokensKeep ==
    ASSUME TableInv, Table!Token
    PROVE  TableInv'
<1>1. /\ speech' = [speech EXCEPT !.tokens = @ + 1] /\ runner.at = "speaking"
      /\ UNCHANGED <<strategy, standing, seats, turn, runner, transcript, asked, present>>
  BY DEF Table!Token
<1>2. speech \in [seat: AllSeats, tokens: Nat]
  BY DEF TableInv, TableShape
<1>3. speech' \in [seat: AllSeats, tokens: Nat] /\ speech'.seat = speech.seat
  BY <1>1, <1>2
<1>4. TableShape'
  BY <1>1, <1>3 DEF TableInv, TableShape
<1>5. TurnPlaceOK'
  BY <1>1 DEF TableInv, TurnPlaceOK, Table!Going
<1>6. OrderOK'
  BY <1>1, <1>3 DEF TableInv, OrderOK, Heard
<1>7. PresentOK'
  BY <1>1 DEF TableInv, PresentOK
<1> QED
  BY <1>4, <1>5, <1>6, <1>7 DEF TableInv

\* The speech of a seat whose turn it was counts in its round, and the turn moves on.
LEMMA SpeechBecomesKeeps ==
    ASSUME TableInv, NEW type \in {"called", "statement", "notice"}, Table!SpeechBecomes(type),
           runner.at = "speaking", ~runner.called => type \in {"statement", "notice"}
    PROVE  TableInv'
<1>1. /\ TableShape /\ turn \in [round: Nat, index: Nat, finished: BOOLEAN] /\ turn.round \in Nat
      /\ speech.seat \in AllSeats /\ speech.tokens \in Nat
      /\ runner \in [at: Spots, rest: Seq(Askings), called: BOOLEAN]
      /\ seats \in Seq(AllSeats) /\ Len(seats) \in Nat
  BY DEF TableInv, TableShape
<1>2. PICK e : e = Table!Entry(speech.seat, turn.round, type, speech.tokens)
  OBVIOUS
<1>3. e \in Entries /\ e.who = speech.seat /\ e.round = turn.round /\ e.type = type
  BY <1>1, <1>2, EntryRight
<1>4. transcript' = Append(transcript, e)
  BY <1>2 DEF Table!SpeechBecomes
<1>5. SaysMore /\ (type \in {"statement", "notice"} => SaidIn(transcript', speech.seat, turn.round))
  BY <1>1, <1>3, <1>4, SaysOneMore
<1>6. /\ speech' = Table!NoDraft /\ UNCHANGED <<strategy, standing, seats, asked, present>>
      /\ turn' = IF runner.called THEN turn ELSE [turn EXCEPT !.index = @ + 1]
  BY DEF Table!SpeechBecomes
<1>7. /\ turn' \in [round: Nat, index: Nat, finished: BOOLEAN] /\ turn'.round = turn.round
      /\ turn'.index = IF runner.called THEN turn.index ELSE turn.index + 1
  BY <1>1, <1>6
<1>8. /\ runner' \in [at: Spots, rest: Seq(Askings), called: BOOLEAN]
      /\ runner'.at \in {"rest", "summarising", "head"}
  <2>1. runner' \in {[runner EXCEPT !.at = "rest"], Table!Waits("summarising"), Table!Waits("head")}
    BY DEF Table!SpeechBecomes
  <2>2. PICK rest : rest = [runner EXCEPT !.at = "rest"]
    OBVIOUS
  <2>3. rest \in [at: Spots, rest: Seq(Askings), called: BOOLEAN] /\ rest.at = "rest"
    BY <1>1, <2>2 DEF Spots, InMeeting
  <2>4. ASSUME NEW at \in {"summarising", "head"}
        PROVE  /\ Table!Waits(at) \in [at: Spots, rest: Seq(Askings), called: BOOLEAN]
               /\ Table!Waits(at).at = at
    BY DEF Table!Waits, Spots, InMeeting
  <2> QED
    BY <2>1, <2>2, <2>3, <2>4
<1>9. speech' \in [seat: AllSeats, tokens: Nat] /\ speech'.tokens = 0
  BY <1>6 DEF Table!NoDraft, AllSeats
<1>10. TableShape'
  BY <1>1, <1>5, <1>6, <1>7, <1>8, <1>9 DEF TableShape, SaysMore
<1>11. TurnPlaceOK'
  <2>1. Table!Going /\ standing' = standing
    BY <1>6 DEF TableInv, TurnPlaceOK, InMeeting
  <2> QED
    BY <1>8, <1>9, <2>1 DEF TurnPlaceOK, Table!Going
<1>12. OrderOK'
  <2> SUFFICES ASSUME strategy = "round_robin" PROVE OrderOK'
    BY <1>6 DEF OrderOK
  <2>1. /\ turn.index \in 1 .. Len(seats) + 1 /\ Heard(seats, turn.index, transcript)
        /\ ~runner.called => turn.index <= Len(seats) /\ speech.seat = seats[turn.index]
    BY DEF TableInv, OrderOK
  <2>2. turn'.index \in 1 .. Len(seats) + 1
    BY <1>1, <1>7, <2>1
  <2>3. ASSUME NEW i \in 1 .. turn'.index - 1, seats[i] \in present
        PROVE  SaidIn(transcript', seats[i], turn.round)
    <3>1. CASE i \in 1 .. turn.index - 1
      BY <1>5, <2>1, <2>3, <3>1 DEF Heard, SaysMore
    <3>2. CASE i \notin 1 .. turn.index - 1
      <4>1. ~runner.called /\ i = turn.index
        BY <1>7, <2>1, <2>3, <3>2
      <4> QED
        BY <1>5, <2>1, <4>1
    <3> QED
      BY <3>1, <3>2
  <2>4. Heard(seats, turn.index, transcript)'
    BY <1>6, <1>7, <2>3 DEF Heard
  <2> QED
    BY <1>6, <1>8, <2>2, <2>4 DEF OrderOK
<1>13. PresentOK'
  BY <1>6 DEF TableInv, PresentOK
<1> QED
  BY <1>10, <1>11, <1>12, <1>13 DEF TableInv

\* A speech ends or fails.
LEMMA SpeechKeeps ==
    ASSUME TableInv, Table!SpeechEnds \/ Table!SpeechFails
    PROVE  TableInv'
<1>1. PICK type \in {"called", "statement", "notice"} :
        /\ Table!SpeechBecomes(type) /\ runner.at = "speaking"
        /\ ~runner.called => type \in {"statement", "notice"}
  BY DEF Table!SpeechEnds, Table!SpeechFails
<1> QED
  BY <1>1, SpeechBecomesKeeps

------------------------------------------------------------------------------
(* People *)

\* Somebody pauses the meeting, or resumes it.
LEMMA PauseKeeps ==
    ASSUME TableInv, Table!Pause \/ Table!Resume
    PROVE  TableInv'
<1>1. /\ Table!Going /\ standing' \in {"discussing", "paused"}
      /\ UNCHANGED <<strategy, seats, turn, runner, speech, transcript, asked, present>>
  BY DEF Table!Pause, Table!Resume, Table!Going
<1>2. TableShape' /\ TurnPlaceOK'
  BY <1>1 DEF TableInv, TableShape, TurnPlaceOK, Table!Going
<1>3. OrderOK'
  BY <1>1 DEF TableInv, OrderOK, Heard
<1>4. PresentOK'
  BY <1>1 DEF TableInv, PresentOK
<1> QED
  BY <1>2, <1>3, <1>4 DEF TableInv

\* Somebody stops the meeting.
LEMMA StopKeeps ==
    ASSUME TableInv, Table!Stop
    PROVE  TableInv'
<1>1. /\ transcript' = Table!KeepSpeech /\ speech' = Table!NoDraft /\ runner' = Table!Waits("gone") /\ standing' = "ended"
      /\ UNCHANGED <<strategy, seats, turn, asked, present>>
  BY DEF Table!Stop
<1>2. /\ TableShape /\ turn \in [round: Nat, index: Nat, finished: BOOLEAN] /\ turn.round \in Nat
      /\ speech.seat \in AllSeats /\ speech.tokens \in Nat
  BY DEF TableInv, TableShape
<1>3. SaysMore
  <2>1. Table!Entry(speech.seat, turn.round, "interrupted", speech.tokens) \in Entries
    BY <1>2, EntryRight
  <2> QED
    BY <1>1, <1>2, <2>1, SaysNothing, SaysOneMore DEF Table!KeepSpeech
<1>4. TurnPlaceOK'
  BY <1>1 DEF TurnPlaceOK, Table!Waits, Table!NoDraft, InMeeting
<1> QED
  BY <1>1, <1>2, <1>3, <1>4, WaitsKeeps DEF Spots, InMeeting

\* What people ask for joins the queue, or is done at once: then the meeting has not
\* begun or is over.
LEMMA AskForKeeps ==
    ASSUME TableInv, Table!AskFor
    PROVE  TableInv'
<1>1. TableShape
  BY DEF TableInv
<1>2. PICK asking \in Table!Wishes :
        /\ Table!Possible(asking)
        /\ IF Table!Going
           THEN /\ asked' = Append(asked, asking)
                /\ UNCHANGED <<seats, turn, transcript, present>>
           ELSE LET m == Table!Apply(Table!Meeting, asking)
                IN  /\ seats' = m.seats /\ turn' = [turn EXCEPT !.index = m.index]
                    /\ transcript' = m.transcript
                    /\ present' = IF standing = "waiting" THEN Table!Members(m.seats)
                                  ELSE present \cap Table!Members(m.seats)
                    /\ UNCHANGED asked
  BY DEF Table!AskFor
<1>3. UNCHANGED <<strategy, standing, runner, speech>>
  BY DEF Table!AskFor
<1>4. asking \in Askings
  <2>1. Table!Members(seats) \subseteq AllSeats
    BY <1>1, ElementOfSeq, LenProperties DEF TableShape, Table!Members
  <2>2. "nobody" \in AllSeats /\ Guests \subseteq AllSeats
    BY DEF AllSeats
  <2>3. asking \in Table!Wishes
    BY <1>2
  <2> QED
    BY <2>1, <2>2, <2>3 DEF Table!Wishes, Askings
<1>5. CASE Table!Going
  <2>1. asked' \in Seq(Askings)
    <3>1. asked' = Append(asked, asking)
      BY <1>2, <1>5
    <3> QED
      BY <1>1, <1>4, <3>1, AppendProperties DEF TableShape
  <2>2. UNCHANGED <<seats, turn, transcript, present>>
    BY <1>2, <1>5
  <2>3. TableShape' /\ TurnPlaceOK'
    BY <1>3, <2>1, <2>2 DEF TableInv, TableShape, TurnPlaceOK, Table!Going
  <2>4. OrderOK'
    BY <1>3, <2>2 DEF TableInv, OrderOK, Heard
  <2>5. PresentOK'
    BY <2>2 DEF TableInv, PresentOK
  <2> QED
    BY <2>3, <2>4, <2>5 DEF TableInv
<1>6. CASE ~Table!Going
  <2>1. PICK m : m = Table!Apply(Table!Meeting, asking) /\ MeetingOK(m)
    BY <1>1, <1>4, ApplyKeeps, MeetingRight
  <2>2. /\ seats' = m.seats /\ turn' = [turn EXCEPT !.index = m.index]
        /\ transcript' = m.transcript /\ asked' = asked
        /\ present' = IF standing = "waiting" THEN Table!Members(m.seats) ELSE present \cap Table!Members(m.seats)
    BY <1>2, <1>6, <2>1
  <2>3. m.seats \in Seq(AllSeats) /\ m.index \in Nat /\ m.transcript \in Seq(Entries)
    BY <2>1 DEF MeetingOK, Meetings
  <2>4. /\ turn' \in [round: Nat, index: Nat, finished: BOOLEAN]
        /\ turn'.index = m.index /\ turn'.round = turn.round
    BY <1>1, <2>2, <2>3 DEF TableShape
  <2>5. TableShape'
    BY <1>1, <1>3, <2>2, <2>3, <2>4 DEF TableShape
  <2>6. standing = "waiting" => m.index = 1
    BY <2>1 DEF TableInv, TurnPlaceOK, MeetingOK
  <2>7. TurnPlaceOK'
    BY <1>3, <2>4, <2>6 DEF TableInv, TurnPlaceOK, Table!Going
  <2>8. OrderOK'
    <3> SUFFICES ASSUME strategy = "round_robin"
                 PROVE  /\ m.index \in 1 .. Len(m.seats) + 1
                        /\ Heard(m.seats, m.index, m.transcript)'
      <4>1. runner.at # "speaking"
        BY <1>6 DEF TableInv, TurnPlaceOK, InMeeting
      <4> QED
        BY <1>3, <2>2, <2>4, <4>1 DEF OrderOK
    <3>1. m.index \in 1 .. Len(m.seats) + 1 /\ Heard(m.seats, m.index, m.transcript)
      BY <2>1 DEF MeetingOK
    <3>2. CASE standing = "waiting"
      BY <2>6, <3>1, <3>2 DEF Heard
    <3>3. CASE standing # "waiting"
      BY <2>2, <2>4, <3>1, <3>3 DEF Heard
    <3> QED
      BY <3>1, <3>2, <3>3
  <2>9. PresentOK'
    BY <2>2 DEF PresentOK
  <2> QED
    BY <2>5, <2>7, <2>8, <2>9 DEF TableInv
<1> QED
  BY <1>5, <1>6

------------------------------------------------------------------------------
(* The meeting *)

\* A meeting that has not begun is as the invariant says.
LEMMA StartsRight == SeatsAssumption /\ Table!Init => TableInv
<1> SUFFICES ASSUME SeatsAssumption, Table!Init PROVE TableInv
  OBVIOUS
<1>1. seats \in Seq(AllSeats)
  BY SeqMonotonic DEF SeatsAssumption, Table!Init, AllSeats
<1>2. /\ runner \in [at: Spots, rest: Seq(Askings), called: BOOLEAN] /\ runner.at = "none"
      /\ speech \in [seat: AllSeats, tokens: Nat] /\ speech.tokens = 0
      /\ turn \in [round: Nat, index: Nat, finished: BOOLEAN] /\ turn.index = 1
  BY DEF Table!Init, Table!Waits, Table!NoDraft, Spots, InMeeting, AllSeats
<1>3. TableShape
  BY <1>1, <1>2 DEF Table!Init, TableShape
<1>4. TurnPlaceOK
  BY <1>2 DEF Table!Init, TurnPlaceOK, InMeeting
<1>5. OrderOK
  <2>1. Len(seats) \in Nat
    BY <1>1, LenProperties
  <2> QED
    BY <1>2, <2>1 DEF OrderOK, Heard
<1>6. PresentOK
  BY DEF Table!Init, PresentOK
<1> QED
  BY <1>3, <1>4, <1>5, <1>6 DEF TableInv

\* Every step keeps the invariant.
LEMMA NextKeeps ==
    ASSUME TableInv, [Table!Next]_(Table!vars)
    PROVE  TableInv'
<1>1. CASE UNCHANGED Table!vars
  BY <1>1 DEF Table!vars, TableInv, TableShape, TurnPlaceOK, OrderOK, Heard, PresentOK, Table!Going
<1>2. CASE Table!Run
  BY <1>2, BeginKeeps, AtHeadKeeps, MoreInterventionsKeeps, NextSpeakerKeeps, SelectSpeakerKeeps,
     DecideOtherwiseKeeps, TokensKeep, SpeechKeeps, AfterwardsKeeps DEF Table!Run
<1>3. CASE Table!People
  BY <1>3, BeginKeeps, AskForKeeps, PauseKeeps, StopKeeps DEF Table!People
<1> QED
  BY <1>1, <1>2, <1>3 DEF Table!Next

\* A step that ends a round, or the meeting, in a fixed order is the runner's, when
\* everybody is behind it.
LEMMA RoundsHear ==
    ASSUME TableInv, [Table!Next]_(Table!vars)
    PROVE  Table!RoundHeardAll
<1> SUFFICES ASSUME strategy = "round_robin",
                    turn'.round > turn.round \/ (turn'.finished /\ ~turn.finished)
             PROVE  \A seat \in present : Table!Spoke(seat, turn.round)
  BY DEF Table!RoundHeardAll
<1>1. /\ turn \in [round: Nat, index: Nat, finished: BOOLEAN] /\ turn.round \in Nat
      /\ turn.index \in 1 .. Len(seats) + 1 /\ Heard(seats, turn.index, transcript)
      /\ seats \in Seq(AllSeats) /\ Len(seats) \in Nat
  BY DEF TableInv, TableShape, OrderOK
<1>2. Table!NextSpeaker
  <2>1. ASSUME NEW x, turn' = [turn EXCEPT !.index = x] PROVE FALSE
    <3>1. turn'.round = turn.round /\ turn'.finished = turn.finished
      BY <1>1, <2>1
    <3> QED
      BY <1>1, <3>1
  <2>2. turn' # turn
    BY <1>1
  <2>3. ~Table!SelectSpeaker /\ ~Table!DecideOtherwise
    BY DEF Table!SelectSpeaker, Table!DecideOtherwise, TableInv, TurnPlaceOK
  <2>4. ~Table!AtHead /\ ~Table!MoreInterventions
    BY <2>1 DEF Table!AtHead, Table!MoreInterventions, Table!Intervene
  <2>5. ~Table!SpeechEnds /\ ~Table!SpeechFails
    BY <2>1, <2>2 DEF Table!SpeechEnds, Table!SpeechFails, Table!SpeechBecomes
  <2>6. ~Table!AskFor
    BY <2>1, <2>2 DEF Table!AskFor
  <2>7. ~(Table!Begin \/ Table!Decide \/ Table!Token \/ Table!SpeechImpossible \/ Table!Summarise \/ Table!Concluded
          \/ Table!ConclusionImpossible \/ Table!Leave \/ Table!Start \/ Table!Pause \/ Table!Resume \/ Table!Stop \/ UNCHANGED Table!vars)
    BY <2>2 DEF Table!Begin, Table!Decide, Table!Token, Table!SpeechImpossible, Table!Summarise, Table!Concluded,
       Table!ConclusionImpossible, Table!Leave, Table!Start, Table!Pause, Table!Resume, Table!Stop, Table!vars
  <2> QED
    BY <2>3, <2>4, <2>5, <2>6, <2>7 DEF Table!Next, Table!Run, Table!People
<1>3. turn.index > Len(seats) \/ seats = <<>>
  <2>1. PICK next : next = Table!NextInOrder(seats) /\ turn' = next.turn
    BY <1>2 DEF Table!NextSpeaker
  <2>2. turn' # turn
    BY <1>1
  <2> QED
    BY <1>1, <2>1, <2>2, NextInOrderRight
<1>4. \A i \in 1 .. Len(seats) : i \in 1 .. turn.index - 1
  <2>1. CASE turn.index > Len(seats)
    BY <1>1, <2>1
  <2>2. CASE seats = <<>>
    BY <1>1, <2>2
  <2> QED
    BY <1>3, <2>1, <2>2
<1>5. ASSUME NEW seat \in present PROVE Table!Spoke(seat, turn.round)
  <2>1. PICK i \in DOMAIN seats : seats[i] = seat
    BY DEF TableInv, PresentOK, Table!Members
  <2>2. i \in 1 .. turn.index - 1
    BY <1>1, <1>4, <2>1, LenProperties
  <2>3. SaidIn(transcript, seat, turn.round)
    BY <1>1, <2>1, <2>2 DEF Heard
  <2> QED
    BY <2>3 DEF SaidIn, Table!Spoke
<1> QED
  BY <1>5

\* A draft that people have seen goes on or joins the transcript.
LEMMA SpeechesStay ==
    ASSUME TableInv, [Table!Next]_(Table!vars)
    PROVE  Table!SpeechIsKept
<1> SUFFICES ASSUME speech.tokens > 0, speech' # speech,
                    ~(speech'.seat = speech.seat /\ speech'.tokens > speech.tokens)
             PROVE  /\ Len(transcript') > Len(transcript)
                    /\ Table!Last(transcript').tokens = speech.tokens
                    /\ Table!Last(transcript').who = speech.seat
  BY DEF Table!SpeechIsKept
<1>1. /\ transcript \in Seq(Entries) /\ speech \in [seat: AllSeats, tokens: Nat]
      /\ speech.seat \in AllSeats /\ speech.tokens \in Nat /\ turn.round \in Nat
      /\ runner.at = "speaking" /\ Len(transcript) \in Nat
  BY DEF TableInv, TableShape, TurnPlaceOK
<1>2. PICK type \in {"called", "statement", "notice", "interrupted"} :
        transcript' = Append(transcript, Table!Entry(speech.seat, turn.round, type, speech.tokens))
  <2>1. CASE Table!SpeechEnds
    BY <2>1 DEF Table!SpeechEnds, Table!SpeechBecomes
  <2>2. CASE Table!SpeechFails
    BY <2>2 DEF Table!SpeechFails, Table!SpeechBecomes
  <2>3. CASE Table!Stop
    BY <2>3 DEF Table!Stop, Table!KeepSpeech
  <2>4. ~Table!Token
    <3> SUFFICES ASSUME speech' = [speech EXCEPT !.tokens = @ + 1] PROVE FALSE
      BY DEF Table!Token
    <3>1. speech'.seat = speech.seat /\ speech'.tokens = speech.tokens + 1
      BY <1>1
    <3> QED
      BY <1>1, <3>1
  <2>5. ~(Table!AtHead \/ Table!MoreInterventions \/ Table!NextSpeaker \/ Table!SelectSpeaker \/ Table!DecideOtherwise)
    BY <1>1 DEF Table!AtHead, Table!MoreInterventions, Table!NextSpeaker, Table!SelectSpeaker, Table!DecideOtherwise
  <2>6. ~(Table!Begin \/ Table!Decide \/ Table!SpeechImpossible \/ Table!Summarise \/ Table!Concluded
          \/ Table!ConclusionImpossible \/ Table!Leave \/ Table!Start \/ Table!AskFor \/ Table!Pause \/ Table!Resume \/ UNCHANGED Table!vars)
    BY <1>1 DEF Table!Begin, Table!Decide, Table!SpeechImpossible, Table!Summarise, Table!Concluded,
       Table!ConclusionImpossible, Table!Leave, Table!Start, Table!AskFor, Table!Pause, Table!Resume, Table!vars
  <2> QED
    BY <2>1, <2>2, <2>3, <2>4, <2>5, <2>6 DEF Table!Next, Table!Run, Table!People
<1>3. PICK e \in Entries :
        transcript' = Append(transcript, e) /\ e.who = speech.seat /\ e.tokens = speech.tokens
  BY <1>1, <1>2, EntryRight
<1>4. Len(transcript') = Len(transcript) + 1 /\ transcript'[Len(transcript) + 1] = e
  BY <1>1, <1>3, AppendProperties
<1> QED
  BY <1>1, <1>3, <1>4 DEF Table!Last

\* In a fixed order, whoever is there all through a round is heard in it, whatever is
\* added, removed, called on, stopped or fails meanwhile (next_speaker and remove_seat,
\* models.py).
THEOREM RoundsHearEverybody ==
    ASSUME SeatsAssumption
    PROVE  Table!Spec => Table!NobodySkipped
<1>1. Table!Init => TableInv
  BY StartsRight
<1>2. TableInv /\ [Table!Next]_(Table!vars) => TableInv'
  BY NextKeeps
<1>3. TableInv /\ [Table!Next]_(Table!vars) => Table!RoundHeardAll
  BY RoundsHear
<1> QED
  BY <1>1, <1>2, <1>3, PTL DEF Table!Spec, Table!NobodySkipped

\* What people have seen a seat say stays in the transcript with all its words, however
\* its speech ends (_finalize_interrupted_turn, runner.py).
THEOREM SeenSpeechesStay ==
    ASSUME SeatsAssumption
    PROVE  Table!Spec => Table!SeenIsKept
<1>1. Table!Init => TableInv
  BY StartsRight
<1>2. TableInv /\ [Table!Next]_(Table!vars) => TableInv'
  BY NextKeeps
<1>3. TableInv /\ [Table!Next]_(Table!vars) => Table!SpeechIsKept
  BY SpeechesStay
<1> QED
  BY <1>1, <1>2, <1>3, PTL DEF Table!Spec, Table!SeenIsKept

=============================================================================
