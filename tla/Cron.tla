--------------------------------- MODULE Cron ---------------------------------
(***************************************************************************)
(* Scheduled jobs: a loop that once a minute reads the job file, runs what *)
(* is due one after the other and writes the list it has read, and people  *)
(* who edit the file or run a job by hand meanwhile.                       *)
(*                                                                         *)
(* Time is relative, in minutes: next is how long a job has still to wait, *)
(* since how long ago it last ran.  The jitter, less than a minute, is     *)
(* left out.  src/cron, src/tools/cron_tools.py and the routes beside it.  *)
(***************************************************************************)
EXTENDS Integers, FiniteSets

CONSTANTS
    Ids,       \* the jobs there may be, numbered in the order of the list
    Kinds,     \* their schedules: interval, cron, once, naive (once, no time zone)
    Every,     \* minutes between two runs, of an interval or a cron expression
    Repeats,   \* runs after which a job is disabled, 0 for none
    MaxRun,    \* bound: minutes a run takes (max_turns, each a minute at most)
    MaxEdits,  \* bound: what people do, and stops of the process
    Horizon    \* bound: how far back a time is told apart

VARIABLES
    file,   \* jobs.json: the job of every id, or NoJob
    tick,   \* the loop: minutes to the next tick, or the list read and what is due
    manual, \* a run by hand: its job (0 for none) and the list it read
    edits,  \* what people have done so far (bound)
    excuse  \* jobs that had reason to be late (history)
vars == <<file, tick, manual, edits, excuse>>

NoJob == [kind |-> "none", enabled |-> FALSE, next |-> Horizon, since |-> -1, left |-> 0]
Never == Horizon  \* next_run_at is None
There(jobs) == {j \in Ids : jobs[j].kind # "none"}

Larger(a, b) == IF a >= b THEN a ELSE b
Smaller(a, b) == IF a <= b THEN a ELSE b
Aged(job) ==
    [job EXCEPT !.next = IF @ = Never THEN Never ELSE Larger(@ - 1, -Horizon),
                !.since = IF @ = -1 THEN -1 ELSE Smaller(@ + 1, Horizon + Every)]
AllAged(jobs) == [j \in Ids |-> Aged(jobs[j])]

------------------------------------------------------------------------------
(* CronJobManager *)

Period(job) == IF job.kind \in {"interval", "cron"} THEN Every ELSE 0
GraceByPeriod(period) == Smaller(period \div 2, 120)
Grace(period) == Smaller(Larger(period \div 2, 2), 120)
Due(job) == job.enabled /\ job.next # Never /\ job.next <= 0
Overdue(job) == Due(job) /\ Period(job) > 0 /\ -job.next > Grace(Period(job))

(* _compute_next_run: an interval counts from the last run, whatever the   *)
(* base; the time of a once job counts as long as it is ahead.             *)
NextRuns(job) ==
    CASE job.kind = "interval" /\ job.since = -1 -> {Every}
      [] job.kind = "interval" /\ job.since # -1 -> {Larger(Every - job.since, -Horizon)}
      [] job.kind = "cron" -> 1 .. Every
      [] OTHER -> {IF job.next > 0 THEN job.next ELSE Never}

(* mark_job_run *)
MarkedAt(job, next) ==
    LET done == job.kind \in {"once", "naive"} \/ job.left = 1
    IN  [job EXCEPT !.since = 0, !.left = IF @ > 1 THEN @ - 1 ELSE @,
                    !.enabled = @ /\ ~done, !.next = IF done THEN Never ELSE next]
Marked(job) == {MarkedAt(job, n) : n \in NextRuns([job EXCEPT !.since = 0])}

------------------------------------------------------------------------------
(* CronScheduler *)

Idle(minutes) == [at |-> "waiting", left |-> minutes, jobs |-> <<>>, due |-> {}, spent |-> 0, skips |-> FALSE]

(* A time without a zone cannot be compared: the whole tick fails. *)
Unreadable(jobs) == \E j \in Ids : jobs[j].kind = "naive" /\ jobs[j].enabled

(* get_due_jobs moves what is overdue on, in the list it was given: unless *)
(* something is due as well, the list is not written.                      *)
Tick ==
    /\ tick.at = "waiting" /\ tick.left = 0
    /\ LET skipped == {j \in Ids : Overdue(file[j])}
           due == {j \in Ids : Due(file[j])} \ skipped
       IN  IF Unreadable(file) \/ due = {}
           THEN tick' = Idle(1)
           ELSE tick' = [at |-> "running", left |-> 0, jobs |-> file,
                         due |-> due, spent |-> 0, skips |-> skipped # {}]
    /\ excuse' = IF Unreadable(file) THEN Ids ELSE excuse
    /\ UNCHANGED <<file, manual, edits>>

(* A run ends with any result; after the last the list is written, if it   *)
(* can be: a time moved on is not one that JSON can hold.                  *)
RunEnds ==
    /\ tick.at = "running"
    /\ \E j \in tick.due :
          /\ \A k \in tick.due : j <= k
          /\ \E marked \in Marked(tick.jobs[j]) :
                LET jobs == [tick.jobs EXCEPT ![j] = marked]
                IN  IF tick.due # {j}
                    THEN /\ tick' = [tick EXCEPT !.jobs = jobs, !.due = @ \ {j}]
                         /\ UNCHANGED <<file, excuse>>
                    ELSE /\ tick' = Idle(1)
                         /\ file' = IF tick.skips THEN file ELSE jobs
                         /\ excuse' = IF tick.skips \/ There(file) # There(jobs) THEN Ids ELSE excuse
    /\ UNCHANGED <<manual, edits>>

(* A minute passes, for runs too. *)
Minute ==
    /\ tick.at = "waiting" => tick.left > 0
    /\ tick.at = "running" => tick.spent < MaxRun * Cardinality(Ids)
    /\ file' = AllAged(file)
    /\ tick' = IF tick.at = "waiting" THEN [tick EXCEPT !.left = @ - 1]
               ELSE [tick EXCEPT !.jobs = AllAged(@), !.spent = @ + 1]
    /\ manual' = IF manual.job = 0 THEN manual ELSE [manual EXCEPT !.jobs = AllAged(@)]
    /\ excuse' = IF tick.at = "running" /\ tick.spent > 0 THEN Ids ELSE excuse
    /\ UNCHANGED edits

------------------------------------------------------------------------------
(* People, through the tool and the routes *)

Edit == edits < MaxEdits /\ edits' = edits + 1
ByHand(j) == [job |-> j, jobs |-> file]
Nobody == [job |-> 0, jobs |-> <<>>]

(* add_job: a once job keeps its time, and is not enabled when that is over *)
Create ==
    /\ Edit
    /\ \E j \in Ids \ There(file), kind \in Kinds, at \in {-1, 1}, left \in Repeats :
          LET job == [kind |-> kind, enabled |-> kind \in {"once", "naive"} => at > 0,
                      next |-> at, since |-> -1, left |-> left]
          IN  \E next \in NextRuns(job) :
                 file' = [file EXCEPT ![j] =
                             [job EXCEPT !.next = IF kind \in {"once", "naive"} THEN at ELSE next]]
    /\ UNCHANGED <<tick, manual, excuse>>

RemoveJob ==
    /\ Edit
    /\ \E j \in There(file) : file' = [file EXCEPT ![j] = NoJob]
    /\ UNCHANGED <<tick, manual, excuse>>

Pause ==
    /\ Edit
    /\ \E j \in There(file) : file' = [file EXCEPT ![j].enabled = FALSE]
    /\ UNCHANGED <<tick, manual, excuse>>

(* The tool computes the next run; a plain update only enables the job. *)
Resume ==
    /\ Edit
    /\ \E j \in There(file) :
          /\ \E next \in NextRuns(file[j]) \cup {file[j].next} :
                file' = [file EXCEPT ![j].enabled = TRUE, ![j].next = next]
          /\ excuse' = excuse \cup {j}
    /\ UNCHANGED <<tick, manual>>

(* run_job_now runs the job at once and writes the list read before. *)
RunNow ==
    /\ Edit /\ manual.job = 0
    /\ \E j \in There(file) : manual' = ByHand(j)
    /\ UNCHANGED <<file, tick, excuse>>

RunNowEnds ==
    /\ manual.job # 0
    /\ \E marked \in Marked(manual.jobs[manual.job]) :
          file' = [manual.jobs EXCEPT ![manual.job] = marked]
    /\ excuse' = Ids
    /\ manual' = Nobody
    /\ UNCHANGED <<tick, edits>>

(* The process ends and starts again later; nothing but the file remains. *)
Down ==
    /\ Edit
    /\ \E late \in BOOLEAN :
          /\ file' = IF late THEN AllAged(AllAged(AllAged(file))) ELSE file
    /\ tick' = Idle(0)
    /\ manual' = Nobody
    /\ excuse' = Ids

Init ==
    /\ \E kinds \in [Ids -> (Kinds \ {"naive"}) \cup {"none"}] :
          file = [j \in Ids |-> IF kinds[j] = "none" THEN NoJob
                                ELSE [kind |-> kinds[j], enabled |-> TRUE, next |-> j,
                                      since |-> -1, left |-> 0]]
    /\ tick = Idle(0) /\ manual = Nobody /\ edits = 0 /\ excuse = {}

Next == Tick \/ RunEnds \/ Minute \/ Create \/ RemoveJob \/ Pause \/ Resume \/ RunNow \/ RunNowEnds \/ Down

Spec == Init /\ [][Next]_vars

------------------------------------------------------------------------------
(* Jobs are numbered from 1, 0 is none; Every is at least a minute.        *)
Numbered ==
    /\ Ids \subseteq Nat \ {0} /\ Every \in Nat \ {0}
    /\ Repeats \subseteq Nat /\ Horizon \in Nat

TypeOK ==
    /\ Numbered
    /\ \A j \in Ids : /\ file[j].next \in -Horizon .. Horizon
                      /\ file[j].since \in -1 .. Horizon + Every
                      /\ \E n \in Repeats : file[j].left \in 0 .. n
    /\ tick.at = "running" => tick.due # {}
    /\ manual.job \in Ids \cup {0}

(* A job is so late that it will be passed over only if it had a reason:   *)
(* runs of a tick that took longer than a minute, the process or a person  *)
(* that got in its way, a job whose time cannot be read (grace_seconds,    *)
(* jobs.py:103, against the period of the loop).                           *)
LateForAReason == \A j \in Ids : Overdue(file[j]) => j \in excuse
==============================================================================
