------------------------------ MODULE MCServices ------------------------------
(* One instance of each of the smaller components that keep to themselves.  Init
   picks the one a behaviour is about, so that their state spaces add up and do
   not multiply; x1 to x10 are the variables of that component, in the order of
   its VARIABLES, and 0 where it has fewer. *)
EXTENDS Integers, Sequences, TLC

CONSTANT Subjects  \* the components a run is about

VARIABLES subject, x1, x2, x3, x4, x5, x6, x7, x8, x9, x10
x == <<x1, x2, x3, x4, x5, x6, x7, x8, x9, x10>>
Unused10 == x10 = 0
Unused9 == x9 = 0 /\ Unused10
Unused8 == x8 = 0 /\ Unused9
Unused7 == x7 = 0 /\ Unused8
Unused6 == x6 = 0 /\ Unused7
Unused5 == x5 = 0 /\ Unused6
Unused4 == x4 = 0 /\ Unused5

Draft == INSTANCE StreamDraft
    WITH reply <- x1, draft <- x2, view <- x3, MaxEvents <- 7

Window == INSTANCE ContextWindow
    WITH lc <- x1, messages <- x2, sent <- x3, record <- x4, phase <- x5,
         rounds <- x6, written <- x7, compacts <- x8,
         MaxContext <- 7, FullAt <- 6, ToolsAt <- 2, MaxToolResults <- 1,
         KeepTools <- 1, KeepRecent <- 3, MaxRounds <- 2, QuestionSizes <- {1, 2},
         AnswerSizes <- {1}, ResultSizes <- {1, 3}, MaxMessages <- 5, MaxCompacts <- 1

Table == INSTANCE Roundtable
    WITH strategy <- x1, status <- x2, seats <- x3, turn <- x4, runner <- x5,
         draft <- x6, transcript <- x7, asked <- x8, requests <- x9, present <- x10,
         Seats <- <<"a", "b", "c">>, Guests <- {"d"}, MaxRounds <- 2, MaxSeats <- 4,
         Interval <- 2, MaxRequests <- 2, MaxTokens <- 1, MaxSpeeches <- 1

Jobs == INSTANCE Cron
    WITH file <- x1, tick <- x2, manual <- x3, edits <- x4, excuse <- x5,
         Ids <- {1, 2}, Kinds <- {"interval", "cron", "once", "naive"}, Every <- 2,
         Repeats <- {0, 2}, MaxRun <- 2, MaxEdits <- 1, Horizon <- 5

S(deps, bad, installed, enabled) ==
    [deps |-> deps, bad |-> bad, installed |-> installed, enabled |-> enabled]
FourInstalled == {"d", "g", "e", "f"}
Host == INSTANCE Extensions
    WITH setup <- x1, order <- x2, status <- x3, main <- x4, exits <- x5,
         started <- x6, tools <- x7, process <- x8, late <- x9, faults <- x10,
         MaxFaults <- 2,
         Setups <- {
             S([d |-> {}, g |-> {"d"}, e |-> {}, f |-> {"d"}], {}, FourInstalled, <<"d", "g", "e", "f">>),
             S([d |-> {}, g |-> {"d"}, e |-> {"g"}], {}, {"d", "g", "e"}, <<"e">>),
             S([d |-> {"e"}, g |-> {"d"}, e |-> {"g"}], {}, {"d", "g", "e"}, <<"e">>),
             S([d |-> {}, g |-> {"d"}, e |-> {}, f |-> {"g"}], {"e"}, {"g", "e", "f"}, <<"f", "e">>),
             S([d |-> {"e"}, g |-> {"d"}, e |-> {}], {}, {"g", "e"}, <<"g", "d", "e">>)}

R(prefix, needs, faults) == [prefix |-> prefix, needs |-> needs, faults |-> faults]
Store == INSTANCE PluginStore
    WITH lock <- x1, enabled <- x2, settings <- x3, upstream <- x4, update <- x5,
         running <- x6, release <- x7, ops <- x8,
         MaxOps <- 4, Overrides <- {"c"},
         Package <- [p |-> <<R("a", {}, {}), R("", {"q"}, {}), R("b", {"q"}, {})>>,
                     q |-> <<R("a", {}, {}), R("b", {}, {"resources"})>>]

\* The workflows drawn: a choice, both kinds of loop, a parallel block, a choice
\* and a block inside a loop, and two that are refused; in a run about "branch",
\* one whose branch comes back to where its other edge leads at once.
W(nodes, gate, gates, adj, default) ==
    [nodes |-> nodes, gate |-> gate, gates |-> gates, default |-> default,
     adj |-> adj @@ [E |-> <<"end">>] @@ ("end" :> <<>>)]
ChoiceFlow == W({"A", "B", "C", "D", "E"}, [g |-> "condition"], <<"g">>,
    [start |-> <<"A">>, A |-> <<"g">>, g |-> <<"B", "D">>, B |-> <<"C">>, C |-> <<"E">>, D |-> <<"E">>],
    {<<"g", "D">>})
ForFlow == W({"A", "X", "V", "E"}, [l |-> "loop"], <<"l">>,
    [start |-> <<"l">>, l |-> <<"A", "E">>, A |-> <<"X">>, X |-> <<"V">>, V |-> <<"l">>], {<<"l", "E">>})
WhileFlow == W({"A", "X", "V", "E"}, [g |-> "condition"], <<"g">>,
    [start |-> <<"A">>, A |-> <<"X">>, X |-> <<"V">>, V |-> <<"g">>, g |-> <<"A", "E">>], {<<"g", "E">>})
ParallelFlow == W({"A", "B", "D", "E"}, [p |-> "parallel", c |-> "converge"], <<"p", "c">>,
    [start |-> <<"p">>, p |-> <<"A", "D">>, A |-> <<"B">>, B |-> <<"c">>, D |-> <<"c">>, c |-> <<"E">>], {})
ChoiceInFor == W({"A", "B", "C", "D", "E"}, [l |-> "loop", g |-> "condition"], <<"l", "g">>,
    [start |-> <<"l">>, l |-> <<"A", "E">>, A |-> <<"g">>, g |-> <<"B", "C">>, B |-> <<"D">>, C |-> <<"D">>,
     D |-> <<"l">>], {<<"l", "E">>, <<"g", "C">>})
ParallelInFor == W({"A", "B", "D", "E"}, [l |-> "loop", p |-> "parallel", c |-> "converge"], <<"l", "p", "c">>,
    [start |-> <<"l">>, l |-> <<"A", "E">>, A |-> <<"p">>, p |-> <<"B", "D">>, B |-> <<"c">>, D |-> <<"c">>,
     c |-> <<"l">>], {<<"l", "E">>})
BranchFlow == W({"A", "B", "E"}, [g |-> "condition"], <<"g">>,
    [start |-> <<"A">>, A |-> <<"g">>, g |-> <<"B", "E">>, B |-> <<"E">>], {<<"g", "E">>})

Flow == INSTANCE TaskFlow
    WITH def <- x1, steps <- x2, disk <- x3, task <- x4, run <- x5, faults <- x6,
         Definitions <- IF "branch" \in Subjects THEN {BranchFlow}
                        ELSE {ChoiceFlow, ForFlow, WhileFlow, ParallelFlow, ChoiceInFor, ParallelInFor,
                              [ChoiceFlow EXCEPT !.default = {}], [ParallelFlow EXCEPT !.adj["D"] = <<"E">>]},
         Rework <- [V |-> "A"], Approvals <- {"B"}, OneRetry <- {"D"}, AutoSkip <- {"C"},
         Disabled <- {"X"}, MaxIterations <- 2, MaxRejections <- 1, MaxFaults <- 2

\* Another workflow as a node: two choices (one of which is redrawn while the
\* task runs) and one that cannot be taken up again.
ChoiceRedrawn == [ChoiceFlow EXCEPT !.nodes = {"A", "B", "D", "E", "Y"},
    !.adj = [start |-> <<"A">>, A |-> <<"g">>, g |-> <<"B", "D">>, B |-> <<"Y">>, Y |-> <<"E">>, D |-> <<"E">>,
             E |-> <<"end">>] @@ ("end" :> <<>>)]
Inline == INSTANCE ChildFlow
    WITH drawn <- x1, disk <- x2, task <- x3, run <- x4, kept <- x5, excuse <- x6, faults <- x7, again <- x8,
         Drafts <- {ChoiceFlow, ChoiceRedrawn, WhileFlow}, Unchosen <- {"E"}, Asking <- {"D"}, Retries <- 1,
         MaxFaults <- 2, MaxAgain <- 2

Agent == INSTANCE AgentNode
    WITH asks <- x1, file <- x2, att <- x3, exec <- x4, waiters <- x5, slot <- x6, approved <- x7,
         excuse <- x8, reports <- x9, faults <- x10,
         MaxRejectionCount <- 2, MaxRepairs <- 1, MaxReports <- 2, MaxAttempts <- 2, MaxFaults <- 2

Frozen == INSTANCE TaskIdentity
    WITH live <- x1, file <- x2, starting <- x3, run <- x4, alive <- x5, cut <- x6, made <- x7, spent <- x8,
         Versions <- {1, 2}, AgentTypes <- {"a1", "a2"}, Default <- "a1", MaxEdits <- 2, MaxAttempts <- 3, MaxTrouble <- 1

Library == INSTANCE Resources
    WITH kind <- x1, stage <- x2, disk <- x3, memory <- x4, index <- x5, load <- x6,
         choice <- x7, calls <- x8,
         Kinds <- {"skill", "rule", "agent", "prompt"}, Own <- {"u", "v"}, First <- {"u"},
         Shipped <- {"p"}, Bundled <- {"q"}, Names <- {"g"}, Offered <- {"h"},
         MaxCalls <- 4

F(definition, script) == [definition |-> definition, script |-> script]
Shipped == INSTANCE ShippedWorkflow
    WITH root <- x1, state <- x2, dir <- x3, marker <- x4, sync <- x5, mine <- x6, cut <- x7, ops <- x8, faults <- x9,
         Owners <- <<"p", "q">>, MaxOps <- 4, MaxFaults <- 1,
         Revisions <- [p |-> {F("none", "none"), F("v1", "v1"), F("v2", "none"), F("v2", "v2")},
                       q |-> {F("none", "none"), F("v3", "none")}]

Init ==
    /\ subject \in Subjects
    /\ \/ subject = "draft" /\ Draft!Init /\ Unused4
       \/ subject = "window" /\ Window!Init /\ Unused9
       \/ subject = "table" /\ Table!Init
       \/ subject = "jobs" /\ Jobs!Init /\ Unused6
       \/ subject = "host" /\ Host!Init
       \/ subject = "store" /\ Store!Init /\ Unused9
       \/ subject = "library" /\ Library!Init /\ Unused9
       \/ subject = "child" /\ Inline!Init /\ Unused9
       \/ subject = "frozen" /\ Frozen!Init /\ Unused9
       \/ subject = "agent" /\ Agent!Init
       \/ subject = "shipped" /\ Shipped!Init /\ Unused10
       \/ subject \in {"flow", "branch"} /\ Flow!Init /\ Unused7

Next ==
    /\ UNCHANGED subject
    /\ \/ subject = "draft" /\ Draft!Next /\ UNCHANGED <<x4, x5, x6, x7, x8, x9, x10>>
       \/ subject = "window" /\ Window!Next /\ UNCHANGED <<x9, x10>>
       \/ subject = "table" /\ Table!Next
       \/ subject = "jobs" /\ Jobs!Next /\ UNCHANGED <<x6, x7, x8, x9, x10>>
       \/ subject = "host" /\ Host!Next
       \/ subject = "store" /\ Store!Next /\ UNCHANGED <<x9, x10>>
       \/ subject = "library" /\ Library!Next /\ UNCHANGED <<x9, x10>>
       \/ subject = "child" /\ Inline!Next /\ UNCHANGED <<x9, x10>>
       \/ subject = "frozen" /\ Frozen!Next /\ UNCHANGED <<x9, x10>>
       \/ subject = "agent" /\ Agent!Next
       \/ subject = "shipped" /\ Shipped!Next /\ UNCHANGED x10
       \/ subject \in {"flow", "branch"} /\ Flow!Next /\ UNCHANGED <<x7, x8, x9, x10>>

Spec == Init /\ [][Next]_<<subject, x>>

\* Every component's variables have their types.
TypesOK ==
    CASE subject = "draft" -> TRUE
      [] subject = "window" -> Window!TypeOK
      [] subject = "table" -> Table!TypeOK
      [] subject = "jobs" -> Jobs!TypeOK
      [] subject = "host" -> Host!TypeOK
      [] subject = "store" -> Store!TypeOK
      [] subject = "library" -> Library!TypeOK
      [] subject = "child" -> Inline!TypeOK
      [] subject = "frozen" -> Frozen!TypeOK
      [] subject = "agent" -> Agent!TypeOK
      [] subject = "shipped" -> Shipped!TypeOK
      [] subject \in {"flow", "branch"} -> Flow!TypeOK

\* StreamDraft: bus and browser build the same draft from the same events.
DraftsAgree == subject = "draft" => Draft!DraftsAgree /\ Draft!CallsStayApart

\* ContextWindow: what the model is given is a request its interface accepts.
RequestIsWhole == subject = "window" => Window!RequestIsWellFormed /\ Window!QuestionReachesModel
RecordCoversMemory == subject = "window" => Window!RecordCoversMemory
ResultsReachModel == [][subject = "window" => Window!ResultsAreSent]_x

\* Cron: a job is never passed over unless it had a reason to be late.
LateForAReason == subject = "jobs" => Jobs!LateForAReason

\* Extensions: when all is settled, what runs depends on what runs.
FailuresAreContained == subject = "host" => Host!FailuresAreContained

\* PluginStore: what the user is told of restarts, and what can be gone back to.
\* ShippedWorkflow: what is offered is what the revision that runs ships.
RevisionsAreKept ==
    /\ subject = "store" => Store!NoRestartNoChange /\ Store!RunningRevisionIsKept
    /\ subject = "shipped" => Shipped!FollowsPlugin /\ Shipped!RefusedForAReason

\* Resources, ShippedWorkflow: what users decide and write outlasts failures,
\* reloads and updates.
ChoicesSurvive ==
    /\ subject = "library" => Library!ChoicesSurvive
    /\ subject = "shipped" => Shipped!EditsAreKept

\* TaskFlow: a completed task has done what was drawn, and nothing twice.
IterationsAreCounted == subject = "flow" => Flow!IterationsAreCounted
NothingLeftOut == subject \in {"flow", "branch"} => Flow!NothingLeftOut /\ Flow!IterationsAreDone
CompletedIsNotRedone == [][subject = "flow" => Flow!IsNotRedone]_x
ReworkIsLookedAt == subject = "flow" => Flow!ReworkIsLookedAt

\* ChildFlow: a subprocess is one run, and what failed in it can be tried again.
ResumesAsOneRun == subject = "child" => Inline!ResumesAsOneRun

\* AgentNode: what an agent reports is passed on when somebody has approved it.
OnlyApprovedPasses == subject = "agent" => Agent!OnlyApprovedPasses

\* TaskIdentity: what runs is what was frozen, and a script runs alone.
RunsAsFrozen == [][subject = "frozen" => Frozen!RunsAsFrozen]_x
ScriptRunsAlone == subject = "frozen" => Frozen!ScriptRunsAlone

\* Roundtable: a round hears everybody, and what was seen said stays.
NobodySkipped == [][subject = "table" => Table!RoundHeardAll]_x
SeenIsKept == [][subject = "table" => Table!SpeechIsKept]_x
==============================================================================
