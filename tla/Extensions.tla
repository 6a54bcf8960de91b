------------------------------ MODULE Extensions ------------------------------
(***************************************************************************)
(* The extension host: it orders the enabled extensions by their           *)
(* dependencies, registers them, starts them one after the other, and      *)
(* takes down an extension whose process exits, with all that depend on    *)
(* it, while the start of others may still be going on.  Each extension    *)
(* has one managed process.                                                *)
(*                                                                         *)
(* src/extension_host/manager.py, runtime_failure.py, lifecycle.py and     *)
(* src/plugin_system/processes.py; strict start-up, which ends the program *)
(* at the first failure, is left out.                                      *)
(***************************************************************************)
EXTENDS Naturals, Sequences, SequencesExt

CONSTANTS
    Setups,     \* deps, bad (manifests), installed, enabled (a sequence)
    MaxFaults   \* bound: failures of extensions, exits of processes

VARIABLES
    setup,   \* the dependencies declared, and what is enabled
    order,   \* _load_order
    status,  \* _states
    main,    \* resolve, register, start or stop: where it is, and at which extension
    exits,   \* the handlers of exits: where each is, and down to which place of order
    started, \* _started_extensions
    tools,   \* _registered_tool_owners
    process, \* of each extension: none, up, leaving (stop_requested), gone
    late,    \* extensions whose start began while a dependency was being taken down (history)
    faults   \* failures so far (bound)
vars == <<setup, order, status, main, exits, started, tools, process, late, faults>>

Names == DOMAIN setup.deps
Deps(e) == IF e \in setup.installed THEN setup.deps[e] ELSE {}
Fault == faults < MaxFaults /\ faults' = faults + 1

------------------------------------------------------------------------------
(* _resolve_enabled and _resolve_dependencies: depth first, the             *)
(* dependencies of an extension in the order of its manifest, which is     *)
(* any.  A dependency that is not installed is missing and gets no place;  *)
(* one in a cycle, or with a bad manifest, gets a place.  What is enabled  *)
(* but not installed is not requested; it has a manifest though, an empty  *)
(* one, and is visited like any other if something depends on it.          *)
(* main.calls are the calls of visit that have not returned.               *)
Fresh(s) == [e \in DOMAIN s.deps |-> IF e \in s.bad THEN "degraded"
                                     ELSE IF e \in ToSet(s.enabled) \ s.installed THEN "missing" ELSE "disabled"]
HasManifest == setup.installed \cup ToSet(setup.enabled)
Visiting == {main.calls[i].of : i \in DOMAIN main.calls}
Visited == ToSet(order) \cup {e \in Names \ HasManifest : status[e] = "missing"}
NotRequested(e) == main.calls = <<>> /\ e \notin setup.installed
New(e) == e \notin Visited \cup Visiting /\ ~NotRequested(e)

Asked(e) ==
    /\ main.at = "resolve"
    /\ IF main.calls = <<>> THEN main.n <= Len(setup.enabled) /\ e = setup.enabled[main.n]
       ELSE e \in Last(main.calls).todo
Answered(e) == IF main.calls = <<>> THEN [main EXCEPT !.n = @ + 1]
               ELSE [main EXCEPT !.calls[Len(main.calls)].todo = @ \ {e}]

Visit(e) ==
    /\ Asked(e)
    /\ \/ /\ e \in Visited \/ NotRequested(e)
          /\ main' = Answered(e)
          /\ UNCHANGED <<order, status>>
       \/ /\ e \in Visiting
          /\ main' = Answered(e)
          /\ status' = [status EXCEPT ![e] = "degraded"]
          /\ UNCHANGED order
       \/ /\ New(e) /\ e \notin HasManifest
          /\ main' = Answered(e)
          /\ status' = [status EXCEPT ![e] = "missing"]
          /\ UNCHANGED order
       \/ /\ New(e) /\ e \in HasManifest /\ status[e] = "degraded"
          /\ main' = Answered(e)
          /\ order' = Append(order, e)
          /\ UNCHANGED status
       \/ /\ New(e) /\ e \in HasManifest /\ status[e] # "degraded"
          /\ main' = [Answered(e) EXCEPT !.calls = Append(@, [of |-> e, todo |-> Deps(e)])]
          /\ UNCHANGED <<order, status>>
    /\ UNCHANGED <<setup, exits, started, tools, process, late, faults>>

VisitReturns ==
    /\ main.at = "resolve" /\ main.calls # <<>>
    /\ LET call == Last(main.calls)
       IN  /\ call.todo = {}
           /\ order' = Append(order, call.of)
           /\ status' = [status EXCEPT ![call.of] = IF @ = "disabled" THEN "discovered" ELSE @]
    /\ main' = [main EXCEPT !.calls = Front(@)]
    /\ UNCHANGED <<setup, exits, started, tools, process, late, faults>>

Resolved ==
    /\ main.at = "resolve" /\ main.calls = <<>> /\ main.n > Len(setup.enabled)
    /\ main' = [at |-> "register", n |-> 1]
    /\ UNCHANGED <<setup, order, status, exits, started, tools, process, late, faults>>

(* _dependency_error *)
Ready(e, required) == \A d \in Deps(e) : status[d] = required

(* _load_and_register *)
Register ==
    /\ main.at = "register"
    /\ IF main.n > Len(order)
       THEN /\ main' = [at |-> "next", n |-> 1]
            /\ UNCHANGED <<status, faults>>
       ELSE LET e == order[main.n]
            IN  /\ main' = [main EXCEPT !.n = @ + 1]
                /\ \/ /\ status' = CASE status[e] = "degraded" -> status
                                     [] status[e] # "degraded" /\ ~Ready(e, "loaded") ->
                                           [status EXCEPT ![e] = "blocked"]
                                     [] OTHER -> [status EXCEPT ![e] = "loaded"]
                      /\ UNCHANGED faults
                   \/ /\ Fault
                      /\ status[e] # "degraded" /\ Ready(e, "loaded")
                      /\ status' = [status EXCEPT ![e] = "degraded"]
    /\ UNCHANGED <<setup, order, exits, started, tools, process, late>>

------------------------------------------------------------------------------
(* start: between two of its steps it waits, and others act *)

(* What depends on e, directly or through others that come before it. *)
Affected(e) ==
    LET upTo[n \in 0 .. Len(order)] ==
            IF n = 0 THEN {e}
            ELSE IF Deps(order[n]) \cap upTo[n - 1] # {} THEN upTo[n - 1] \cup {order[n]} ELSE upTo[n - 1]
    IN  upTo[Len(order)]
Dependents(e) == Affected(e) \ {e}

Steps == <<"lifecycle", "processes", "starting", "health", "tools">>
Down(e) == exits[e].at \notin {"none", "waiting"}
Current == order[main.n]
NextOne == [at |-> "next", n |-> main.n + 1]

StartNext ==
    /\ main.at = "next" /\ main.n <= Len(order)
    /\ CASE status[Current] # "loaded" -> main' = NextOne /\ UNCHANGED <<status, late>>
         [] status[Current] = "loaded" /\ ~Ready(Current, "running") ->
                /\ status' = [status EXCEPT ![Current] = "blocked"]
                /\ main' = NextOne
                /\ UNCHANGED late
         [] OTHER ->
                /\ status' = [status EXCEPT ![Current] = "starting"]
                /\ main' = [main EXCEPT !.at = "lifecycle"]
                /\ late' = IF \E d \in Names : Down(d) /\ Current \in Dependents(d) THEN late \cup {Current} ELSE late
    /\ UNCHANGED <<setup, order, exits, started, tools, process, faults>>

(* The outcome of a step, and the checkpoint behind it                     *)
(* (ensure_runtime_start_allowed): a dependency that has failed meanwhile  *)
(* ends the start.                                                         *)
Following(at) == Steps[1 + CHOOSE i \in DOMAIN Steps : Steps[i] = at]
CheckedByDependencies(e) == ~Ready(e, "running")
Checked(e) == status[e] = "blocked" \/ ~Ready(e, "running")
StepDone ==
    /\ main.at \in {Steps[i] : i \in DOMAIN Steps}
    /\ LET e == Current
           proc == IF main.at = "processes" THEN [process EXCEPT ![e] = "up"] ELSE process
       IN  /\ process' = proc
           /\ tools' = IF main.at = "tools" THEN tools \cup {e} ELSE tools
           /\ started' = IF main.at = "processes" /\ ~Checked(e) THEN started \cup {e} ELSE started
           /\ CASE Checked(e) -> /\ status' = [status EXCEPT ![e] = "blocked"]
                                 /\ main' = [main EXCEPT !.at = "blocked"]
                [] ~Checked(e) /\ main.at # "tools" ->
                                 /\ main' = [main EXCEPT !.at = Following(@)]
                                 /\ UNCHANGED status
                [] OTHER -> /\ status' = [status EXCEPT ![e] = "running"]
                            /\ main' = NextOne
    /\ UNCHANGED <<setup, order, exits, late, faults>>

StepFails ==
    /\ main.at \in {Steps[i] : i \in DOMAIN Steps}
    /\ Fault
    /\ main' = [main EXCEPT !.at = "failed"]
    /\ UNCHANGED <<setup, order, status, exits, started, tools, process, late>>

(* _deactivate_owner: tools and the place among the started go at once,    *)
(* and the process is told; its end, behind a wait, needs the lock that a  *)
(* start of processes holds.                                               *)
Withdrawn(e) ==
    /\ tools' = tools \ {e}
    /\ started' = started \ {e}
    /\ process' = IF process[e] = "up" THEN [process EXCEPT ![e] = "leaving"] ELSE process
Unlocked == main.at # "processes"
Ended(e) == [process EXCEPT ![e] = IF @ \in {"up", "leaving"} THEN "gone" ELSE @]

StartUndone ==
    /\ main.at \in {"failed", "blocked"}
    /\ Withdrawn(Current)
    /\ main' = [main EXCEPT !.at = IF @ = "failed" THEN "degrading" ELSE "cleaning"]
    /\ UNCHANGED <<setup, order, status, exits, late, faults>>

StartGivenUp ==
    /\ main.at \in {"degrading", "cleaning"}
    /\ process' = Ended(Current)
    /\ status' = IF main.at = "degrading" THEN [status EXCEPT ![Current] = "degraded"] ELSE status
    /\ main' = NextOne
    /\ UNCHANGED <<setup, order, exits, started, tools, late, faults>>

Started ==
    /\ main.at = "next" /\ main.n > Len(order)
    /\ main' = [at |-> "up", n |-> 0]
    /\ UNCHANGED <<setup, order, status, exits, started, tools, process, late, faults>>

------------------------------------------------------------------------------
(* A process exits; its watcher calls the host unless the exit was wanted. *)
NoExit == [at |-> "none", n |-> 0]
ProcessExits(e) ==
    /\ process[e] \in {"up", "leaving"}
    /\ IF process[e] = "up" THEN Fault ELSE UNCHANGED faults
    /\ process' = [process EXCEPT ![e] = "gone"]
    /\ exits' = IF process[e] = "up" THEN [exits EXCEPT ![e].at = "waiting"] ELSE exits
    /\ UNCHANGED <<setup, order, status, main, started, tools, late>>

(* block_runtime_dependents: who is starting is blocked at once. *)
IsStarting(e) == status[e] = "starting"
Stopping == main.at \in {"stop", "stopping", "down"}

ExitHandled(e) ==
    /\ exits[e].at = "waiting" /\ ~IsStarting(e)
    /\ IF Stopping \/ status[e] # "running"
       THEN exits' = [exits EXCEPT ![e] = NoExit] /\ UNCHANGED status
       ELSE /\ status' = [d \in Names |-> IF d \in Dependents(e) /\ IsStarting(d)
                                          THEN "blocked" ELSE status[d]]
            /\ exits' = [exits EXCEPT ![e] = [at |-> "blocking", n |-> Len(order)]]
    /\ UNCHANGED <<setup, order, main, started, tools, process, late, faults>>

(* The running ones are stopped one after the other, the last in order     *)
(* first, and then the owner.                                              *)
AtHand(e) == order[exits[e].n]
BlockNext(e) ==
    /\ exits[e].at = "blocking" /\ exits[e].n > 0
    /\ IF AtHand(e) \in Dependents(e) /\ status[AtHand(e)] = "running"
       THEN /\ Withdrawn(AtHand(e))
            /\ exits' = [exits EXCEPT ![e].at = "stopping"]
       ELSE /\ exits' = [exits EXCEPT ![e].n = @ - 1]
            /\ UNCHANGED <<started, tools, process>>
    /\ UNCHANGED <<setup, order, status, main, late, faults>>

Blocked(e) ==
    /\ exits[e].at = "stopping" /\ Unlocked
    /\ process' = Ended(AtHand(e))
    /\ status' = [status EXCEPT ![AtHand(e)] = "blocked"]
    /\ exits' = [exits EXCEPT ![e] = [at |-> "blocking", n |-> @.n - 1]]
    /\ UNCHANGED <<setup, order, main, started, tools, late, faults>>

OwnerWithdrawn(e) ==
    /\ exits[e].at = "blocking" /\ exits[e].n = 0
    /\ Withdrawn(e)
    /\ exits' = [exits EXCEPT ![e].at = "degrading"]
    /\ UNCHANGED <<setup, order, status, main, late, faults>>

OwnerDegraded(e) ==
    /\ exits[e].at = "degrading" /\ Unlocked
    /\ process' = Ended(e)
    /\ status' = [status EXCEPT ![e] = "degraded"]
    /\ exits' = [exits EXCEPT ![e] = NoExit]
    /\ UNCHANGED <<setup, order, main, started, tools, late, faults>>

------------------------------------------------------------------------------
(* stop, in reverse order, when the program ends *)
StopBegins ==
    /\ main.at = "up"
    /\ main' = [at |-> "stop", n |-> Len(order)]
    /\ UNCHANGED <<setup, order, status, exits, started, tools, process, late, faults>>

StopNext ==
    /\ main.at = "stop" /\ main.n > 0
    /\ IF Current \in started
       THEN /\ Withdrawn(Current)
            /\ main' = [main EXCEPT !.at = "stopping"]
            /\ UNCHANGED status
       ELSE /\ tools' = tools \ {Current}
            /\ status' = IF status[Current] = "blocked" THEN [status EXCEPT ![Current] = "loaded"] ELSE status
            /\ main' = [main EXCEPT !.n = @ - 1]
            /\ UNCHANGED <<started, process>>
    /\ UNCHANGED <<setup, order, exits, late, faults>>

Stopped ==
    /\ main.at = "stopping"
    /\ process' = Ended(Current)
    /\ \/ status' = [status EXCEPT ![Current] = "loaded"] /\ UNCHANGED faults
       \/ Fault /\ status' = [status EXCEPT ![Current] = "degraded"]
    /\ main' = [at |-> "stop", n |-> main.n - 1]
    /\ UNCHANGED <<setup, order, exits, started, tools, late>>

StopEnds ==
    /\ main.at = "stop" /\ main.n = 0
    /\ main' = [main EXCEPT !.at = "down"]
    /\ UNCHANGED <<setup, order, status, exits, started, tools, process, late, faults>>

Init ==
    /\ setup \in Setups
    /\ order = <<>>
    /\ status = Fresh(setup)
    /\ main = [at |-> "resolve", n |-> 1, calls |-> <<>>]
    /\ exits = [e \in Names |-> NoExit]
    /\ started = {} /\ tools = {} /\ late = {} /\ faults = 0
    /\ process = [e \in Names |-> "none"]

Resolve == (\E e \in Names : Visit(e)) \/ VisitReturns \/ Resolved
Start == Register \/ StartNext \/ StepDone \/ StepFails \/ StartUndone \/ StartGivenUp \/ Started
Exit(e) == ProcessExits(e) \/ ExitHandled(e) \/ BlockNext(e) \/ Blocked(e) \/ OwnerWithdrawn(e) \/ OwnerDegraded(e)
Next == Resolve \/ Start \/ (\E e \in Names : Exit(e)) \/ StopBegins \/ StopNext \/ Stopped \/ StopEnds

Spec == Init /\ [][Next]_vars

------------------------------------------------------------------------------
Described ==  \* the packages are: they name their dependencies, which may be missing
    \A s \in Setups : s.deps \in [DOMAIN s.deps -> SUBSET DOMAIN s.deps] /\ s.enabled \in Seq(DOMAIN s.deps)

TypeOK ==
    /\ Described
    /\ \A e \in Names : status[e] \in {"disabled", "discovered", "loaded", "starting", "running",
                                       "degraded", "blocked", "missing"}
    /\ started \cup tools \cup late \subseteq Names
    /\ \A e \in Names : process[e] \in {"none", "up", "leaving", "gone"}
    /\ faults \in 0 .. MaxFaults

Settled == main.at \in {"up", "down"} /\ \A e \in Names : exits[e].at = "none"

(* Whatever failed, and whenever, when all is settled only what runs has a *)
(* process, tools or a place among the started, and what runs depends on   *)
(* what runs ("takes the tools back, stops the processes of the owner and  *)
(* blocks those that depend on it", docs/plugin-packages.md:251), except   *)
(* for an extension whose own start began in the middle of that.           *)
FailuresAreContained ==
    Settled =>
        \A e \in Names :
            /\ status[e] # "running" => process[e] # "up" /\ e \notin tools \cup started
            /\ status[e] = "running" /\ e \notin late => Ready(e, "running")
==============================================================================
