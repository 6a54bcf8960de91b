---------------------------- MODULE ShippedWorkflow ----------------------------
(***************************************************************************)
(* The directory of one workflow that plugins ship: every start brings it  *)
(* in line with what they ship now, file by file, under a marker that says *)
(* whose it is and what was put there.  Users edit the same files.         *)
(*                                                                         *)
(* src/extension_host/workflow_provisioning.py, with the operations of     *)
(* src/workflow/manager.py and src/web/workflow_routes.py on the files.    *)
(* Contents are told apart as their hashes tell them apart.                *)
(***************************************************************************)
EXTENDS Naturals, Sequences, SequencesExt

CONSTANTS
    Owners,     \* the plugins, in the order they are loaded
    Revisions,  \* per plugin, what its revisions may ship: the content of each file
    MaxOps,     \* bound: changes users make, to plugins or to files
    MaxFaults   \* bound: starts cut off, deletions that fail half-way

VARIABLES
    root,    \* what the plugins ship: per plugin, the content of each file
    state,   \* "on"; "failed": in the load order, but it did not register; "off"
    dir,     \* the files
    marker,  \* .extension.json
    sync,    \* the start of the program, as far as it has come
    mine,    \* history: what a user has made of a file, and not taken back
    cut,     \* history: files a start or a deletion that was cut off has touched
    ops, faults
vars == <<root, state, dir, marker, sync, mine, cut, ops, faults>>

Files == <<"definition", "script">>
Shipments == UNION {Revisions[o] : o \in ToSet(Owners)}
Versions == (UNION {{r[f] : f \in ToSet(Files)} : r \in Shipments}) \ {"none"}
None == [f \in ToSet(Files) |-> "none"]  \* no file, or no entry
NoMarker == [owner |-> "none", active |-> TRUE, files |-> None, orphans |-> None]
At(stage) == [at |-> stage, owner |-> "none", n |-> 1, files |-> None]

Op == ops < MaxOps /\ ops' = ops + 1
Fault == faults < MaxFaults /\ faults' = faults + 1

------------------------------------------------------------------------------
(* provision_plugin_workflows                                              *)
Claims(o) == state[o] = "on" /\ root[o]["definition"] # "none"
Claimants == {i \in DOMAIN Owners : Claims(Owners[i])}
First == Owners[CHOOSE i \in Claimants : \A j \in Claimants : i <= j]
\* Somebody else's, or nobody's: then it is taken for the user's.
Taken(o) ==
    \/ marker.owner \notin {"none", o}
    \/ marker.owner = "none" /\ dir["definition"] # "none"

Starts ==
    /\ sync.at = "down" /\ Claimants # {}
    /\ sync' = IF Taken(First) THEN At("refused") ELSE [At("copy") EXCEPT !.owner = First]
    /\ UNCHANGED <<root, state, dir, marker, mine, cut, ops, faults>>

\* Nobody ships it any longer: it becomes inactive, unless its owner is not
\* even loaded.
StartsWithout ==
    /\ sync.at = "down" /\ Claimants = {}
    /\ marker' = IF marker.owner \in {o \in ToSet(Owners) : state[o] # "off"}
                 THEN [marker EXCEPT !.active = FALSE] ELSE marker
    /\ sync' = At("synced")
    /\ UNCHANGED <<root, state, dir, mine, cut, ops, faults>>

\* _sync_owned_file.  A file that was recorded without being installed, or as
\* an orphan, has no installed hash.
Ships(f) == root[sync.owner][f] # "none"
Installs(f) == dir[f] \in {"none", root[sync.owner][f], marker.files[f]}
\* Mutant: whatever is there counts as installed.
RecordedAsFound(f) ==
    IF Installs(f) THEN root[sync.owner][f] ELSE dir[f]
Recorded(f) ==
    IF Installs(f) THEN root[sync.owner][f]
    ELSE IF marker.files[f] = "none" THEN "unknown" ELSE marker.files[f]

Copies ==
    /\ sync.at = "copy" /\ sync.n <= Len(Files)
    /\ LET f == Files[sync.n]
       IN  IF Ships(f)
           THEN /\ dir' = IF Installs(f) THEN [dir EXCEPT ![f] = root[sync.owner][f]] ELSE dir
                /\ mine' = IF Installs(f) /\ mine[f] # "user" THEN [mine EXCEPT ![f] = "none"] ELSE mine
                /\ sync' = [sync EXCEPT !.n = @ + 1, !.files[f] = Recorded(f)]
           ELSE /\ sync' = [sync EXCEPT !.n = @ + 1]
                /\ UNCHANGED <<dir, mine>>
    /\ UNCHANGED <<root, state, marker, cut, ops, faults>>

\* What was put there, or is on record as an orphan.
\* Mutant: orphans of earlier starts are forgotten.
BeforeForgetting(f) == marker.files[f]
Before(f) == IF marker.files[f] # "none" THEN marker.files[f] ELSE marker.orphans[f]
\* Files no longer shipped go, unless a user has changed them: those are kept
\* on record.  What was removed when the marker was not written yet is not
\* looked for again.  A second plugin with the workflow is found only now.
Marks ==
    /\ sync.at = "copy" /\ sync.n > Len(Files)
    /\ LET stale == {f \in ToSet(Files) : Before(f) # "none" /\ ~Ships(f) /\ dir[f] # "none"}
           unchanged == {f \in stale : dir[f] = Before(f)}
       IN  /\ dir' = [f \in DOMAIN dir |-> IF f \in unchanged THEN "none" ELSE dir[f]]
           /\ mine' = [f \in DOMAIN mine |-> IF f \in unchanged /\ mine[f] # "user" THEN "none" ELSE mine[f]]
           /\ marker' = [owner |-> sync.owner, active |-> TRUE, files |-> sync.files,
                         orphans |-> [f \in DOMAIN dir |-> IF f \in stale \ unchanged THEN Before(f) ELSE "none"]]
           /\ cut' = {f \in cut : dir'[f] # root[sync.owner][f]}
    /\ sync' = At(IF \E i, j \in Claimants : i # j THEN "refused" ELSE "synced")
    /\ UNCHANGED <<root, state, ops, faults>>

\* The process dies, or a copy fails: perhaps with the file half written.
IsCutOff ==
    /\ sync.at = "copy" /\ Fault
    /\ \/ dir' = dir
       \/ /\ sync.n <= Len(Files) /\ Ships(Files[sync.n]) /\ Installs(Files[sync.n])
          /\ dir' = [dir EXCEPT ![Files[sync.n]] = "torn"]
    /\ cut' = cut \cup {f \in ToSet(Files) : dir'[f] \notin {"none", "user", marker.files[f]}}
    /\ sync' = At("down")
    /\ UNCHANGED <<root, state, marker, mine, ops>>

Serves ==
    /\ sync.at = "synced"
    /\ sync' = At("up")
    /\ UNCHANGED <<root, state, dir, marker, mine, cut, ops, faults>>
Stops ==
    /\ sync.at \in {"up", "refused"}
    /\ sync' = At("down")
    /\ UNCHANGED <<root, state, dir, marker, mine, cut, ops, faults>>

------------------------------------------------------------------------------
(* Users: plugins are changed for the next start; files while the program  *)
(* runs and their owner with it (workflow_owner_enabled), and unless the   *)
(* definition cannot be read (get_workflow_execution_policy).              *)
ChangesPlugin(o) ==
    /\ sync.at = "down" /\ Op
    /\ \/ /\ \E r \in Revisions[o] : root' = [root EXCEPT ![o] = r]
          /\ UNCHANGED state
       \/ /\ \E s \in {"on", "failed", "off"} : state' = [state EXCEPT ![o] = s]
          /\ UNCHANGED root
    /\ UNCHANGED <<dir, marker, sync, mine, cut, faults>>

Writable ==
    /\ sync.at = "up" /\ dir["definition"] # "torn"
    /\ marker.active /\ \A o \in ToSet(Owners) \cap {marker.owner} : state[o] = "on"

\* update_workflow raises the version it saves; scripts are saved as they are.
\* Who puts back what was installed has taken the change back.
Edits(f) ==
    /\ Writable /\ Op
    /\ f = "definition" => dir[f] # "none"
    /\ \E c \in {"user"} \cup (IF f = "script" THEN Versions ELSE {}) :
          /\ dir' = [dir EXCEPT ![f] = c]
          /\ mine' = [mine EXCEPT ![f] = IF c \in {marker.files[f], marker.orphans[f]} THEN "none" ELSE c]
    /\ cut' = cut \ {f}
    /\ UNCHANGED <<root, state, marker, sync, faults>>

DeletesScript ==
    /\ Writable /\ dir["script"] # "none" /\ Op
    /\ dir' = [dir EXCEPT !["script"] = "none"]
    /\ mine' = [mine EXCEPT !["script"] = "none"]
    /\ UNCHANGED <<root, state, marker, sync, cut, faults>>

\* rmtree, in an order of its own; it may fail on the way.
DeletesWorkflow ==
    /\ Writable /\ <<dir, marker>> # <<None, NoMarker>> /\ Op
    /\ \/ /\ dir' = None /\ marker' = NoMarker
          /\ UNCHANGED <<cut, faults>>
       \/ /\ Fault
          /\ \E left \in SUBSET {f \in ToSet(Files) : dir[f] # "none"} :
                /\ dir' = [f \in DOMAIN dir |-> IF f \in left THEN dir[f] ELSE "none"]
                /\ cut' = cut \cup left
          /\ marker' \in {marker, NoMarker}
    /\ mine' = [f \in DOMAIN mine |-> IF dir'[f] = "none" THEN "none" ELSE mine[f]]
    /\ UNCHANGED <<root, state, sync>>

\* create_workflow with an id of the user's choice
Creates ==
    /\ sync.at = "up" /\ marker = NoMarker /\ dir = None /\ Op
    /\ dir' = [None EXCEPT !["definition"] = "user"]
    /\ mine' = [mine EXCEPT !["definition"] = "user"]
    /\ UNCHANGED <<root, state, marker, sync, cut, faults>>

------------------------------------------------------------------------------
Init ==
    /\ root \in [ToSet(Owners) -> Shipments]
    /\ \A o \in ToSet(Owners) : root[o] \in Revisions[o]
    /\ state = [o \in ToSet(Owners) |-> "on"]
    /\ dir = None /\ marker = NoMarker /\ sync = At("down")
    /\ mine = None /\ cut = {} /\ ops = 0 /\ faults = 0

Next ==
    \/ Starts \/ StartsWithout \/ Copies \/ Marks \/ IsCutOff \/ Serves \/ Stops
    \/ \E o \in ToSet(Owners) : ChangesPlugin(o)
    \/ \E f \in ToSet(Files) : Edits(f)
    \/ DeletesScript \/ DeletesWorkflow \/ Creates
Spec == Init /\ [][Next]_vars

------------------------------------------------------------------------------
(* A revision says of each file what it ships; what users write has hashes *)
(* of its own, and so has half a file.                                     *)
ContentsApart ==
    /\ Owners \in Seq(ToSet(Owners)) /\ "none" \notin ToSet(Owners)
    /\ Shipments \subseteq [ToSet(Files) -> Versions \cup {"none"}]
    /\ Versions \cap {"user", "torn", "unknown"} = {}

TypeOK ==
    LET Known == Versions \cup {"none", "user", "torn"}
    IN  /\ ContentsApart
        /\ \A o \in ToSet(Owners) : root[o] \in Revisions[o] /\ state[o] \in {"on", "failed", "off"}
        /\ \A f \in ToSet(Files) :
              /\ {dir[f], mine[f]} \subseteq Known
              /\ {marker.files[f], marker.orphans[f]} \subseteq Known \cup {"unknown"}
        /\ marker.owner \in ToSet(Owners) \cup {"none"} /\ cut \subseteq ToSet(Files)
        /\ sync.at \in {"down", "copy", "synced", "up", "refused"}

(* docs/architecture.md:65: what a user has made of a workflow is not      *)
(* overwritten or removed by any start, whichever versions plugins ship    *)
(* meanwhile.                                                              *)
EditsAreKept == \A f \in ToSet(Files) : mine[f] = "user" => dir[f] = "user"

(* What no user has changed, or has changed back, is after a start as the  *)
(* plugin ships it now, and gone if it ships it no longer; a workflow that *)
(* is not shipped is not offered.  Two exceptions: after a start that was   *)
(* cut off between a copy and the marker, files count as changed if they   *)
(* are not shipped again as they are; and so does a file that was on       *)
(* record as an orphan, changed back, and is shipped again.                *)
FollowsPlugin ==
    sync.at = "synced" /\ marker.owner # "none" /\ state[marker.owner] = "on" =>
        /\ marker.active <=> root[marker.owner]["definition"] # "none"
        /\ marker.active =>
              \A f \in ToSet(Files) :
                 dir[f] = root[marker.owner][f] \/ mine[f] # "none" \/ f \in cut
                 \/ "unknown" \in {marker.files[f], marker.orphans[f]}

(* The program refuses to start only because of a workflow that two        *)
(* plugins claim, or one of which is the user's; or, after an installation *)
(* or a deletion that was cut off, because it takes what is left for that. *)
RefusedForAReason ==
    sync.at = "refused" =>
        \/ \E i, j \in DOMAIN Owners : i # j /\ Claims(Owners[i]) /\ (Claims(Owners[j]) \/ marker.owner = Owners[j])
        \/ mine["definition"] # "none"
        \/ "definition" \in cut
==============================================================================
