------------------------------ MODULE PluginStore ------------------------------
(***************************************************************************)
(* Plugin packages: a lock file says which revision of which plugin is     *)
(* wanted, extensions.json which plugins are enabled, and files which      *)
(* settings they have.  All of it is the desired state; the program keeps  *)
(* what it applied when it started until it is started again.              *)
(*                                                                         *)
(* src/plugin_system/store.py, release.py and                              *)
(* src/extension_host/plugin_management.py, plugin_config.py.  A request   *)
(* the code refuses leaves everything as it is and is no step.             *)
(***************************************************************************)
EXTENDS Naturals, Sequences, FiniteSets, SequencesExt

CONSTANTS
    Package,    \* [plugin -> sequence of revisions]: prefix, needs, faults of each
    Overrides,  \* resource prefixes a user may choose at the installation
    MaxOps      \* bound: changes of the desired state

VARIABLES
    lock,       \* plugins.lock.json: the records
    enabled,    \* extensions.json: the plugins enabled by name
    settings,   \* the settings files; 0 for none
    upstream,   \* the revision a source's HEAD is at
    update,     \* an update past its first look at the record
    running,    \* what the program applied when it started
    release,    \* the plugins and revisions of the last release snapshot
    ops         \* changes so far (bound)
vars == <<lock, enabled, settings, upstream, update, running, release, ops>>

Plugins == DOMAIN Package
Revisions(p) == 1 .. Len(Package[p])
None == [pending |-> "none"]
Installed(l) == {p \in Plugins : l[p] # None}
Kept(l) == {p \in Installed(l) : l[p].pending # "remove"}
Op == ops < MaxOps /\ ops' = ops + 1

------------------------------------------------------------------------------
(* What a package has to be: _validate_package_root, then the preflight    *)
(* of its declarations.                                                    *)
ValidPackage(p, r) == Package[p][r].faults \cap {"bytecode", "symlink", "manifest"} = {}
Preflighted(p, r) == Package[p][r].faults \cap {"api", "resources", "page"} = {}
(* _materialize: the revision HEAD names becomes a checkout of its own. *)
Materialized(p, r) == ValidPackage(p, r) /\ Preflighted(p, r)

(* _manifest_resource_prefix, unless the user has chosen one; it must be   *)
(* nobody else's.                                                          *)
Prefix(p, r, override) == IF override = "" THEN Package[p][r].prefix ELSE override
PrefixAvailable(p, prefix) ==
    prefix # "" => \A q \in Installed(lock) \ {p} : lock[q].prefix # prefix

(* _prepend_unique_revision: revisions newest first, each once *)
Without(history, r) ==
    LET f[n \in 0 .. Len(history)] ==
            IF n = 0 THEN <<>>
            ELSE IF history[n] = r THEN f[n - 1] ELSE Append(f[n - 1], history[n])
    IN  f[Len(history)]
PrependNothing(r, history, exclude) == Without(history, exclude)
Prepend(r, history, exclude) == Without(<<r>> \o Without(history, r), exclude)

Activated(rec, p, r, pending) ==
    [rec EXCEPT !.active = r, !.prefix = Prefix(p, r, rec.override),
                !.history = Prepend(rec.active, @, r), !.pending = pending]

Install(p, override) ==
    /\ running.up /\ Op /\ lock[p] = None
    /\ Materialized(p, upstream[p])
    /\ PrefixAvailable(p, Prefix(p, upstream[p], override))
    /\ lock' = [lock EXCEPT ![p] =
          [active |-> upstream[p], prefix |-> Prefix(p, upstream[p], override),
           override |-> override, history |-> <<>>, pending |-> "install"]]
    /\ UNCHANGED <<enabled, settings, upstream, update, running, release>>

(* An update looks at the record, and only then takes the lock; requests   *)
(* that do not run in a thread can come in between.                        *)
UpdateAsked(p) ==
    /\ running.up /\ Op /\ update = "" /\ lock[p] # None
    /\ update' = p
    /\ UNCHANGED <<lock, enabled, settings, upstream, running, release>>

Update ==
    /\ running.up /\ update # ""
    /\ LET p == update
           r == upstream[p]
       IN  IF lock[p] # None /\ Materialized(p, r)
                             /\ PrefixAvailable(p, Prefix(p, r, lock[p].override))
           THEN lock' = [lock EXCEPT ![p] = Activated(@, p, r, "update")]
           ELSE UNCHANGED lock
    /\ update' = ""
    /\ UNCHANGED <<enabled, settings, upstream, running, release, ops>>

(* rollback: to the newest of the revisions it had *)
Rollback(p) ==
    /\ running.up /\ Op /\ lock[p] # None /\ lock[p].history # <<>>
    /\ LET r == Head(lock[p].history)
       IN  /\ Preflighted(p, r)
           /\ PrefixAvailable(p, Prefix(p, r, lock[p].override))
           /\ lock' = [lock EXCEPT ![p] = Activated(@, p, r, "rollback")]
    /\ UNCHANGED <<enabled, settings, upstream, update, running, release>>

------------------------------------------------------------------------------
(* _try_desired_manifest, _desired_enabled: what is enabled by name, and   *)
(* what that needs, whether it is installed or not *)
Needs(l, p) == IF p \in Kept(l) THEN Package[p][l[p].active].needs ELSE {}
Reach(l, from) ==
    LET f[n \in 0 .. Cardinality(Plugins)] ==
            IF n = 0 THEN from ELSE f[n - 1] \cup UNION {Needs(l, p) : p \in f[n - 1]}
    IN  f[Cardinality(Plugins)]
DesiredEnabled == Reach(lock, enabled)

(* _ensure_not_required *)
NotRequired(p) == \A q \in enabled \ {p} : p \notin Reach(lock, Needs(lock, q))

(* uninstall: disabled first, then marked in the lock.  When the mark      *)
(* fails the configuration is restored; the program may die in between, or *)
(* the restoring fail too.                                                 *)
Uninstall(p) ==
    /\ running.up /\ Op /\ lock[p] # None /\ NotRequired(p)
    /\ enabled' = enabled \ {p}
    /\ \/ lock' = [lock EXCEPT ![p].pending = "remove"] /\ UNCHANGED <<running, update>>
       \/ /\ UNCHANGED lock
          /\ \/ UNCHANGED <<running, update>>
             \/ running' = [running EXCEPT !.up = FALSE] /\ update' = ""
    /\ UNCHANGED <<settings, upstream, release>>

(* set_enabled; a plugin to be removed is kept after all *)
Known(p) == lock[p] # None \/ p \in running.known
Enable(p) ==
    /\ running.up /\ Op /\ Known(p)
    /\ lock' = IF lock[p].pending = "remove" THEN [lock EXCEPT ![p].pending = "none"] ELSE lock
    /\ enabled' = enabled \cup {p}
    /\ UNCHANGED <<settings, upstream, update, running, release>>

Disable(p) ==
    /\ running.up /\ Op /\ Known(p) /\ p \in enabled /\ NotRequired(p)
    /\ enabled' = enabled \ {p}
    /\ UNCHANGED <<lock, settings, upstream, update, running, release>>

SaveConfig(p, version) ==
    /\ running.up /\ Op /\ p \in Kept(lock) /\ settings[p] # version
    /\ settings' = [settings EXCEPT ![p] = version]
    /\ UNCHANGED <<lock, enabled, upstream, update, running, release>>

(* Somebody pushes to a plugin's repository. *)
Push(p) ==
    /\ upstream[p] < Len(Package[p])
    /\ upstream' = [upstream EXCEPT ![p] = @ + 1]
    /\ UNCHANGED <<lock, enabled, settings, update, running, release, ops>>

------------------------------------------------------------------------------
(* apply_pending, and what the program then loads (_load_order): of what   *)
(* is enabled or needed, what is installed.  What is enabled without being *)
(* installed has an empty manifest, and is loaded if something needs it.   *)
Applied(l) == [p \in Plugins |-> IF p \in Kept(l) THEN [l[p] EXCEPT !.pending = "none"] ELSE None]
LoadOrder(l) ==
    {p \in Plugins \cap Reach(l, enabled) :
        p \in Installed(l) \/ (p \in enabled /\ \E q \in Reach(l, enabled) : p \in Needs(l, q))}
Started(l) ==
    [up |-> TRUE, lock |-> Applied(l), settings |-> settings,
     known |-> Reach(Applied(l), enabled) \cup Installed(Applied(l)),
     enabled |-> LoadOrder(Applied(l))]

Restart ==
    /\ running' = Started(lock)
    /\ lock' = Applied(lock)
    /\ update' = ""
    /\ UNCHANGED <<enabled, settings, upstream, release, ops>>

(* restart_required, what a user is told *)
RestartRequiredByRevision ==
    \/ DesiredEnabled # running.enabled
    \/ \E p \in Plugins : p \in Kept(lock) /\ (running.lock[p] = None \/ running.lock[p].active # lock[p].active)
    \/ settings # running.settings
RestartRequired ==
    \/ DesiredEnabled # running.enabled
    \/ lock # running.lock
    \/ settings # running.settings

(* prepare_release_snapshot refuses what still waits for a restart. *)
Release(selected) ==
    /\ selected \subseteq Installed(lock) /\ selected # {}
    /\ \A p \in selected : lock[p].pending = "none"
    /\ release' = [p \in selected |-> lock[p].active]
    /\ UNCHANGED <<lock, enabled, settings, upstream, update, running, ops>>

Init ==
    /\ lock = [p \in Plugins |-> None]
    /\ enabled = {}
    /\ settings = [p \in Plugins |-> 0]
    /\ upstream = [p \in Plugins |-> 1]
    /\ update = ""
    /\ running = Started(lock)
    /\ release = <<>>
    /\ ops = 0

Next ==
    \/ \E p \in Plugins : \/ \E o \in Overrides \cup {""} : Install(p, o)
                          \/ UpdateAsked(p) \/ Rollback(p) \/ Uninstall(p)
                          \/ Enable(p) \/ Disable(p) \/ Push(p)
                          \/ \E v \in 0 .. 1 : SaveConfig(p, v)
    \/ Update \/ Restart
    \/ \E s \in SUBSET Plugins : Release(s)
Spec == Init /\ [][Next]_vars

------------------------------------------------------------------------------
TypeOK ==
    /\ \A p \in Installed(lock) :
          /\ lock[p].active \in Revisions(p)
          /\ lock[p].pending \in {"none", "install", "update", "rollback", "remove"}
    /\ enabled \subseteq Plugins /\ running.enabled \subseteq Plugins
    /\ update \in Plugins \cup {""}

(* When the user is told that no restart is needed, a restart would change *)
(* nothing of what the program applied (plugin_management.py:306): the     *)
(* lock, the installed plugins it loads, the settings.  A missing plugin   *)
(* is as wanted when something needs it as when it is enabled itself, but  *)
(* is loaded, without any code, only in the second case.                   *)
NoRestartNoChange ==
    running.up /\ ~RestartRequired =>
        /\ Started(lock).lock = running.lock
        /\ Started(lock).enabled \cap Installed(lock) = running.enabled \cap Installed(lock)
        /\ Started(lock).settings = running.settings

(* Whatever was updated, rolled back or cancelled since the start, the     *)
(* revision that runs is still one the lock can go back to (store.py:176,  *)
(* :239), until a restart has applied its removal.                         *)
RunningRevisionIsKept ==
    \A p \in Installed(running.lock) :
        /\ lock[p] # None
        /\ running.lock[p].active \in {lock[p].active} \cup ToSet(lock[p].history)
==============================================================================
