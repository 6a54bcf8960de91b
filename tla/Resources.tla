------------------------------ MODULE Resources ------------------------------
(* What users and agents decide about skills, rules, agent definitions, prompts
   and preset phrases, and how it is kept: LayeredJsonConfig of
   extension_host/resources.py, which lays the user's own entries, those an
   extension ships and the user's overrides of these on top of each other, and
   the managers that read, change and rewrite the result: SkillManager,
   RuleManager, AgentConfigManager, PromptManager and the routes and tools over
   them.  A behaviour is about one kind of resource.

   An entry stands for all sections of a file that speak of it, and its value
   for all they say: "plain" is what a manager writes by itself, "shipped" what
   the extension's file says, "mine" what a caller chose, "none" no entry.
   A bundle is the directory of a skill or a rule (SKILL.md, RULE.md); the text
   in it is not modelled.  Routes, reloads after a failure of the extension and
   prompts run on the event loop; tools in threads of their own, as does the
   reload of agent definitions: those meet a reload that has read the files and
   not yet stored what it read. *)
EXTENDS Integers, FiniteSets, Sequences

CONSTANTS
    Kinds,    \* the kinds a behaviour may be about
    Own,      \* bundles a user may have, of which First is there from the start
    First,
    Shipped,  \* bundles of the extension that its own settings file lists
    Bundled,  \* bundles of the extension that it says nothing else about
    Names,    \* entries without a bundle: groups; agents, prompts or phrases
    Offered,  \* such entries the extension ships
    MaxCalls  \* bound on the calls, restarts and failures of a behaviour

VARIABLES
    kind,    \* what the behaviour is about
    stage,   \* "starting": no extension runs yet; "on", "off": it runs or has failed
    disk,    \* base and override file, bundles of the user, what the extension declares
    memory,  \* the resolved entries the manager holds
    index,   \* the bundles the manager knows
    load,    \* what a reload in a thread or of a route has read: none or one value
    choice,  \* what the last caller was told: "mine", "gone", or "any": nothing certain;
             \* "was mine", "was gone": that, but the program was started without the extension since
    calls

vars == <<kind, stage, disk, memory, index, load, choice, calls>>

Values == {"none", "plain", "shipped", "mine"}
Ids == Own \cup Shipped \cup Bundled
Entries == Names \cup Offered
Items == IF kind \in {"skill", "rule"} THEN Ids \cup Entries ELSE Entries
Bundles == kind \in {"skill", "rule"}
Running == stage = "on"

-----------------------------------------------------------------------------
\* Layers.

\* What the extension's files list now, running or not.
Layered(d) == (Shipped \cup Offered) \cap d.declared

\* Overrides of what is no longer declared are dropped.
Sanitized(d) == [i \in DOMAIN d.over |-> IF i \in Layered(d) THEN d.over[i] ELSE "unset"]

\* What a shipped entry is under an override.
Overridden(override) ==
    CASE override = "unset" -> "shipped"
      [] override = "deleted" -> "none"
      [] OTHER -> override

\* One entry as it stands in the files: a layer is seen while its owner runs.
Resolved(d, running) ==
    [i \in Items |-> IF i \notin Layered(d) THEN d.base[i]
                     ELSE IF running THEN Overridden(Sanitized(d)[i]) ELSE "none"]

\* The override that makes a shipped entry be what the manager holds.
Override(held) ==
    CASE held = "none" -> "deleted"
      [] held = "shipped" -> "unset"
      [] OTHER -> held

\* The files after a save.  Overrides of an owner that does not run stay.
SavedForgetting(d, held, running) ==
    [d EXCEPT !.base = [i \in Items |-> IF i \in Layered(d) THEN "none" ELSE held[i]],
              !.over = [i \in Items |-> IF running /\ i \in Layered(d) THEN Override(held[i]) ELSE "unset"]]
Saved(d, held, running) ==
    [d EXCEPT !.base = [i \in Items |-> IF i \in Layered(d) THEN "none" ELSE held[i]],
              !.over = [i \in Items |-> IF running /\ i \in Layered(d) THEN Override(held[i])
                                        ELSE Sanitized(d)[i]]]

-----------------------------------------------------------------------------
\* Managers.

\* The bundles there are to load.
Found(d, running) == d.bundles \cup (IF running THEN Shipped \cup Bundled ELSE {})

\* What a manager makes of its entries, given the bundles that are there: missing
\* ones get an entry; the rule manager also removes those without a bundle.
SkillSync(held, ids) == [i \in Items |-> IF i \in ids /\ held[i] = "none" THEN "plain" ELSE held[i]]
RuleSync(held, ids) ==
    [i \in Items |-> IF i \in Ids \ ids THEN "none"
                     ELSE IF i \in ids /\ held[i] = "none" THEN "plain" ELSE held[i]]

\* The second half of a reload: what was read is stored, brought in line with
\* the bundles that are found, and saved; agents and prompts are only stored.
SkillsLoaded(read, d, running) ==
    /\ memory' = SkillSync(read, Found(d, running))
    /\ index' = Found(d, running)
    /\ disk' = Saved(d, memory', running)
RulesLoaded(read, d, running) ==
    /\ memory' = RuleSync(read, Found(d, running))
    /\ index' = Found(d, running)
    /\ disk' = Saved(d, memory', running)
AgentsLoaded(read, d) ==
    /\ memory' = read
    /\ disk' = d
    /\ UNCHANGED index
Loaded(read, d, running) ==
    CASE kind = "skill" -> SkillsLoaded(read, d, running)
      [] kind = "rule" -> RulesLoaded(read, d, running)
      [] OTHER -> AgentsLoaded(read, d)

Reloaded(d, running) == Loaded(Resolved(d, running), d, running)

-----------------------------------------------------------------------------
\* The life of the process.

Counted == calls < MaxCalls /\ calls' = calls + 1

\* The managers are made before any extension runs.
Init ==
    /\ kind \in Kinds
    /\ stage = "starting"
    /\ index = IF Bundles THEN First ELSE {}
    /\ memory = SkillSync([i \in Items |-> "none"], index)
    /\ disk = [base |-> memory, over |-> [i \in Items |-> "unset"], bundles |-> First,
               declared |-> Shipped \cup Offered]
    /\ load = <<>>
    /\ choice = [i \in Items |-> "any"]
    /\ calls = 0

\* Then extensions are started, and everything is reloaded.
StartUp ==
    /\ stage = "starting"
    /\ stage' \in {"on", "off"}
    /\ Reloaded(disk, stage' = "on")
    /\ UNCHANGED <<kind, load, choice, calls>>

\* A stop or a crash, and a new start with another release or the same.  What the
\* extension declares must not be among the user's entries; what a release no
\* longer declares need not be remembered.  Or the extension is not there at this
\* start, and is not asked what it declares: it is disabled, its manifest cannot
\* be read, it does not load or register, or what it depends on is missing.
Accepted(declared) == \A i \in declared \cap Items : disk.base[i] = "none"
Boot(declared, registered) ==
    /\ Reloaded([disk EXCEPT !.declared = declared], FALSE)
    /\ stage' = IF registered THEN "starting" ELSE "off"
Missed(told) ==
    CASE told = "mine" -> "was mine"
      [] told = "gone" -> "was gone"
      [] OTHER -> told
Restart ==
    /\ stage # "starting"
    /\ Counted
    /\ load' = <<>>
    /\ \/ \E declared \in {Shipped \cup Offered, {}} :
           /\ Accepted(declared)
           /\ Boot(declared, TRUE)
           /\ choice' = [i \in Items |->
                 IF i \in (Shipped \cup Offered) \ declared THEN "any" ELSE choice[i]]
       \/ /\ Boot({}, FALSE)
          /\ choice' = [i \in Items |->
                 IF i \in Shipped \cup Offered THEN Missed(choice[i]) ELSE choice[i]]
    /\ UNCHANGED kind

\* The extension fails while running: its resources go at once.
ExtensionFails ==
    /\ Running
    /\ Bundles => load = <<>>
    /\ Counted
    /\ stage' = "off"
    /\ Reloaded(disk, FALSE)
    /\ UNCHANGED <<kind, load, choice>>

\* A reload on demand, or for agent definitions after an edit of the file.  What
\* it reads is stored some time later.
BeginReload ==
    /\ stage # "starting"
    /\ kind # "prompt"
    /\ load = <<>>
    /\ Counted
    /\ load' = <<Resolved(disk, Running)>>
    /\ UNCHANGED <<kind, stage, disk, memory, index, choice>>

EndReload ==
    /\ load # <<>>
    /\ Loaded(load[1], disk, Running)
    /\ load' = <<>>
    /\ UNCHANGED <<kind, stage, choice, calls>>

-----------------------------------------------------------------------------
\* Calls.  A save may fail: what the manager holds has changed all the same.

\* What may be said of item i after a call that should leave it as "claim": it
\* can be lost when a reload is about to store what it read before; and of what
\* an extension may ship only if it runs and ships it.
Claim(i, claim, ok) ==
    IF ok /\ load = <<>> /\ (i \in Shipped \cup Offered => Running /\ i \in Layered(disk)) THEN claim ELSE "any"

\* The manager holds a new value for i and saves all it holds; prompts and
\* phrases are not held: each call reads the files, changes and writes them.
Put(i, value, claim) ==
    \E ok \in BOOLEAN :
        /\ memory' = IF kind = "prompt" /\ ~ok THEN memory ELSE [memory EXCEPT ![i] = value]
        /\ disk' = IF ok THEN Saved(disk, memory', Running) ELSE disk
        /\ choice' = [choice EXCEPT ![i] = Claim(i, claim, ok)]

\* A call of a tool comes at any time once all is started; one of a route not in
\* the middle of what the event loop does.
Tool(k) == kind = k /\ stage # "starting" /\ Counted
Route(k) == Tool(k) /\ (Bundles => load = <<>>)

\* Settings: enabled or not, for workflows only, injected, its groups.  Routes
\* look for the resource first, but the one for groups does not.
SetSkill(i) == i \in index /\ Put(i, "mine", "mine")
AssignSkill(i) == i \in index /\ Put(i, "mine", "mine")
SetGroups(i) == i \in Ids /\ Put(i, "mine", "mine")
SetRule(i) == i \in index /\ Put(i, "mine", "mine")
SetRuleGroups(i) == i \in Ids /\ Put(i, "mine", "mine")

\* A new bundle.  The manager of skills knows it even when it was not written;
\* the route leaves its entry to the next reload.
Created(i, written) ==
    /\ index' = index \cup {i}
    /\ disk' = [disk EXCEPT !.bundles = IF written THEN @ \cup {i} ELSE @]
CreateSkill(i) ==
    /\ i \in Own \ index
    /\ \E written \in BOOLEAN : Created(i, written)
    /\ UNCHANGED <<memory, choice>>
CreateRule(i) ==
    /\ i \in Own \ index
    /\ Created(i, TRUE)
    /\ UNCHANGED <<memory, choice>>

\* The tools go on to the entry: the one for skills makes sure of it and sets it
\* to the start, the one for rules has the manager brought in line with a
\* directory of this rule alone.
ToolCreatesSkill(i) ==
    /\ i \in Own \ index
    /\ memory' = [memory EXCEPT ![i] = "plain"]
    /\ choice' = [choice EXCEPT ![i] = "any"]
    /\ index' = index \cup {i}
    /\ \E written \in BOOLEAN :
        disk' = Saved([disk EXCEPT !.bundles = IF written THEN @ \cup {i} ELSE @], memory', Running)
ToolCreatesRule(i) ==
    /\ i \in Own \ index
    /\ memory' = RuleSync(memory, {i})
    /\ index' = index \cup {i}
    /\ disk' = Saved([disk EXCEPT !.bundles = @ \cup {i}], memory', Running)
    /\ UNCHANGED choice

\* A bundle is removed; those of extensions are read-only.  A skill's entry goes
\* too if a tool did it, a rule's in any case.
Removable(i) == i \in index \cap Own \cap disk.bundles
Removed(i) ==
    /\ index' = index \ {i}
    /\ choice' = [choice EXCEPT ![i] = "any"]
DeleteSkill(i) ==
    /\ Removable(i)
    /\ Removed(i)
    /\ disk' = [disk EXCEPT !.bundles = @ \ {i}]
    /\ UNCHANGED memory
ToolDeletesSkill(i) ==
    /\ Removable(i)
    /\ Removed(i)
    /\ memory' = [memory EXCEPT ![i] = "none"]
    /\ disk' = Saved([disk EXCEPT !.bundles = @ \ {i}], memory', Running)
DeleteRule(i) ==
    /\ Removable(i)
    /\ Removed(i)
    /\ memory' = [memory EXCEPT ![i] = "none"]
    /\ disk' = Saved([disk EXCEPT !.bundles = @ \ {i}], memory', Running)

\* Groups of skills or of rules.
CreateGroup(g) == g \in Entries /\ memory[g] = "none" /\ Put(g, "mine", "mine")
UpdateGroup(g) == g \in Entries /\ memory[g] # "none" /\ Put(g, "mine", "mine")
DeleteGroup(g) == g \in Entries /\ memory[g] # "none" /\ Put(g, "none", "gone")
Regroup(i) == i \in index /\ (\E g \in Entries : memory[g] # "none") /\ Put(i, "mine", "mine")
SkillGroups(i) == CreateGroup(i) \/ UpdateGroup(i) \/ DeleteGroup(i)
RuleGroups(i) == CreateGroup(i) \/ UpdateGroup(i) \/ DeleteGroup(i)

SkillCalls ==
    \/ Route("skill") /\ (\E i \in Ids : CreateSkill(i) \/ DeleteSkill(i))
    \/ Route("skill") /\ (\E i \in Items : SetSkill(i) \/ AssignSkill(i) \/ SetGroups(i) \/ SkillGroups(i)) /\ UNCHANGED index
SkillTool == Tool("skill") /\ (\E i \in Ids : ToolCreatesSkill(i) \/ ToolDeletesSkill(i))
SkillGroupTool == Tool("skill") /\ (\E i \in Items : SkillGroups(i) \/ Regroup(i)) /\ UNCHANGED index
RuleCalls ==
    \/ Route("rule") /\ (\E i \in Ids : CreateRule(i) \/ DeleteRule(i))
    \/ Route("rule") /\ (\E i \in Items : SetRule(i) \/ SetRuleGroups(i) \/ RuleGroups(i)) /\ UNCHANGED index
RuleTool == Tool("rule") /\ (\E i \in Ids : ToolCreatesRule(i) \/ DeleteRule(i))
RuleGroupTool == Tool("rule") /\ (\E i \in Items : RuleGroups(i) \/ Regroup(i)) /\ UNCHANGED index

\* Agent definitions: an update makes one that is not there.
UpdateAgent(i) == Put(i, "mine", "mine")
AddAgent(i) == memory[i] = "none" /\ Put(i, "mine", "mine")
DeleteAgent(i) == memory[i] # "none" /\ Put(i, "none", "gone")
AgentCalls ==
    /\ Route("agent")
    /\ \E i \in Items : UpdateAgent(i) \/ AddAgent(i) \/ DeleteAgent(i)
    /\ UNCHANGED index

\* The sections of a prompt, its preambles and variables; phrases.
ChangePrompt(i) == memory[i] # "none" /\ Put(i, "mine", "mine")
CreatePhrase(i) == memory[i] = "none" /\ Put(i, "mine", "mine")
DeletePrompt(i) == memory[i] # "none" /\ Put(i, "none", "gone")
PromptCalls ==
    /\ Route("prompt")
    /\ \E i \in Items : ChangePrompt(i) \/ CreatePhrase(i) \/ DeletePrompt(i)
    /\ UNCHANGED index

Calls ==
    /\ SkillCalls \/ SkillTool \/ SkillGroupTool \/ RuleCalls \/ RuleTool \/ RuleGroupTool
       \/ AgentCalls \/ PromptCalls
    /\ UNCHANGED <<kind, stage, load>>

Next == StartUp \/ Restart \/ ExtensionFails \/ BeginReload \/ EndReload \/ Calls

Spec == Init /\ [][Next]_vars

-----------------------------------------------------------------------------
\* A file has a section for bundles and others for what has none; the user's
\* bundles and the extension's are told apart by their owner.
NamedApart == First \subseteq Own /\ Own \cap Shipped = {} /\ Ids \cap Entries = {}

\* The variables have their types; what the extension declares is never also
\* among the user's own entries.
TypeOK ==
    /\ NamedApart
    /\ kind \in Kinds
    /\ stage \in {"starting", "on", "off"}
    /\ memory \in [Items -> Values]
    /\ disk.base \in [Items -> Values]
    /\ disk.over \in [Items -> {"unset", "deleted", "plain", "mine"}]
    /\ disk.bundles \subseteq Own
    /\ index \subseteq Ids
    /\ \A i \in Layered(disk) \cap Items : disk.base[i] = "none"

\* What the last caller was told holds whenever the extension runs, starts of the
\* program without it included (docs/architecture.md: when an extension is
\* switched off, overrides are kept and come back with it).
SettingsSurvive ==
    stage = "on" => \A i \in Items :
        /\ choice[i] \in {"mine", "was mine"} => memory[i] = "mine"
        /\ choice[i] \in {"gone", "was gone"} => memory[i] = "none"

\* What the last caller was told holds whenever the extension runs: through saves
\* by others, failed saves, reloads, restarts, failures while it runs and new
\* releases.  Excused are the entries of rules, which their manager removes, and,
\* of what the extension ships, what was decided before the program was last
\* started without it: the saves of such a run drop the overrides.
ChoicesSurvive ==
    stage = "on" => \A i \in IF kind = "rule" THEN Entries ELSE Items :
        /\ choice[i] = "mine" => memory[i] = "mine"
        /\ choice[i] = "gone" => memory[i] = "none"
==============================================================================
