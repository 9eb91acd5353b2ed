----------------------------- MODULE ToolRules ------------------------------
(***************************************************************************)
(* Which tool calls an instance may make: the rules its configuration      *)
(* declares, what computeEffectiveTools keeps of them under its parent,    *)
(* how a proxy tool checks a call, what a skill adds for a session, and    *)
(* how a changed agent definition or instance configuration is pushed to a *)
(* running instance while its language model is created outside the lock.  *)
(*                                                                         *)
(* A pattern is the set of commands it matches (Wildcard has the matcher); *)
(* a call of a shell tool is the set of simple commands that were found in *)
(* it and whether the analysis was uncertain.                              *)
(***************************************************************************)
EXTENDS Integers, FiniteSets

CONSTANTS
    ShellTool, FileTool,    \* two remote tools, the first with patterns
    Commands,               \* the commands patterns tell apart
    Models,                 \* language models
    MaxChanges              \* bound on configuration changes and skills

ASSUME RulesAssumption == ShellTool # FileTool /\ Models # {} /\ MaxChanges \in Nat

Whole == {}                 \* Rule.Pattern of a whole-tool rule
RemoteTools == {ShellTool, FileTool}
Structural == "SpawnInstance"

\* ParseRule's results: an empty pattern inside parentheses is an error.
Rules == [tool : {ShellTool}, pattern : {Whole} \cup {{c} : c \in Commands}]
           \cup [tool : {FileTool}, pattern : {Whole}]

IsWholeTool(r) == r.pattern = Whole

\* The declarations of an instance's config file.
Configs == [allow : {S \in SUBSET Rules : Cardinality(S) <= 2},
            deny : {S \in SUBSET Rules : Cardinality(S) <= 1}]

Calls == [tool : {ShellTool}, cmds : SUBSET Commands, uncertain : BOOLEAN]
           \cup [tool : {FileTool}, cmds : {{}}, uncertain : {FALSE}]

-----------------------------------------------------------------------------
(* Checking a call.                                                        *)

\* matchResult with bashMatch: one matching command suffices, and a command
\* that cannot be analysed is uncertain for every pattern it does not match.
MatchResult(r, call) ==
    IF r.tool # call.tool THEN "no"
    ELSE IF IsWholeTool(r) \/ r.pattern \cap call.cmds # {} THEN "match"
    ELSE IF call.uncertain THEN "uncertain"
    ELSE "no"

\* Checker.Check: deny rules first, uncertainty fails closed.
Check(call, allow, deny) ==
    LET Deny(x) == \E r \in deny : MatchResult(r, call) = x
        Allow(x) == \E r \in allow : MatchResult(r, call) = x
    IN  IF Deny("match") THEN "denied"
        ELSE IF Deny("uncertain") \/ Allow("uncertain") THEN "review"
        ELSE IF Allow("match") THEN "allowed"
        ELSE IF \E r \in allow : r.tool = call.tool THEN "denied"
        ELSE "unmatched"

\* proxyTool.checkRules: no deny rule and every allow layer.
CheckRules(call, layers, deny) ==
    /\ Check(call, {}, deny) \notin {"denied", "review"}
    /\ \A l \in layers : Check(call, l, {}) \notin {"denied", "review"}

\* What the rules of an instance permit, before any skill.
Permits(eff, call) == call.tool \in eff.tools /\ CheckRules(call, eff.layers, eff.deny)

-----------------------------------------------------------------------------
(* computeEffectiveTools.                                                  *)

FilterRules(S, tools) == {r \in S : r.tool \in tools}

\* stripRedundantWholeToolRules: patterns of a tool replace its whole grant.
StripRedundant(S) ==
    {r \in S : IsWholeTool(r) => \A q \in S : q.tool = r.tool => IsWholeTool(q)}

HasParameterized(S) == \E r \in S : ~IsWholeTool(r)

Nothing == [tools |-> {}, layers |-> {}, deny |-> {}]
NoParent == [tools |-> RemoteTools, layers |-> {}, deny |-> {}]

\* Mutant of IntersectParent: the child does not inherit the layers of its parent.
IntersectParentNamesOnly(own, up) ==
    [tools |-> own.tools \cap up.tools, layers |-> own.layers,
     deny |-> own.deny \cup up.deny]

\* intersectParentRules: names are intersected, rules are inherited; a parent
\* that is missing or has no tools yet leaves the child none.
IntersectParent(own, up) ==
    [tools |-> own.tools \cap up.tools, layers |-> own.layers \cup up.layers,
     deny |-> own.deny \cup up.deny]

EffectiveTools(cfg, up) ==
    LET own == [tools |-> {r.tool : r \in cfg.allow},
                layers |-> IF HasParameterized(cfg.allow) THEN {cfg.allow} ELSE {},
                deny |-> cfg.deny]
        met == IntersectParent(own, up)
        kept == met.tools \ {r.tool : r \in {d \in met.deny : IsWholeTool(d)}}
    IN  [tools |-> kept,
         layers |-> {StripRedundant(FilterRules(l, met.tools)) : l \in met.layers},
         deny |-> FilterRules(met.deny, kept)]

\* buildAllowedToolsMap: what every instance gets whatever it declares.
AllowedTools(eff) == eff.tools \cup {Structural}

-----------------------------------------------------------------------------
VARIABLES
    config,     \* the instances' config files: "parent" and "child"
    eff,        \* effectiveTools, allowLayers and denyRules of each
    started,    \* the instances that run
    proxies,    \* the child's loop: a proxy tool is [tool, layers, deny]
    skillLayer, \* Loop.skillAllowLayer
    model,      \* info.Model of the child
    gen,        \* configGen
    push,       \* the pushConfigToInstance under way for the child
    update,     \* the UpdateInstanceConfig under way for the child
    changes

rulesVars == <<config, eff, started, proxies, skillLayer, model, gen, push,
               update, changes>>

Family == {"parent", "child"}
NoPush == [pc |-> "none", model |-> CHOOSE m \in Models : TRUE, gen |-> 0,
           overtaken |-> FALSE]
NoUpdate == [pc |-> "none", model |-> CHOOSE m \in Models : TRUE]

\* buildProxyTools of NewLoop and UpdateToolRules.
BuildProxies(e) ==
    {[tool |-> t, layers |-> e.layers, deny |-> e.deny] :
        t \in RemoteTools \cap AllowedTools(e)}

EffRecs == [tools : SUBSET RemoteTools, layers : SUBSET SUBSET Rules, deny : SUBSET Rules]
ProxyRecs == [tool : RemoteTools, layers : SUBSET SUBSET Rules, deny : SUBSET Rules]
PushRecs == [pc : {"none", "creating"}, model : Models, gen : Nat, overtaken : BOOLEAN]
UpdateRecs == [pc : {"none", "creating"}, model : Models]

RulesTypeOK ==
    /\ config \in [Family -> Configs]
    /\ eff \in [Family -> EffRecs]
    /\ started \subseteq Family /\ proxies \subseteq ProxyRecs
    /\ skillLayer \subseteq Rules
    /\ model \in Models /\ gen \in Nat
    /\ push \in PushRecs /\ update \in UpdateRecs
    /\ changes \in 0..MaxChanges

\* Any declarations; deny rules come with the updates, to bound the states.
RulesInit ==
    /\ config \in [Family -> {c \in Configs : c.deny = {}}]
    /\ eff = [i \in Family |-> Nothing]
    /\ started = {} /\ proxies = {} /\ skillLayer = {}
    /\ model = CHOOSE m \in Models : TRUE
    /\ gen = 0 /\ push = NoPush /\ update = NoUpdate /\ changes = 0

ConfigChanges == changes < MaxChanges /\ changes' = changes + 1

\* The rules the child is computed under: those its parent has at this moment.
ParentOf(i) == IF i = "parent" THEN NoParent ELSE eff["parent"]

\* startInstance computes the rules and builds the loop with them.
StartWithRules(i) ==
    /\ i \notin started
    /\ started' = started \cup {i}
    /\ eff' = [eff EXCEPT ![i] = EffectiveTools(config[i], ParentOf(i))]
    /\ proxies' = IF i = "child" THEN BuildProxies(eff'[i]) ELSE proxies
    /\ skillLayer' = IF i = "child" THEN {} ELSE skillLayer
    /\ UNCHANGED <<config, model, gen, push, update, changes>>

\* softStop keeps the rules of the stopped instance in the registry.
StopWithRules(i) ==
    /\ i \in started /\ ConfigChanges
    /\ started' = started \ {i}
    /\ UNCHANGED <<config, eff, proxies, skillLayer, model, gen, push, update>>

\* Everything that hands the child new rules: UpdateToolRules drops what
\* skills had added.
ApplyRules(i, cfg) ==
    /\ eff' = [eff EXCEPT ![i] = EffectiveTools(cfg, ParentOf(i))]
    /\ proxies' = IF i = "child" THEN BuildProxies(eff'[i]) ELSE proxies
    /\ skillLayer' = IF i = "child" THEN {} ELSE skillLayer

\* UpdateInstanceConfig with new tools (applyToolOverrides, persist); for a
\* stopped instance UpdateStoppedInstanceConfig only writes the file.
UpdateTools(i, cfg) ==
    /\ ConfigChanges /\ cfg # config[i]
    /\ config' = [config EXCEPT ![i] = cfg]
    /\ IF i \in started
       THEN /\ ApplyRules(i, cfg)
            /\ gen' = IF i = "child" THEN gen + 1 ELSE gen
            /\ push' = [push EXCEPT !.overtaken = @ \/ i = "child"]
       ELSE UNCHANGED <<eff, proxies, skillLayer, gen, push>>
    /\ UNCHANGED <<started, model, update>>

\* UpdateInstanceConfig with a model: created before the lock is taken.
BeginUpdateModel(m) ==
    /\ update = NoUpdate /\ "child" \in started /\ ConfigChanges
    /\ update' = [pc |-> "creating", model |-> m]
    /\ UNCHANGED <<config, eff, started, proxies, skillLayer, model, gen, push>>

\* The rest of it: a stopped instance refuses.
CommitUpdateModel ==
    /\ update.pc = "creating"
    /\ update' = NoUpdate
    /\ IF "child" \in started
       THEN /\ model' = update.model
            /\ gen' = gen + 1
            /\ push' = [push EXCEPT !.overtaken = TRUE]
       ELSE UNCHANGED <<model, gen, push>>
    /\ UNCHANGED <<config, eff, started, proxies, skillLayer, changes>>

\* pushConfigUpdate after an edit of agent.md or config.yaml, and the first
\* locked part of pushConfigToInstance.
BeginPush(m) ==
    /\ push.pc = "none" /\ "child" \in started /\ ConfigChanges
    /\ push' = [pc |-> "creating", model |-> m, gen |-> gen, overtaken |-> FALSE]
    /\ UNCHANGED <<config, eff, started, proxies, skillLayer, model, gen, update>>

\* Mutant of PushModel: the generation is not compared.
PushModelAlways == push.model

\* The model a push leaves: its own unless another update landed meanwhile.
PushModel == IF gen = push.gen THEN push.model ELSE model

\* The second locked part, with pushToolsAndModel.
CommitPush ==
    /\ push.pc = "creating"
    /\ push' = NoPush
    /\ IF "child" \in started
       THEN /\ ApplyRules("child", config["child"])
            /\ model' \in {model, PushModel}      \* CreateLanguageModel may fail
            /\ gen' = gen + 1
       ELSE UNCHANGED <<eff, proxies, skillLayer, model, gen>>
    /\ UNCHANGED <<config, started, update, changes>>

\* addSkillProxyTools: only the new tools get the combined layers.
AddSkillProxies(new, layer) ==
    proxies \cup {[tool |-> t, layers |-> eff["child"].layers \cup {layer},
                   deny |-> eff["child"].deny] : t \in new}

\* expandToolsForSkill with filterNewTools, when the model uses a skill.
UseSkill(rules) ==
    LET have == {p.tool : p \in proxies}
        denied == {r.tool : r \in {d \in eff["child"].deny : IsWholeTool(d)}}
        new == ({r.tool : r \in rules} \cap RemoteTools) \ (have \cup denied)
    IN  /\ "child" \in started /\ ConfigChanges
        /\ new # {}
        /\ skillLayer' = skillLayer \cup rules
        /\ proxies' = AddSkillProxies(new, skillLayer')
        /\ UNCHANGED <<config, eff, started, model, gen, push, update>>

RulesNext ==
    \/ \E i \in Family : StartWithRules(i) \/ StopWithRules(i)
    \/ \E i \in Family, cfg \in Configs : UpdateTools(i, cfg)
    \/ \E m \in Models : BeginUpdateModel(m) \/ BeginPush(m)
    \/ CommitUpdateModel \/ CommitPush
    \/ \E rules \in SUBSET Rules : Cardinality(rules) <= 2 /\ UseSkill(rules)

RulesSpec == RulesInit /\ [][RulesNext]_rulesVars

-----------------------------------------------------------------------------
(* What the rules promise.                                                 *)

\* Whenever rules are computed for the child, its declarations, deny rules
\* and the stripping of redundant grants never yield a call that its parent
\* could not make at that moment ("child can't have more tools than parent",
\* manager_resolve.go, computeEffectiveTools).
ChildWithinParent ==
    [][eff'["child"] # eff["child"] =>
         \A call \in Calls : Permits(eff'["child"], call) => Permits(eff["parent"], call)
      ]_rulesVars

\* A push whose model was being created when another update landed leaves the
\* model that update chose (manager_session.go, pushConfigToInstance).
OvertakenPushKeepsModel ==
    [][push.pc = "creating" /\ push.overtaken /\ push'.pc = "none" => model' = model]_rulesVars

=============================================================================
