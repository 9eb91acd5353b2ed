----------------------------- MODULE TreeProofs -----------------------------
(***************************************************************************)
(* Proofs about the agent instances of a Manager: what a child may do      *)
(* under its parent (ToolRules), the tree while operations overlap         *)
(* (InstanceTree) and what an agent is told of its surroundings            *)
(* (ContextDeltas), for every set of rules, commands, instances,           *)
(* goroutines and names and every bound.                                   *)
(***************************************************************************)
EXTENDS ToolRules, InstanceTree, ContextDeltas, FiniteSetTheorems, TLAPS

(***************************************************************************)
(* Tool rules.  A layer the parent has is still there for the child, cut   *)
(* to the tools both have and without redundant grants; neither makes it   *)
(* accept a call it refused.                                               *)
(***************************************************************************)
Passes(call, allow, deny) == Check(call, allow, deny) \notin {"denied", "review"}

\* What passing a layer, and a set of deny rules, means.
LEMMA PassesLayer ==
    ASSUME NEW call, NEW l
    PROVE  Passes(call, l, {}) <=>
             /\ \A r \in l : MatchResult(r, call) # "uncertain"
             /\ \/ \E r \in l : MatchResult(r, call) = "match"
                \/ \A r \in l : r.tool # call.tool
BY DEF Passes, Check

LEMMA PassesDeny ==
    ASSUME NEW call, NEW d
    PROVE  Passes(call, {}, d) <=> \A r \in d : MatchResult(r, call) \notin {"match", "uncertain"}
BY DEF Passes, Check

\* A stripped layer accepts no more than the layer itself.
LEMMA StrippedLayer ==
    ASSUME NEW call, NEW l, NEW avail, call.tool \in avail,
           Passes(call, StripRedundant(FilterRules(l, avail)), {})
    PROVE  Passes(call, l, {})
<1> DEFINE k == StripRedundant(FilterRules(l, avail))
<1>1. k \subseteq l
  BY DEF StripRedundant, FilterRules
<1>2. \A r \in l : r.tool = call.tool /\ ~IsWholeTool(r) => r \in k
  BY DEF StripRedundant, FilterRules
<1>3. ASSUME NEW r \in l, r.tool = call.tool PROVE \E q \in k : q.tool = call.tool
  <2>1. CASE \E q \in l : q.tool = call.tool /\ ~IsWholeTool(q)
    BY <1>2, <2>1
  <2>2. CASE \A q \in l : q.tool = call.tool => IsWholeTool(q)
    <3>1. r \in k
      BY <1>3, <2>2 DEF StripRedundant, FilterRules
    <3> QED BY <1>3, <3>1
  <2> QED BY <2>1, <2>2
<1>4. ASSUME NEW r \in l, MatchResult(r, call) = "uncertain" PROVE r \in k
  BY <1>2, <1>4 DEF MatchResult
<1> HIDE DEF k
<1>5. /\ \A r \in k : MatchResult(r, call) # "uncertain"
      /\ \/ \E r \in k : MatchResult(r, call) = "match"
         \/ \A r \in k : r.tool # call.tool
  BY PassesLayer DEF k
<1>6. /\ \A r \in l : MatchResult(r, call) # "uncertain"
      /\ \/ \E r \in l : MatchResult(r, call) = "match"
         \/ \A r \in l : r.tool # call.tool
  BY <1>1, <1>3, <1>4, <1>5
<1> QED BY <1>6, PassesLayer

\* Deny rules of tools the child lacks anyway may go.
LEMMA FilteredDeny ==
    ASSUME NEW call, NEW d, NEW e, d \subseteq e, NEW avail, call.tool \in avail,
           Passes(call, {}, FilterRules(e, avail))
    PROVE  Passes(call, {}, d)
<1>1. ASSUME NEW r \in d PROVE MatchResult(r, call) \notin {"match", "uncertain"}
  <2>1. CASE r.tool = call.tool
    <3>1. r \in FilterRules(e, avail)
      BY <2>1 DEF FilterRules
    <3> QED BY <3>1, PassesDeny
  <2>2. CASE r.tool # call.tool
    BY <2>2 DEF MatchResult
  <2> QED BY <2>1, <2>2
<1> QED BY <1>1, PassesDeny

\* computeEffectiveTools never permits a call the parent's rules refuse.
LEMMA EffectiveWithin ==
    ASSUME NEW cfg, NEW up, NEW call, Permits(EffectiveTools(cfg, up), call)
    PROVE  Permits(up, call)
<1> DEFINE own == [tools |-> {r.tool : r \in cfg.allow},
                   layers |-> IF HasParameterized(cfg.allow) THEN {cfg.allow} ELSE {},
                   deny |-> cfg.deny]
           met == IntersectParent(own, up)
           rest == met.tools \ {r.tool : r \in {d \in met.deny : IsWholeTool(d)}}
           e == EffectiveTools(cfg, up)
<1>1. /\ e.tools = rest /\ e.deny = FilterRules(met.deny, rest)
      /\ e.layers = {StripRedundant(FilterRules(l, met.tools)) : l \in met.layers}
  BY DEF EffectiveTools
<1>2. /\ met.tools \subseteq up.tools /\ up.layers \subseteq met.layers /\ up.deny \subseteq met.deny
      /\ rest \subseteq met.tools
  BY DEF IntersectParent
<1>3. call.tool \in e.tools /\ Passes(call, {}, e.deny) /\ \A l \in e.layers : Passes(call, l, {})
  BY DEF Permits, CheckRules, Passes
<1> HIDE DEF own, met, rest, e
<1>4. call.tool \in met.tools /\ call.tool \in up.tools
  BY <1>1, <1>2, <1>3
<1>5. Passes(call, {}, up.deny)
  BY <1>1, <1>2, <1>3, FilteredDeny
<1>6. ASSUME NEW l \in up.layers PROVE Passes(call, l, {})
  <2>1. StripRedundant(FilterRules(l, met.tools)) \in e.layers
    BY <1>1, <1>2
  <2> QED BY <1>3, <1>4, <2>1, StrippedLayer
<1> QED BY <1>4, <1>5, <1>6 DEF Permits, CheckRules, Passes

\* A push remembers a generation that was current, and an old one if overtaken.
PushIsOld == push.gen <= gen /\ (push.pc = "creating" /\ push.overtaken => push.gen < gen)
RulesInv == RulesTypeOK /\ PushIsOld

LEMMA EffectiveType ==
    ASSUME NEW cfg \in Configs, NEW up \in EffRecs
    PROVE  EffectiveTools(cfg, up) \in EffRecs
<1> DEFINE own == [tools |-> {r.tool : r \in cfg.allow},
                   layers |-> IF HasParameterized(cfg.allow) THEN {cfg.allow} ELSE {},
                   deny |-> cfg.deny]
           met == IntersectParent(own, up)
           rest == met.tools \ {r.tool : r \in {d \in met.deny : IsWholeTool(d)}}
<1>1. cfg.allow \subseteq Rules /\ cfg.deny \subseteq Rules
  BY DEF Configs
<1>2. up.tools \subseteq RemoteTools /\ up.layers \in SUBSET SUBSET Rules /\ up.deny \subseteq Rules
  BY DEF EffRecs
<1>3. /\ met.tools \subseteq RemoteTools /\ met.deny \subseteq Rules
      /\ \A l \in met.layers : l \subseteq Rules
  BY <1>1, <1>2 DEF IntersectParent
<1>4. \A l : l \subseteq Rules => StripRedundant(FilterRules(l, met.tools)) \subseteq Rules
  BY DEF StripRedundant, FilterRules
<1>5. /\ rest \subseteq RemoteTools /\ FilterRules(met.deny, rest) \subseteq Rules
  BY <1>3 DEF FilterRules
<1>6. EffectiveTools(cfg, up) =
        [tools |-> rest, layers |-> {StripRedundant(FilterRules(l, met.tools)) : l \in met.layers},
         deny |-> FilterRules(met.deny, rest)]
  BY DEF EffectiveTools
<1> HIDE DEF own, met, rest
<1>7. {StripRedundant(FilterRules(l, met.tools)) : l \in met.layers} \in SUBSET SUBSET Rules
  BY <1>3, <1>4
<1> QED BY <1>5, <1>6, <1>7 DEF EffRecs

LEMMA ProxiesType ==
    ASSUME NEW e \in EffRecs
    PROVE  BuildProxies(e) \subseteq ProxyRecs
BY DEF BuildProxies, EffRecs, ProxyRecs

\* startInstance and ApplyRules: one of the two gets the rules of cfg.
LEMMA RulesGiven ==
    ASSUME RulesTypeOK, NEW i \in Family, NEW cfg \in Configs,
           eff' = [eff EXCEPT ![i] = EffectiveTools(cfg, ParentOf(i))],
           proxies' = IF i = "child" THEN BuildProxies(eff'[i]) ELSE proxies,
           skillLayer' = IF i = "child" THEN {} ELSE skillLayer
    PROVE  /\ eff' \in [Family -> EffRecs] /\ proxies' \subseteq ProxyRecs /\ skillLayer' \subseteq Rules
           /\ i = "child" => eff'["child"] = EffectiveTools(cfg, eff["parent"])
           /\ i # "child" => eff'["child"] = eff["child"]
<1>1. eff \in [Family -> EffRecs] /\ "child" \in Family /\ "parent" \in Family
  BY DEF RulesTypeOK, Family
<1>2. ParentOf(i) \in EffRecs
  BY <1>1 DEF ParentOf, NoParent, EffRecs
<1>3. EffectiveTools(cfg, ParentOf(i)) \in EffRecs
  BY <1>2, EffectiveType
<1>4. eff' \in [Family -> EffRecs] /\ eff'[i] \in EffRecs /\ eff'[i] = EffectiveTools(cfg, ParentOf(i))
  BY <1>1, <1>3
<1>5. proxies' \subseteq ProxyRecs /\ skillLayer' \subseteq Rules
  BY <1>4, ProxiesType DEF RulesTypeOK
<1>6. i = "child" => ParentOf(i) = eff["parent"]
  BY DEF ParentOf
<1>7. i # "child" => eff'["child"] = eff["child"]
  BY <1>1
<1> QED BY <1>4, <1>5, <1>6, <1>7

LEMMA PushUpdates ==
    ASSUME NEW p \in PushRecs
    PROVE  /\ \A b \in BOOLEAN : /\ [p EXCEPT !.overtaken = b] \in PushRecs
                                 /\ [p EXCEPT !.overtaken = b].gen = p.gen
                                 /\ [p EXCEPT !.overtaken = b].pc = p.pc
                                 /\ [p EXCEPT !.overtaken = b].overtaken = b
           /\ NoPush \in PushRecs /\ NoPush.gen = 0 /\ NoPush.pc = "none"
           /\ NoUpdate \in UpdateRecs
<1>1. (CHOOSE m \in Models : TRUE) \in Models
  BY RulesAssumption
<1> QED BY <1>1 DEF PushRecs, NoPush, NoUpdate, UpdateRecs

LEMMA RulesInvInit == RulesInit => RulesInv
<1> SUFFICES ASSUME RulesInit PROVE RulesInv
  OBVIOUS
<1>1. (CHOOSE m \in Models : TRUE) \in Models /\ MaxChanges \in Nat
  BY RulesAssumption
<1>2. push \in PushRecs /\ push.gen = 0 /\ push.pc = "none" /\ update \in UpdateRecs
  BY <1>1 DEF RulesInit, PushRecs, NoPush, NoUpdate, UpdateRecs
<1>3. Nothing \in EffRecs
  BY DEF Nothing, EffRecs
<1>4. eff \in [Family -> EffRecs]
  BY <1>3 DEF RulesInit
<1>5. config \in [Family -> Configs]
  BY DEF RulesInit
<1>6. model \in Models /\ gen = 0 /\ changes = 0 /\ started = {} /\ proxies = {} /\ skillLayer = {}
  BY <1>1 DEF RulesInit
<1>7. RulesTypeOK
  BY <1>1, <1>2, <1>4, <1>5, <1>6 DEF RulesTypeOK
<1> QED BY <1>2, <1>6, <1>7 DEF RulesInv, PushIsOld

\* What a step does to the child's rules and to a push under way.
ChildRules == \/ eff'["child"] = eff["child"]
              \/ \E cfg \in Configs : eff'["child"] = EffectiveTools(cfg, eff["parent"])
PushKept == push.pc = "creating" /\ push.overtaken /\ push'.pc = "none" => model' = model

LEMMA RulesStep == ASSUME RulesInv, RulesNext PROVE RulesInv' /\ ChildRules /\ PushKept
<1> USE RulesAssumption
<1>1. /\ RulesTypeOK /\ PushIsOld /\ config \in [Family -> Configs] /\ push \in PushRecs
      /\ update \in UpdateRecs /\ gen \in Nat /\ changes \in 0..MaxChanges /\ model \in Models
      /\ push.gen \in Nat /\ push.model \in Models /\ update.model \in Models
      /\ push.pc \in {"none", "creating"}
  BY DEF RulesInv, RulesTypeOK, PushRecs, UpdateRecs
<1>2. "child" \in Family /\ "parent" \in Family
  BY DEF Family
<1>3. ConfigChanges => changes' \in 0..MaxChanges
  BY <1>1 DEF ConfigChanges
<1>4. ASSUME NEW i \in Family, StartWithRules(i) PROVE RulesInv' /\ ChildRules /\ PushKept
  <2>1. /\ config' = config /\ model' = model /\ gen' = gen /\ push' = push /\ update' = update
        /\ changes' = changes /\ started' = started \cup {i} /\ config[i] \in Configs
        /\ eff' = [eff EXCEPT ![i] = EffectiveTools(config[i], ParentOf(i))]
        /\ proxies' = IF i = "child" THEN BuildProxies(eff'[i]) ELSE proxies
        /\ skillLayer' = IF i = "child" THEN {} ELSE skillLayer
    BY <1>1, <1>4 DEF StartWithRules
  <2>2. /\ eff' \in [Family -> EffRecs] /\ proxies' \subseteq ProxyRecs /\ skillLayer' \subseteq Rules
        /\ i = "child" => eff'["child"] = EffectiveTools(config[i], eff["parent"])
        /\ i # "child" => eff'["child"] = eff["child"]
    BY <1>1, <2>1, RulesGiven
  <2>3. RulesTypeOK' /\ PushIsOld'
    BY <1>1, <2>1, <2>2 DEF RulesTypeOK, PushIsOld
  <2> QED BY <2>1, <2>2, <2>3 DEF RulesInv, ChildRules, PushKept
<1>5. ASSUME NEW i \in Family, StopWithRules(i) PROVE RulesInv' /\ ChildRules /\ PushKept
  <2>1. /\ config' = config /\ model' = model /\ gen' = gen /\ push' = push /\ update' = update
        /\ started' = started \ {i} /\ eff' = eff /\ proxies' = proxies /\ skillLayer' = skillLayer
        /\ changes' \in 0..MaxChanges
    BY <1>3, <1>5 DEF StopWithRules
  <2>2. RulesTypeOK' /\ PushIsOld'
    BY <1>1, <2>1 DEF RulesTypeOK, PushIsOld
  <2> QED BY <2>1, <2>2 DEF RulesInv, ChildRules, PushKept
<1>6. ASSUME NEW i \in Family, NEW cfg \in Configs, UpdateTools(i, cfg)
      PROVE  RulesInv' /\ ChildRules /\ PushKept
  <2>1. /\ config' = [config EXCEPT ![i] = cfg] /\ model' = model /\ update' = update
        /\ started' = started /\ changes' \in 0..MaxChanges /\ config' \in [Family -> Configs]
    BY <1>1, <1>3, <1>6 DEF UpdateTools
  <2>2. CASE i \in started
    <3> DEFINE b == (push.overtaken \/ i = "child")
               p == [push EXCEPT !.overtaken = b]
    <3>1. /\ eff' = [eff EXCEPT ![i] = EffectiveTools(cfg, ParentOf(i))]
          /\ proxies' = IF i = "child" THEN BuildProxies(eff'[i]) ELSE proxies
          /\ skillLayer' = IF i = "child" THEN {} ELSE skillLayer
          /\ gen' = (IF i = "child" THEN gen + 1 ELSE gen) /\ push' = p
      BY <1>6, <2>2 DEF UpdateTools, ApplyRules
    <3>2. /\ eff' \in [Family -> EffRecs] /\ proxies' \subseteq ProxyRecs /\ skillLayer' \subseteq Rules
          /\ i = "child" => eff'["child"] = EffectiveTools(cfg, eff["parent"])
          /\ i # "child" => eff'["child"] = eff["child"]
      BY <1>1, <3>1, RulesGiven
    <3>3. b \in BOOLEAN /\ (i # "child" => b = push.overtaken)
      BY <1>1 DEF PushRecs
    <3> HIDE DEF b
    <3>4. p \in PushRecs /\ p.gen = push.gen /\ p.pc = push.pc /\ p.overtaken = b
      BY <1>1, <3>3, PushUpdates
    <3> HIDE DEF p
    <3>5. RulesTypeOK'
      BY <1>1, <2>1, <3>1, <3>2, <3>4 DEF RulesTypeOK
    <3>6. PushIsOld'
      <4>1. CASE i = "child"
        BY <1>1, <3>1, <3>4, <4>1 DEF PushIsOld
      <4>2. CASE i # "child"
        BY <1>1, <3>1, <3>3, <3>4, <4>2 DEF PushIsOld
      <4> QED BY <4>1, <4>2
    <3>7. ChildRules
      BY <3>2 DEF ChildRules
    <3>8. PushKept
      BY <2>1 DEF PushKept
    <3> QED BY <3>5, <3>6, <3>7, <3>8 DEF RulesInv
  <2>3. CASE i \notin started
    <3>1. eff' = eff /\ proxies' = proxies /\ skillLayer' = skillLayer /\ gen' = gen /\ push' = push
      BY <1>6, <2>3 DEF UpdateTools
    <3>2. RulesTypeOK' /\ PushIsOld'
      BY <1>1, <2>1, <3>1 DEF RulesTypeOK, PushIsOld
    <3> QED BY <2>1, <3>1, <3>2 DEF RulesInv, ChildRules, PushKept
  <2> QED BY <2>2, <2>3
<1>7. ASSUME NEW m \in Models, BeginUpdateModel(m) PROVE RulesInv' /\ ChildRules /\ PushKept
  <2>1. /\ config' = config /\ model' = model /\ gen' = gen /\ push' = push /\ started' = started
        /\ eff' = eff /\ proxies' = proxies /\ skillLayer' = skillLayer
        /\ changes' \in 0..MaxChanges /\ update' = [pc |-> "creating", model |-> m]
    BY <1>3, <1>7 DEF BeginUpdateModel
  <2>2. update' \in UpdateRecs
    BY <2>1 DEF UpdateRecs
  <2>3. RulesTypeOK' /\ PushIsOld'
    BY <1>1, <2>1, <2>2 DEF RulesTypeOK, PushIsOld
  <2> QED BY <2>1, <2>3 DEF RulesInv, ChildRules, PushKept
<1>8. ASSUME CommitUpdateModel PROVE RulesInv' /\ ChildRules /\ PushKept
  <2>1. /\ config' = config /\ started' = started /\ eff' = eff /\ proxies' = proxies
        /\ skillLayer' = skillLayer /\ changes' = changes /\ update' = NoUpdate
    BY <1>8 DEF CommitUpdateModel
  <2>2. update' \in UpdateRecs
    BY <1>1, <2>1, PushUpdates
  <2>3. CASE "child" \in started
    <3> DEFINE p == [push EXCEPT !.overtaken = TRUE]
    <3>1. model' = update.model /\ gen' = gen + 1 /\ push' = p
      BY <1>8, <2>3 DEF CommitUpdateModel
    <3>2. p \in PushRecs /\ p.gen = push.gen /\ p.pc = push.pc
      BY <1>1, PushUpdates
    <3> HIDE DEF p
    <3>3. RulesTypeOK'
      BY <1>1, <2>1, <2>2, <3>1, <3>2 DEF RulesTypeOK
    <3>4. PushIsOld'
      BY <1>1, <3>1, <3>2 DEF PushIsOld
    <3> QED BY <2>1, <3>1, <3>2, <3>3, <3>4 DEF RulesInv, ChildRules, PushKept
  <2>4. CASE "child" \notin started
    <3>1. model' = model /\ gen' = gen /\ push' = push
      BY <1>8, <2>4 DEF CommitUpdateModel
    <3>2. RulesTypeOK' /\ PushIsOld'
      BY <1>1, <2>1, <2>2, <3>1 DEF RulesTypeOK, PushIsOld
    <3> QED BY <2>1, <3>1, <3>2 DEF RulesInv, ChildRules, PushKept
  <2> QED BY <2>3, <2>4
<1>9. ASSUME NEW m \in Models, BeginPush(m) PROVE RulesInv' /\ ChildRules /\ PushKept
  <2>1. /\ config' = config /\ model' = model /\ gen' = gen /\ update' = update /\ started' = started
        /\ eff' = eff /\ proxies' = proxies /\ skillLayer' = skillLayer
        /\ changes' \in 0..MaxChanges
        /\ push' = [pc |-> "creating", model |-> m, gen |-> gen, overtaken |-> FALSE]
    BY <1>3, <1>9 DEF BeginPush
  <2>2. push' \in PushRecs /\ push'.gen = gen /\ ~push'.overtaken
    BY <1>1, <2>1 DEF PushRecs
  <2>3. RulesTypeOK' /\ PushIsOld'
    BY <1>1, <2>1, <2>2 DEF RulesTypeOK, PushIsOld
  <2> QED BY <2>1, <2>3 DEF RulesInv, ChildRules, PushKept
<1>10. ASSUME CommitPush PROVE RulesInv' /\ ChildRules /\ PushKept
  <2>1. /\ config' = config /\ started' = started /\ changes' = changes /\ update' = update
        /\ push' = NoPush /\ push.pc = "creating"
    BY <1>10 DEF CommitPush
  <2>2. push' \in PushRecs /\ push'.gen = 0 /\ push'.pc = "none"
    BY <1>1, <2>1, PushUpdates
  <2>3. CASE "child" \in started
    <3>1. /\ eff' = [eff EXCEPT !["child"] = EffectiveTools(config["child"], ParentOf("child"))]
          /\ proxies' = BuildProxies(eff'["child"]) /\ skillLayer' = {}
          /\ model' \in {model, PushModel} /\ gen' = gen + 1
      BY <1>10, <2>3 DEF CommitPush, ApplyRules
    <3>2. config["child"] \in Configs
      BY <1>1, <1>2
    <3>3. /\ eff' \in [Family -> EffRecs] /\ proxies' \subseteq ProxyRecs /\ skillLayer' \subseteq Rules
          /\ eff'["child"] = EffectiveTools(config["child"], eff["parent"])
      <4>1. PICK i \in Family : i = "child"
        BY <1>2
      <4>2. /\ eff' = [eff EXCEPT ![i] = EffectiveTools(config[i], ParentOf(i))]
            /\ proxies' = IF i = "child" THEN BuildProxies(eff'[i]) ELSE proxies
            /\ skillLayer' = IF i = "child" THEN {} ELSE skillLayer
            /\ config[i] \in Configs
        BY <3>1, <3>2, <4>1
      <4> QED BY <1>1, <4>1, <4>2, RulesGiven
    <3>4. model' \in Models /\ (push.overtaken => model' = model)
      BY <1>1, <2>1, <3>1 DEF PushModel, PushIsOld
    <3>5. RulesTypeOK'
      BY <1>1, <2>1, <2>2, <3>1, <3>3, <3>4 DEF RulesTypeOK
    <3>6. PushIsOld'
      BY <1>1, <2>2, <3>1 DEF PushIsOld
    <3> QED BY <3>2, <3>3, <3>4, <3>5, <3>6 DEF RulesInv, ChildRules, PushKept
  <2>4. CASE "child" \notin started
    <3>1. /\ eff' = eff /\ proxies' = proxies /\ skillLayer' = skillLayer /\ model' = model
          /\ gen' = gen
      BY <1>10, <2>4 DEF CommitPush
    <3>2. RulesTypeOK' /\ PushIsOld'
      BY <1>1, <2>1, <2>2, <3>1 DEF RulesTypeOK, PushIsOld
    <3> QED BY <2>1, <3>1, <3>2 DEF RulesInv, ChildRules, PushKept
  <2> QED BY <2>3, <2>4
<1>11. ASSUME NEW rules \in SUBSET Rules, UseSkill(rules) PROVE RulesInv' /\ ChildRules /\ PushKept
  <2>1. /\ config' = config /\ model' = model /\ gen' = gen /\ push' = push /\ started' = started
        /\ update' = update /\ eff' = eff /\ changes' \in 0..MaxChanges
        /\ skillLayer' = skillLayer \cup rules
    BY <1>3, <1>11 DEF UseSkill
  <2>2. PICK new : new \subseteq RemoteTools /\ proxies' = AddSkillProxies(new, skillLayer')
    BY <1>11 DEF UseSkill
  <2>3. skillLayer' \subseteq Rules /\ eff["child"] \in EffRecs /\ proxies \subseteq ProxyRecs
    BY <1>1, <1>2, <2>1 DEF RulesTypeOK
  <2>4. /\ eff["child"].layers \cup {skillLayer'} \in SUBSET SUBSET Rules
        /\ eff["child"].deny \in SUBSET Rules
    BY <2>3 DEF EffRecs
  <2>5. proxies' \subseteq ProxyRecs
    BY <2>2, <2>3, <2>4 DEF AddSkillProxies, ProxyRecs
  <2>6. RulesTypeOK' /\ PushIsOld'
    BY <1>1, <2>1, <2>3, <2>5 DEF RulesTypeOK, PushIsOld
  <2> QED BY <2>1, <2>6 DEF RulesInv, ChildRules, PushKept
<1> QED BY <1>4, <1>5, <1>6, <1>7, <1>8, <1>9, <1>10, <1>11 DEF RulesNext

LEMMA RulesInvNext ==
    ASSUME RulesInv, [RulesNext]_rulesVars
    PROVE  RulesInv' /\ ChildRules /\ PushKept
<1>1. CASE RulesNext
  BY <1>1, RulesStep
<1>2. CASE UNCHANGED rulesVars
  <2>1. /\ config' = config /\ model' = model /\ gen' = gen /\ push' = push /\ started' = started
        /\ update' = update /\ eff' = eff /\ changes' = changes /\ skillLayer' = skillLayer
        /\ proxies' = proxies
    BY <1>2 DEF rulesVars
  <2>2. RulesTypeOK' /\ PushIsOld'
    BY <2>1 DEF RulesInv, RulesTypeOK, PushIsOld
  <2> QED BY <2>1, <2>2 DEF RulesInv, ChildRules, PushKept
<1> QED BY <1>1, <1>2

\* Declarations, rules, proxies and the updates under way keep their types.
THEOREM RulesTypeCorrect == RulesSpec => []RulesTypeOK
<1>1. RulesInv /\ [RulesNext]_rulesVars => RulesInv'
  BY RulesInvNext
<1>2. RulesInv => RulesTypeOK
  BY DEF RulesInv
<1> QED BY <1>1, <1>2, RulesInvInit, PTL DEF RulesSpec

\* Rules computed for a child permit no call that its parent's rules refuse at
\* that moment (manager_resolve.go, computeEffectiveTools).
THEOREM ChildStaysWithinParent == RulesSpec => ChildWithinParent
<1>1. RulesInv /\ [RulesNext]_rulesVars => RulesInv'
  BY RulesInvNext
<1>2. RulesInv /\ [RulesNext]_rulesVars =>
        [eff'["child"] # eff["child"] =>
           \A call \in Calls : Permits(eff'["child"], call) => Permits(eff["parent"], call)]_rulesVars
  <2> SUFFICES ASSUME RulesInv, [RulesNext]_rulesVars, eff'["child"] # eff["child"], NEW call \in Calls,
                      Permits(eff'["child"], call)
               PROVE  Permits(eff["parent"], call)
    OBVIOUS
  <2>1. PICK cfg \in Configs : eff'["child"] = EffectiveTools(cfg, eff["parent"])
    BY RulesInvNext DEF ChildRules
  <2> QED BY <2>1, EffectiveWithin
<1> QED BY <1>1, <1>2, RulesInvInit, PTL DEF RulesSpec, ChildWithinParent

\* A push that was overtaken leaves the model the other update chose
\* (manager_session.go, pushConfigToInstance: the generation is compared).
THEOREM OvertakenPushYields == RulesSpec => OvertakenPushKeepsModel
<1>1. RulesInv /\ [RulesNext]_rulesVars => RulesInv'
  BY RulesInvNext
<1>2. RulesInv /\ [RulesNext]_rulesVars =>
        [push.pc = "creating" /\ push.overtaken /\ push'.pc = "none" => model' = model]_rulesVars
  BY RulesInvNext DEF PushKept
<1> QED BY <1>1, <1>2, RulesInvInit, PTL DEF RulesSpec, OvertakenPushKeepsModel

-----------------------------------------------------------------------------
(***************************************************************************)
(* The tree of instances.  Operations overlap at every unlock, and what    *)
(* keeps them apart is who may register an instance: only the goroutine    *)
(* that made an ephemeral instance ever registers it, so once it is out of *)
(* the registry it stays out; a persistent one may come back.              *)
(***************************************************************************)
IdOK(i) ==
    /\ tmode[i] = "none" => status[i] = "none" /\ rows[i] = "none"
    /\ status[i] = "stopped" => tmode[i] = "persistent"
    /\ worker[i] # "none" => status[i] # "none"
    /\ i \in returned => tmode[i] = "ephemeral" /\ status[i] = "none"

\* The instance, and the snapshot, of an operation fit what it does.
JobOK(r) ==
    /\ r.id # NoId => tmode[r.id] # "none"
    /\ r.op \in {"create", "start", "restart", "operator", "boot"} /\ r.id # NoId =>
         tmode[r.id] = "persistent"
    /\ r.op = "spawn" => r.id # NoId /\ tmode[r.id] = "ephemeral"
    /\ r.op = "boot" => \A i \in r.todo : tmode[i] = "persistent"
    /\ r.pc \in {"row", "spawn", "register", "hook", "status", "chat"} =>
         r.id # NoId /\ r.op \in {"create", "spawn", "start", "restart", "operator", "boot"}
    /\ r.pc = "chat" => r.op = "spawn"
    /\ r.pc \in {"detach", "finish"} => r.cur # NoId /\ r.op # "boot"

\* How far SpawnEphemeral has come with its instance.
SpawnOK(r) ==
    r.op = "spawn" =>
      /\ r.pc \in {"row", "spawn", "register"} => status[r.id] = "none"
      /\ r.pc \in {"next", "detach", "finish"} =>
           status[r.id] = "none" \/ r.id \in r.todo \/ (r.pc = "detach" /\ r.cur = r.id)

OneSpawn ==
    \A j, k \in Jobs :
        job[j].op = "spawn" /\ job[k].op = "spawn" /\ job[j].id = job[k].id => j = k
NotReturned == \A j \in Jobs : job[j].op = "spawn" => job[j].id \notin returned

TreeInv ==
    /\ TreeTypeOK
    /\ ChildrenRegistered
    /\ \A i \in Ids : IdOK(i)
    /\ \A j \in Jobs : JobOK(job[j]) /\ SpawnOK(job[j])
    /\ OneSpawn /\ NotReturned

\* The records of a goroutine.
JobOps == {"idle", "create", "spawn", "start", "stop", "delete", "death", "shutdown", "boot",
           "restart", "operator"}
JobPcs == {"done", "row", "spawn", "register", "hook", "status", "chat", "next", "detach",
           "finish", "operator"}

LEMMA IdleFields ==
    /\ Idle \in JobRecs /\ Idle.op = "idle" /\ Idle.id = NoId /\ Idle.pc = "done"
    /\ Idle.todo = {} /\ Idle.cur = NoId
BY DEF Idle, JobRecs

LEMMA PcField ==
    ASSUME NEW r \in JobRecs, NEW p \in JobPcs
    PROVE  LET q == [r EXCEPT !.pc = p]
           IN  /\ q \in JobRecs /\ q.op = r.op /\ q.id = r.id /\ q.pc = p /\ q.todo = r.todo
               /\ q.cur = r.cur
BY DEF JobRecs, JobPcs

LEMMA TodoField ==
    ASSUME NEW r \in JobRecs, NEW S \in SUBSET Ids
    PROVE  LET q == [r EXCEPT !.todo = S]
           IN  /\ q \in JobRecs /\ q.op = r.op /\ q.id = r.id /\ q.pc = r.pc /\ q.todo = S
               /\ q.cur = r.cur
BY DEF JobRecs

LEMMA IdField ==
    ASSUME NEW r \in JobRecs, NEW i \in Ids \cup {NoId}
    PROVE  LET q == [r EXCEPT !.id = i]
           IN  /\ q \in JobRecs /\ q.op = r.op /\ q.id = i /\ q.pc = r.pc /\ q.todo = r.todo
               /\ q.cur = r.cur
BY DEF JobRecs

LEMMA CurField ==
    ASSUME NEW r \in JobRecs, NEW i \in Ids \cup {NoId}
    PROVE  LET q == [r EXCEPT !.cur = i]
           IN  /\ q \in JobRecs /\ q.op = r.op /\ q.id = r.id /\ q.pc = r.pc /\ q.todo = r.todo
               /\ q.cur = i
BY DEF JobRecs

LEMMA OpField ==
    ASSUME NEW r \in JobRecs, NEW o \in JobOps
    PROVE  LET q == [r EXCEPT !.op = o]
           IN  /\ q \in JobRecs /\ q.op = o /\ q.id = r.id /\ q.pc = r.pc /\ q.todo = r.todo
               /\ q.cur = r.cur
BY DEF JobRecs, JobOps

\* Fields that only say what a goroutine knew.
LEMMA NoteFields ==
    ASSUME NEW r \in JobRecs, NEW b \in BOOLEAN, NEW x \in {"none", "running", "stopped"}
    PROVE  /\ LET q == [r EXCEPT !.stale = b]
              IN  /\ q \in JobRecs /\ q.op = r.op /\ q.id = r.id /\ q.pc = r.pc /\ q.todo = r.todo
                  /\ q.cur = r.cur
           /\ LET q == [r EXCEPT !.new = b]
              IN  /\ q \in JobRecs /\ q.op = r.op /\ q.id = r.id /\ q.pc = r.pc /\ q.todo = r.todo
                  /\ q.cur = r.cur
           /\ LET q == [r EXCEPT !.seen = x]
              IN  /\ q \in JobRecs /\ q.op = r.op /\ q.id = r.id /\ q.pc = r.pc /\ q.todo = r.todo
                  /\ q.cur = r.cur
BY DEF JobRecs

\* The record a new operation starts with.
Begun(q, o, i, p, S) ==
    q \in JobRecs /\ q.op = o /\ q.id = i /\ q.pc = p /\ q.todo = S /\ q.cur = NoId

LEMMA BeginFields ==
    ASSUME NEW o \in JobOps, NEW i \in Ids \cup {NoId}, NEW p \in JobPcs, NEW S \in SUBSET Ids
    PROVE  /\ Begun([Idle EXCEPT !.op = o, !.id = i, !.pc = p], o, i, p, {})
           /\ Begun([Idle EXCEPT !.op = o, !.id = i, !.pc = p, !.todo = S], o, i, p, S)
           /\ Begun([Idle EXCEPT !.op = o, !.pc = p, !.todo = S], o, NoId, p, S)
           /\ Begun([Idle EXCEPT !.op = o, !.todo = S, !.pc = p], o, NoId, p, S)
<1> DEFINE a == [Idle EXCEPT !.op = o]
           b == [a EXCEPT !.id = i]
           c == [b EXCEPT !.pc = p]
           d == [c EXCEPT !.todo = S]
           e == [a EXCEPT !.pc = p]
           f == [e EXCEPT !.todo = S]
           g == [a EXCEPT !.todo = S]
           h == [g EXCEPT !.pc = p]
<1>1. /\ [Idle EXCEPT !.op = o, !.id = i, !.pc = p] = c
      /\ [Idle EXCEPT !.op = o, !.id = i, !.pc = p, !.todo = S] = d
      /\ [Idle EXCEPT !.op = o, !.pc = p, !.todo = S] = f
      /\ [Idle EXCEPT !.op = o, !.todo = S, !.pc = p] = h
  OBVIOUS
<1>2. a \in JobRecs /\ a.op = o /\ a.id = NoId /\ a.todo = {} /\ a.cur = NoId
  BY IdleFields, OpField
<1> HIDE DEF a
<1>3. b \in JobRecs /\ b.op = o /\ b.id = i /\ b.todo = {} /\ b.cur = NoId
  BY <1>2, IdField
<1>4. e \in JobRecs /\ e.op = o /\ e.id = NoId /\ e.pc = p /\ e.todo = {} /\ e.cur = NoId
  BY <1>2, PcField
<1>5. g \in JobRecs /\ g.op = o /\ g.id = NoId /\ g.todo = S /\ g.cur = NoId
  BY <1>2, TodoField
<1> HIDE DEF b, e, g
<1>6. c \in JobRecs /\ c.op = o /\ c.id = i /\ c.pc = p /\ c.todo = {} /\ c.cur = NoId
  BY <1>3, PcField
<1>7. f \in JobRecs /\ f.op = o /\ f.id = NoId /\ f.pc = p /\ f.todo = S /\ f.cur = NoId
  BY <1>4, TodoField
<1>8. h \in JobRecs /\ h.op = o /\ h.id = NoId /\ h.pc = p /\ h.todo = S /\ h.cur = NoId
  BY <1>5, PcField
<1> HIDE DEF c, f, h
<1>9. d \in JobRecs /\ d.op = o /\ d.id = i /\ d.pc = p /\ d.todo = S /\ d.cur = NoId
  BY <1>6, TodoField
<1> HIDE DEF d
<1>10. Begun(c, o, i, p, {}) /\ Begun(d, o, i, p, S) /\ Begun(f, o, NoId, p, S) /\ Begun(h, o, NoId, p, S)
  BY <1>6, <1>7, <1>8, <1>9 DEF Begun
<1> QED BY <1>1, <1>10

LEMMA BeginAt ==
    ASSUME NEW o \in JobOps, NEW i \in Ids \cup {NoId}, NEW p \in JobPcs
    PROVE  Begun([Idle EXCEPT !.op = o, !.id = i, !.pc = p], o, i, p, {})
BY BeginFields

LEMMA BeginOver ==
    ASSUME NEW o \in JobOps, NEW i \in Ids \cup {NoId}, NEW p \in JobPcs, NEW S \in SUBSET Ids
    PROVE  Begun([Idle EXCEPT !.op = o, !.id = i, !.pc = p, !.todo = S], o, i, p, S)
BY BeginFields

LEMMA BeginAll ==
    ASSUME NEW o \in JobOps, NEW p \in JobPcs, NEW S \in SUBSET Ids
    PROVE  /\ Begun([Idle EXCEPT !.op = o, !.pc = p, !.todo = S], o, NoId, p, S)
           /\ Begun([Idle EXCEPT !.op = o, !.todo = S, !.pc = p], o, NoId, p, S)
BY BeginFields

\* What a step of one goroutine has to keep: nobody else's ephemeral instance
\* comes into the registry, and it is a spawn only if it was that one before.
LEMMA OneJob ==
    ASSUME TreeInv, TreeTypeOK', NEW j \in Jobs, NEW r \in JobRecs, job' = [job EXCEPT ![j] = r],
           tmode' = tmode, ChildrenRegistered', \A i \in Ids : IdOK(i)',
           \A i \in Ids : tmode[i] = "ephemeral" => status'[i] \in {status[i], "none"},
           JobOK(r), SpawnOK(r)',
           r.op = "spawn" => job[j].op = "spawn" /\ r.id = job[j].id,
           \/ returned' = returned
           \/ returned' = returned \cup {job[j].id} /\ job[j].op = "spawn" /\ r.op # "spawn"
    PROVE  TreeInv'
<1>1. /\ job \in [Jobs -> JobRecs] /\ OneSpawn /\ NotReturned
      /\ \A k \in Jobs : JobOK(job[k]) /\ SpawnOK(job[k])
  BY DEF TreeInv, TreeTypeOK
<1>2. job'[j] = r /\ \A k \in Jobs : k # j => job'[k] = job[k]
  BY <1>1
<1>3. \A k \in Jobs : job'[k].op = "spawn" => job[k].op = "spawn" /\ job'[k].id = job[k].id
  BY <1>2
<1>4. OneSpawn'
  BY <1>1, <1>3 DEF OneSpawn
<1>5. ASSUME NEW k \in Jobs PROVE JobOK(job[k])'
  <2>1. CASE k = j
    BY <1>2, <2>1 DEF JobOK
  <2>2. CASE k # j
    BY <1>1, <1>2, <2>2 DEF JobOK
  <2> QED BY <2>1, <2>2
<1>6. ASSUME NEW k \in Jobs PROVE SpawnOK(job[k])'
  <2>1. CASE k = j
    <3>1. job'[k] = r
      BY <1>2, <2>1
    <3> QED BY <3>1 DEF SpawnOK
  <2>2. CASE k # j
    <3>1. job'[k] = job[k] /\ SpawnOK(job[k]) /\ JobOK(job[k]) /\ job[k] \in JobRecs
      BY <1>1, <1>2, <2>2
    <3>2. job[k].op = "spawn" => job[k].id \in Ids /\ tmode[job[k].id] = "ephemeral"
      BY <3>1 DEF JobOK, JobRecs
    <3> QED BY <3>1, <3>2 DEF SpawnOK
  <2> QED BY <2>1, <2>2
<1>7. NotReturned'
  <2> SUFFICES ASSUME NEW k \in Jobs, job'[k].op = "spawn" PROVE job'[k].id \notin returned'
    BY DEF NotReturned
  <2>1. job[k].op = "spawn" /\ job'[k].id = job[k].id /\ job[k].id \notin returned
    BY <1>1, <1>3 DEF NotReturned
  <2>2. CASE returned' = returned
    BY <2>1, <2>2
  <2>3. CASE returned' = returned \cup {job[j].id} /\ job[j].op = "spawn" /\ r.op # "spawn"
    <3>1. k # j
      BY <1>2, <2>3
    <3> QED BY <1>1, <2>1, <2>3, <3>1 DEF OneSpawn
  <2> QED BY <2>2, <2>3
<1> QED BY <1>4, <1>5, <1>6, <1>7 DEF TreeInv

\* An instance leaves the registry, and one comes into it.
LEMMA Unregistered ==
    ASSUME TreeTypeOK, ChildrenRegistered, NEW i \in Ids, NEW known \in BOOLEAN,
           known \/ status[i] = "none", status' = [status EXCEPT ![i] = "none"],
           children' = Unregister(i, known), parent' = parent
    PROVE  /\ status' \in [Ids -> {"none", "running", "stopped"}]
           /\ children' \in [Ids -> SUBSET Ids] /\ ChildrenRegistered'
<1>1. /\ status \in [Ids -> {"none", "running", "stopped"}] /\ children \in [Ids -> SUBSET Ids]
  BY DEF TreeTypeOK
<1>2. status' \in [Ids -> {"none", "running", "stopped"}]
      /\ \A c \in Ids : c # i => status'[c] = status[c]
  BY <1>1
<1>3. children' \in [Ids -> SUBSET Ids] /\ \A p \in Ids : children'[p] \subseteq children[p]
  BY <1>1 DEF Unregister
<1>4. ASSUME NEW p \in Ids, i \in children'[p] PROVE FALSE
  <2>1. i \in children[p]
    BY <1>3, <1>4
  <2>2. status[i] # "none" /\ parent[i] = p
    BY <2>1 DEF ChildrenRegistered
  <2>3. i \notin children'[p]
    BY <1>1, <2>2 DEF Unregister
  <2> QED BY <1>4, <2>3
<1>5. ASSUME NEW p \in Ids, NEW c \in children'[p] PROVE status'[c] # "none" /\ parent'[c] = p
  <2>1. c # i /\ c \in children[p] /\ c \in Ids
    BY <1>1, <1>3, <1>4
  <2> QED BY <1>2, <2>1 DEF ChildrenRegistered
<1> QED BY <1>2, <1>3, <1>5 DEF ChildrenRegistered

LEMMA Enlisted ==
    ASSUME TreeTypeOK, ChildrenRegistered, NEW i \in Ids, NEW x \in {"running", "stopped"},
           status' = [status EXCEPT ![i] = x], children' = Enlist(i), parent' = parent
    PROVE  /\ status' \in [Ids -> {"none", "running", "stopped"}]
           /\ children' \in [Ids -> SUBSET Ids] /\ ChildrenRegistered'
<1>1. /\ status \in [Ids -> {"none", "running", "stopped"}] /\ children \in [Ids -> SUBSET Ids]
      /\ parent[i] \in Ids \cup {NoId}
  BY DEF TreeTypeOK
<1>2. /\ status' \in [Ids -> {"none", "running", "stopped"}]
      /\ \A c \in Ids : status[c] # "none" => status'[c] # "none"
      /\ status'[i] # "none"
  BY <1>1
<1>3. CASE parent[i] = NoId
  <2>1. children' = children
    BY <1>3 DEF Enlist
  <2> QED BY <1>1, <1>2, <2>1 DEF ChildrenRegistered
<1>4. CASE parent[i] # NoId
  <2>1. children' = [children EXCEPT ![parent[i]] = children[parent[i]] \cup {i}] /\ parent[i] \in Ids
    BY <1>1, <1>4 DEF Enlist
  <2>2. children[parent[i]] \cup {i} \in SUBSET Ids
    BY <1>1, <2>1
  <2>3. children' \in [Ids -> SUBSET Ids]
    BY <1>1, <2>1, <2>2
  <2>4. ASSUME NEW p \in Ids, NEW c \in children'[p] PROVE status'[c] # "none" /\ parent'[c] = p
    <3>1. c \in children[p] \/ (c = i /\ p = parent[i])
      BY <1>1, <2>1, <2>4
    <3>2. CASE c \in children[p]
      BY <1>1, <1>2, <3>2 DEF ChildrenRegistered
    <3>3. CASE c = i /\ p = parent[i]
      BY <1>2, <3>3
    <3> QED BY <3>1, <3>2, <3>3
  <2> QED BY <1>2, <2>3, <2>4 DEF ChildrenRegistered
<1> QED BY <1>3, <1>4

\* A step that leaves the registry alone.
LEMMA QuietStep ==
    ASSUME TreeInv, TreeTypeOK', NEW j \in Jobs, NEW r \in JobRecs, job' = [job EXCEPT ![j] = r],
           tmode' = tmode, parent' = parent, status' = status, children' = children,
           \A i \in Ids : worker'[i] # "none" => worker[i] # "none",
           \A i \in Ids : rows'[i] # "none" => rows[i] # "none" \/ tmode[i] # "none",
           JobOK(r), SpawnOK(r), r.op = "spawn" => job[j].op = "spawn" /\ r.id = job[j].id,
           \/ returned' = returned
           \/ /\ returned' = returned \cup {job[j].id} /\ job[j].op = "spawn" /\ r.op # "spawn"
              /\ status[job[j].id] = "none"
    PROVE  TreeInv'
<1>1. ChildrenRegistered'
  BY DEF TreeInv, ChildrenRegistered
<1>2. ASSUME NEW i \in Ids PROVE IdOK(i)'
  <2>1. IdOK(i) /\ JobOK(job[j])
    BY DEF TreeInv
  <2>2. i \in returned' => i \in returned \/ (i = job[j].id /\ job[j].op = "spawn" /\ status[i] = "none")
    OBVIOUS
  <2>3. i \in returned' => tmode[i] = "ephemeral" /\ status[i] = "none"
    BY <2>1, <2>2 DEF IdOK, JobOK
  <2> QED BY <2>1, <2>3 DEF IdOK
<1>3. SpawnOK(r)'
  BY DEF SpawnOK
<1> QED BY <1>1, <1>2, <1>3, OneJob

\* Facts every action starts from.
LEMMA TreeFacts ==
    ASSUME TreeInv, NEW j \in Jobs
    PROVE  /\ TreeTypeOK /\ ChildrenRegistered /\ job \in [Jobs -> JobRecs] /\ job[j] \in JobRecs
           /\ JobOK(job[j]) /\ SpawnOK(job[j]) /\ job[j].id \in Ids \cup {NoId}
           /\ job[j].cur \in Ids \cup {NoId} /\ job[j].todo \in SUBSET Ids
           /\ job[j].op \in JobOps /\ job[j].pc \in JobPcs
BY DEF TreeInv, TreeTypeOK, JobRecs, JobOps, JobPcs

LEMMA IdleOK == JobOK(Idle) /\ SpawnOK(Idle)
BY IdleFields DEF JobOK, SpawnOK

LEMMA CascadeType ==
    ASSUME TreeTypeOK, NEW S
    PROVE  /\ CascadeDelete(S) \in [Ids -> {"none", "running", "stopped"}]
           /\ \A i \in Ids : CascadeDelete(S)[i] # "none" => rows[i] # "none"
BY DEF CascadeDelete, TreeTypeOK

LEMMA DescendantsType ==
    ASSUME NEW i \in Ids
    PROVE  Descendants(i) \in SUBSET Ids /\ (status[i] # "none" => i \in Descendants(i))
BY DEF Descendants

\* The types after a step that changes the registry only by these.
LEMMA TreeTypes ==
    ASSUME TreeTypeOK, tmode' = tmode, parent' = parent,
           status' \in [Ids -> {"none", "running", "stopped"}], children' \in [Ids -> SUBSET Ids],
           worker' \in [Ids -> {"none", "live", "dead"}], channels' \subseteq Ids, dirs' \subseteq Ids,
           rows' \in [Ids -> {"none", "running", "stopped"}], NEW j \in Jobs, NEW r \in JobRecs,
           job' = [job EXCEPT ![j] = r], serving' \in BOOLEAN, returned' \subseteq Ids,
           kept' \subseteq Ids, ops' \in 0..MaxOps, crashes' = crashes, failures' \in 0..MaxFailures
    PROVE  TreeTypeOK'
<1>1. job' \in [Jobs -> JobRecs]
  BY DEF TreeTypeOK
<1> QED BY <1>1 DEF TreeTypeOK

LEMMA TreeInvHook == ASSUME TreeInv, NEW j \in Jobs, StartHook(j) PROVE TreeInv'
<1>1. /\ TreeTypeOK /\ job[j] \in JobRecs /\ JobOK(job[j]) /\ job[j].pc = "hook"
      /\ job[j].id \in Ids \cup {NoId}
  BY TreeFacts DEF StartHook, At
<1>2. /\ tmode' = tmode /\ parent' = parent /\ status' = status /\ children' = children
      /\ worker' = worker /\ rows' = rows /\ dirs' = dirs /\ returned' = returned /\ kept' = kept
      /\ ops' = ops /\ crashes' = crashes /\ failures' = failures
      /\ channels' = channels \cup {job[j].id} /\ serving' = (serving \/ job[j].op = "operator")
  BY DEF StartHook
<1>3. job[j].id \in Ids /\ job[j].op \in {"create", "spawn", "start", "restart", "operator", "boot"}
  BY <1>1 DEF JobOK
<1> DEFINE To(p) == [job[j] EXCEPT !.pc = p]
<1>4. \/ job' = [job EXCEPT ![j] = Idle]
      \/ job[j].op = "spawn" /\ job' = [job EXCEPT ![j] = To("chat")]
      \/ job[j].op \in {"start", "restart"} /\ job' = [job EXCEPT ![j] = To("status")]
      \/ job[j].op = "boot" /\ \E p \in {"operator", "next"} : job' = [job EXCEPT ![j] = To(p)]
  BY <1>3 DEF StartHook, Step, Restored
<1>5. ASSUME NEW r \in JobRecs, job' = [job EXCEPT ![j] = r], JobOK(r), SpawnOK(r),
             r.op = "spawn" => job[j].op = "spawn" /\ r.id = job[j].id
      PROVE  TreeInv'
  <2>1. serving' \in BOOLEAN
    BY <1>1, <1>2 DEF TreeTypeOK
  <2>2. channels' \subseteq Ids
    BY <1>1, <1>2, <1>3 DEF TreeTypeOK
  <2>3. TreeTypeOK'
    BY <1>1, <1>2, <1>5, <2>1, <2>2, TreeTypes DEF TreeTypeOK
  <2> QED BY <1>2, <1>5, <2>3, QuietStep
<1>6. ASSUME NEW p \in {"chat", "status", "operator", "next"}
      PROVE  /\ To(p) \in JobRecs /\ To(p).op = job[j].op /\ To(p).id = job[j].id /\ To(p).pc = p
             /\ To(p).todo = job[j].todo
  <2>1. p \in JobPcs
    BY DEF JobPcs
  <2> QED BY <1>1, <2>1, PcField
<1> HIDE DEF To
<1>7. CASE job' = [job EXCEPT ![j] = Idle]
  BY <1>5, <1>7, IdleFields, IdleOK
<1>8. CASE job[j].op = "spawn" /\ job' = [job EXCEPT ![j] = To("chat")]
  <2>1. /\ To("chat") \in JobRecs /\ To("chat").op = "spawn" /\ To("chat").id = job[j].id
        /\ To("chat").pc = "chat"
    BY <1>6, <1>8
  <2>2. JobOK(To("chat")) /\ SpawnOK(To("chat"))
    BY <1>1, <1>3, <1>8, <2>1 DEF JobOK, SpawnOK
  <2> QED BY <1>5, <1>8, <2>1, <2>2
<1>9. CASE job[j].op \in {"start", "restart"} /\ job' = [job EXCEPT ![j] = To("status")]
  <2>1. /\ To("status") \in JobRecs /\ To("status").op = job[j].op /\ To("status").id = job[j].id
        /\ To("status").pc = "status"
    BY <1>6
  <2>2. JobOK(To("status")) /\ SpawnOK(To("status"))
    BY <1>1, <1>3, <1>9, <2>1 DEF JobOK, SpawnOK
  <2> QED BY <1>5, <1>9, <2>1, <2>2
<1>10. ASSUME job[j].op = "boot", NEW p \in {"operator", "next"}, job' = [job EXCEPT ![j] = To(p)]
       PROVE  TreeInv'
  <2>1. To(p) \in JobRecs /\ To(p).op = "boot" /\ To(p).id = job[j].id /\ To(p).pc = p
        /\ To(p).todo = job[j].todo
    BY <1>6, <1>10
  <2>2. JobOK(To(p)) /\ SpawnOK(To(p))
    BY <1>1, <1>3, <1>10, <2>1 DEF JobOK, SpawnOK
  <2> QED BY <1>5, <1>10, <2>1, <2>2
<1> QED BY <1>4, <1>7, <1>8, <1>9, <1>10

LEMMA TreeInvStatus == ASSUME TreeInv, NEW j \in Jobs, SetRunning(j) PROVE TreeInv'
<1>1. /\ TreeTypeOK /\ JobOK(job[j]) /\ job[j].pc = "status" /\ job[j].id \in Ids \cup {NoId}
      /\ rows \in [Ids -> {"none", "running", "stopped"}]
  BY TreeFacts DEF SetRunning, At, TreeTypeOK
<1>2. /\ tmode' = tmode /\ parent' = parent /\ status' = status /\ children' = children
      /\ worker' = worker /\ dirs' = dirs /\ returned' = returned /\ kept' = kept
      /\ ops' = ops /\ crashes' = crashes /\ failures' = failures /\ channels' = channels
      /\ serving' = (serving \/ job[j].op = "restart") /\ job' = [job EXCEPT ![j] = Idle]
  BY DEF SetRunning, Return, Step
<1>3. PICK i \in Ids : i = job[j].id
  BY <1>1 DEF JobOK
<1>4. rows' = rows \/ (rows[i] # "none" /\ rows' = [rows EXCEPT ![i] = "running"])
  BY <1>1, <1>3 DEF SetRunning
<1>5. /\ rows' \in [Ids -> {"none", "running", "stopped"}]
      /\ \A k \in Ids : rows'[k] # "none" => rows[k] # "none"
  BY <1>1, <1>4
<1>6. serving' \in BOOLEAN
  BY <1>1, <1>2 DEF TreeTypeOK
<1>7. TreeTypeOK'
  BY <1>1, <1>2, <1>5, <1>6, IdleFields, TreeTypes DEF TreeTypeOK
<1> QED BY <1>2, <1>5, <1>7, IdleFields, IdleOK, QuietStep

LEMMA TreeInvChat == ASSUME TreeInv, NEW j \in Jobs, ChatEnds(j) PROVE TreeInv'
<1>1. /\ TreeTypeOK /\ JobOK(job[j]) /\ job[j].pc = "chat" /\ job[j] \in JobRecs
      /\ job[j].id \in Ids \cup {NoId}
  BY TreeFacts DEF ChatEnds, At
<1>2. /\ tmode' = tmode /\ parent' = parent /\ status' = status /\ children' = children
      /\ worker' = worker /\ rows' = rows /\ dirs' = dirs /\ returned' = returned /\ kept' = kept
      /\ ops' = ops /\ crashes' = crashes /\ failures' = failures /\ channels' = channels
      /\ serving' = serving
  BY DEF ChatEnds
<1>3. PICK i \in Ids : i = job[j].id
  BY <1>1 DEF JobOK
<1>4. job[j].op = "spawn"
  BY <1>1 DEF JobOK
<1> DEFINE D == Descendants(i)
           a == [job[j] EXCEPT !.pc = "next"]
           r == [a EXCEPT !.todo = D]
<1>5. job' = [job EXCEPT ![j] = r]
  BY <1>3 DEF ChatEnds, Step
<1>6. D \in SUBSET Ids /\ (status[i] # "none" => i \in D)
  BY DescendantsType
<1> HIDE DEF D
<1>7. "next" \in JobPcs
  BY DEF JobPcs
<1>8. a \in JobRecs /\ a.op = "spawn" /\ a.id = i /\ a.pc = "next"
  BY <1>1, <1>3, <1>4, <1>7, PcField
<1> HIDE DEF a
<1>9. r \in JobRecs /\ r.op = "spawn" /\ r.id = i /\ r.pc = "next" /\ r.todo = D
  BY <1>6, <1>8, TodoField
<1> HIDE DEF r
<1>10. JobOK(r) /\ SpawnOK(r)
  BY <1>1, <1>3, <1>4, <1>6, <1>9 DEF JobOK, SpawnOK
<1>11. TreeTypeOK'
  BY <1>1, <1>2, <1>5, <1>9, TreeTypes DEF TreeTypeOK
<1> QED BY <1>2, <1>3, <1>4, <1>5, <1>9, <1>10, <1>11, QuietStep

LEMMA TreeInvNextIn == ASSUME TreeInv, NEW j \in Jobs, NextInSnapshot(j) PROVE TreeInv'
<1>1. /\ TreeTypeOK /\ JobOK(job[j]) /\ SpawnOK(job[j]) /\ job[j].pc = "next" /\ job[j].op # "boot"
      /\ job[j] \in JobRecs /\ job[j].id \in Ids \cup {NoId} /\ job[j].todo \in SUBSET Ids
  BY TreeFacts DEF NextInSnapshot, At
<1>2. /\ tmode' = tmode /\ parent' = parent /\ status' = status /\ children' = children
      /\ worker' = worker /\ rows' = rows /\ dirs' = dirs /\ returned' = returned /\ kept' = kept
      /\ ops' = ops /\ crashes' = crashes /\ failures' = failures /\ serving' = serving
  BY DEF NextInSnapshot
<1> DEFINE A(i) == [job[j] EXCEPT !.todo = @ \ {i}]
           E(i) == [job[j] EXCEPT !.todo = @ \ {i}, !.cur = i, !.pc = "detach",
                                  !.seen = status[i], !.stale = FALSE]
<1>3. PICK i \in job[j].todo :
        /\ channels' \in {channels, channels \ {i}}
        /\ \/ /\ job[j].op \in {"stop", "spawn", "death"} => status[i] # "running"
              /\ job' = [job EXCEPT ![j] = A(i)]
           \/ job' = [job EXCEPT ![j] = E(i)]
  BY DEF NextInSnapshot, LeafOf, Step
<1>4. /\ i \in Ids /\ i # NoId /\ i \in Ids \cup {NoId}
      /\ status[i] \in {"none", "running", "stopped"}
  BY <1>1, TreeAssumption DEF TreeTypeOK
<1>5. IdOK(i)
  BY <1>4 DEF TreeInv
<1>6. channels' \subseteq Ids
  BY <1>1, <1>3 DEF TreeTypeOK
<1> DEFINE S == job[j].todo \ {i}
           a == [job[j] EXCEPT !.todo = S]
           b == [a EXCEPT !.cur = i]
           c == [b EXCEPT !.pc = "detach"]
           d == [c EXCEPT !.seen = status[i]]
           e == [d EXCEPT !.stale = FALSE]
<1>7. A(i) = a /\ E(i) = e
  OBVIOUS
<1>8. S \in SUBSET Ids /\ \A x : x \in S <=> x \in job[j].todo /\ x # i
  BY <1>1
<1> HIDE DEF A, E, S
<1>9. a \in JobRecs /\ a.op = job[j].op /\ a.id = job[j].id /\ a.pc = "next" /\ a.todo = S
  BY <1>1, <1>8, TodoField
<1> HIDE DEF a
<1>10. ASSUME NEW r \in JobRecs, job' = [job EXCEPT ![j] = r], JobOK(r), SpawnOK(r),
              r.op = job[j].op, r.id = job[j].id
       PROVE  TreeInv'
  <2>1. TreeTypeOK'
    BY <1>1, <1>2, <1>6, <1>10, TreeTypes DEF TreeTypeOK
  <2> QED BY <1>2, <1>10, <2>1, QuietStep
<1>11. CASE /\ job[j].op \in {"stop", "spawn", "death"} => status[i] # "running"
            /\ job' = [job EXCEPT ![j] = A(i)]
  <2>1. JobOK(a)
    BY <1>1, <1>9 DEF JobOK
  <2>2. SpawnOK(a)
    <3>1. CASE i = job[j].id /\ job[j].op = "spawn"
      <4>1. status[i] = "none"
        BY <1>1, <1>4, <1>5, <1>11, <3>1 DEF IdOK, JobOK
      <4> QED BY <1>9, <3>1, <4>1 DEF SpawnOK
    <3>2. CASE ~(i = job[j].id /\ job[j].op = "spawn")
      BY <1>1, <1>8, <1>9, <3>2 DEF SpawnOK
    <3> QED BY <3>1, <3>2
  <2>3. job' = [job EXCEPT ![j] = a]
    BY <1>7, <1>11
  <2> QED BY <1>9, <1>10, <2>1, <2>2, <2>3
<1>12. CASE job' = [job EXCEPT ![j] = E(i)]
  <2>1. "detach" \in JobPcs
    BY DEF JobPcs
  <2>2. b \in JobRecs /\ b.op = job[j].op /\ b.id = job[j].id /\ b.todo = S /\ b.cur = i
    BY <1>4, <1>9, CurField
  <2> HIDE DEF b
  <2>3. /\ c \in JobRecs /\ c.op = job[j].op /\ c.id = job[j].id /\ c.todo = S
        /\ c.cur = i /\ c.pc = "detach"
    BY <2>1, <2>2, PcField
  <2> HIDE DEF c
  <2>4. /\ d \in JobRecs /\ d.op = job[j].op /\ d.id = job[j].id /\ d.todo = S
        /\ d.cur = i /\ d.pc = "detach"
    BY <1>4, <2>3, NoteFields
  <2> HIDE DEF d
  <2>5. /\ e \in JobRecs /\ e.op = job[j].op /\ e.id = job[j].id /\ e.todo = S
        /\ e.cur = i /\ e.pc = "detach"
    BY <1>4, <2>4, NoteFields
  <2> HIDE DEF e
  <2>6. JobOK(e)
    BY <1>1, <1>4, <2>5 DEF JobOK
  <2>7. SpawnOK(e)
    BY <1>1, <1>8, <2>5 DEF SpawnOK
  <2>8. job' = [job EXCEPT ![j] = e]
    BY <1>7, <1>12
  <2> QED BY <1>10, <2>5, <2>6, <2>7, <2>8
<1> QED BY <1>3, <1>11, <1>12

LEMMA TreeInvFinish == ASSUME TreeInv, NEW j \in Jobs, Finish(j) PROVE TreeInv'
<1>1. /\ TreeTypeOK /\ JobOK(job[j]) /\ SpawnOK(job[j]) /\ job[j].pc = "finish"
      /\ job[j] \in JobRecs /\ job[j].id \in Ids \cup {NoId} /\ job[j].cur \in Ids \cup {NoId}
  BY TreeFacts DEF Finish, At
<1>2. /\ tmode' = tmode /\ parent' = parent /\ status' = status /\ children' = children
      /\ worker' = worker /\ channels' = channels /\ returned' = returned
      /\ ops' = ops /\ crashes' = crashes /\ failures' = failures /\ serving' = serving
  BY DEF Finish
<1>3. PICK i \in Ids : i = job[j].cur
  BY <1>1 DEF JobOK
<1>4. \/ rows' = rows \/ rows' = CascadeDelete({i})
      \/ rows[i] # "none" /\ rows' = [rows EXCEPT ![i] = "stopped"]
  BY <1>3 DEF Finish
<1>5. /\ rows' \in [Ids -> {"none", "running", "stopped"}]
      /\ \A k \in Ids : rows'[k] # "none" => rows[k] # "none"
  <2>1. rows \in [Ids -> {"none", "running", "stopped"}]
    BY <1>1 DEF TreeTypeOK
  <2>2. CASE rows' = CascadeDelete({i})
    BY <1>1, <2>2, CascadeType
  <2>3. CASE rows' = rows
    BY <2>1, <2>3
  <2>4. CASE rows[i] # "none" /\ rows' = [rows EXCEPT ![i] = "stopped"]
    BY <2>1, <2>4
  <2> QED BY <1>4, <2>2, <2>3, <2>4
<1>6. dirs' \subseteq Ids /\ kept' \subseteq Ids
  BY <1>1 DEF Finish, TreeTypeOK
<1> DEFINE a == [job[j] EXCEPT !.pc = "next"]
           r == [a EXCEPT !.cur = NoId]
<1>7. job' = [job EXCEPT ![j] = r]
  BY DEF Finish, Step
<1>8. "next" \in JobPcs /\ NoId \in Ids \cup {NoId}
  BY DEF JobPcs
<1>9. a \in JobRecs /\ a.op = job[j].op /\ a.id = job[j].id /\ a.pc = "next" /\ a.todo = job[j].todo
  BY <1>1, <1>8, PcField
<1> HIDE DEF a
<1>10. r \in JobRecs /\ r.op = job[j].op /\ r.id = job[j].id /\ r.pc = "next" /\ r.todo = job[j].todo
  BY <1>8, <1>9, CurField
<1> HIDE DEF r
<1>11. JobOK(r) /\ SpawnOK(r)
  BY <1>1, <1>10 DEF JobOK, SpawnOK
<1>12. TreeTypeOK'
  BY <1>1, <1>2, <1>5, <1>6, <1>7, <1>10, TreeTypes DEF TreeTypeOK
<1> QED BY <1>2, <1>5, <1>7, <1>10, <1>11, <1>12, QuietStep

LEMMA TreeInvReturns == ASSUME TreeInv, NEW j \in Jobs, TeardownReturns(j) PROVE TreeInv'
<1>1. /\ TreeTypeOK /\ JobOK(job[j]) /\ SpawnOK(job[j]) /\ job[j].pc = "next" /\ job[j].todo = {}
      /\ job[j].id \in Ids \cup {NoId}
  BY TreeFacts DEF TeardownReturns, At
<1>2. /\ tmode' = tmode /\ parent' = parent /\ status' = status /\ children' = children
      /\ worker' = worker /\ rows' = rows /\ dirs' = dirs /\ kept' = kept /\ channels' = channels
      /\ ops' = ops /\ crashes' = crashes /\ failures' = failures /\ serving' = serving
      /\ job' = [job EXCEPT ![j] = Idle]
      /\ returned' = IF job[j].op = "spawn" THEN returned \cup {job[j].id} ELSE returned
  BY DEF TeardownReturns, Return, Step
<1>3. job[j].op = "spawn" => job[j].id \in Ids /\ status[job[j].id] = "none"
  BY <1>1 DEF JobOK, SpawnOK
<1>4. returned' \subseteq Ids
  BY <1>1, <1>2, <1>3 DEF TreeTypeOK
<1>5. TreeTypeOK'
  BY <1>1, <1>2, <1>4, IdleFields, TreeTypes DEF TreeTypeOK
<1>6. \/ returned' = returned
      \/ /\ returned' = returned \cup {job[j].id} /\ job[j].op = "spawn" /\ Idle.op # "spawn"
         /\ status[job[j].id] = "none"
  BY <1>2, <1>3, IdleFields
<1> QED BY <1>2, <1>5, <1>6, IdleFields, IdleOK, QuietStep

\* A new operation counts within the bound.
LEMMA CountedType == ASSUME TreeTypeOK, Counted PROVE ops' \in 0..MaxOps
BY TreeAssumption DEF Counted, TreeTypeOK

LEMMA TreeInvShutdown == ASSUME TreeInv, NEW j \in Jobs, BeginShutdown(j) PROVE TreeInv'
<1>1. TreeTypeOK
  BY TreeFacts
<1>2. /\ tmode' = tmode /\ parent' = parent /\ status' = status /\ children' = children
      /\ worker' = worker /\ rows' = rows /\ dirs' = dirs /\ returned' = returned /\ kept' = kept
      /\ crashes' = crashes /\ failures' = failures /\ channels' = channels /\ serving' = FALSE
  BY DEF BeginShutdown
<1>3. ops' \in 0..MaxOps
  BY <1>1, CountedType DEF BeginShutdown
<1> DEFINE S == {i \in Ids : status[i] # "none"}
           r == [Idle EXCEPT !.op = "shutdown", !.pc = "next", !.todo = S]
<1>4. job' = [job EXCEPT ![j] = r]
  BY DEF BeginShutdown, Step
<1>5. S \in SUBSET Ids /\ "shutdown" \in JobOps /\ "next" \in JobPcs /\ NoId \in Ids \cup {NoId}
  BY DEF JobOps, JobPcs
<1> HIDE DEF S
<1>6. Begun(r, "shutdown", NoId, "next", S)
  BY <1>5, BeginAll
<1> HIDE DEF r
<1>7. JobOK(r) /\ SpawnOK(r)
  BY <1>6 DEF JobOK, SpawnOK, Begun
<1>8. TreeTypeOK'
  BY <1>1, <1>2, <1>3, <1>4, <1>6, TreeTypes DEF TreeTypeOK, Begun
<1> QED BY <1>2, <1>4, <1>6, <1>7, <1>8, QuietStep DEF Begun

LEMMA TreeInvTeardown ==
    ASSUME TreeInv, NEW j \in Jobs, NEW i \in Ids, NEW op \in {"stop", "delete"},
           BeginTeardown(j, i, op)
    PROVE  TreeInv'
<1>1. TreeTypeOK /\ IdOK(i)
  BY TreeFacts DEF TreeInv
<1>2. /\ tmode' = tmode /\ parent' = parent /\ status' = status /\ children' = children
      /\ worker' = worker /\ rows' = rows /\ dirs' = dirs /\ returned' = returned
      /\ crashes' = crashes /\ failures' = failures /\ channels' = channels /\ serving' = serving
      /\ status[i] # "none" /\ kept' \subseteq kept
  BY DEF BeginTeardown
<1>3. ops' \in 0..MaxOps
  BY <1>1, CountedType DEF BeginTeardown
<1> DEFINE S == Descendants(i)
           r == [Idle EXCEPT !.op = op, !.id = i, !.pc = "next", !.todo = S]
<1>4. job' = [job EXCEPT ![j] = r]
  BY DEF BeginTeardown, Step
<1>5. S \in SUBSET Ids /\ op \in JobOps /\ "next" \in JobPcs /\ i \in Ids \cup {NoId}
  BY DescendantsType DEF JobOps, JobPcs
<1> HIDE DEF S
<1>6. Begun(r, op, i, "next", S)
  BY <1>5, BeginOver
<1> HIDE DEF r
<1>7. JobOK(r) /\ SpawnOK(r)
  BY <1>1, <1>2, <1>6 DEF JobOK, SpawnOK, IdOK, Begun
<1>8. r.op # "spawn" /\ kept' \subseteq Ids
  BY <1>1, <1>2, <1>6 DEF TreeTypeOK, Begun
<1>9. TreeTypeOK'
  BY <1>1, <1>2, <1>3, <1>4, <1>6, <1>8, TreeTypes DEF TreeTypeOK, Begun
<1> QED BY <1>2, <1>4, <1>6, <1>7, <1>8, <1>9, QuietStep DEF Begun

LEMMA TreeInvDeath ==
    ASSUME TreeInv, NEW j \in Jobs, NEW i \in Ids, BeginDeath(j, i)
    PROVE  TreeInv'
<1>1. TreeTypeOK /\ IdOK(i) /\ worker \in [Ids -> {"none", "live", "dead"}]
  BY TreeFacts DEF TreeInv, TreeTypeOK
<1>2. /\ tmode' = tmode /\ parent' = parent /\ status' = status /\ children' = children
      /\ rows' = rows /\ dirs' = dirs /\ returned' = returned /\ kept' = kept /\ ops' = ops
      /\ crashes' = crashes /\ failures' = failures /\ channels' = channels /\ serving' = serving
      /\ worker[i] = "dead" /\ worker' = [worker EXCEPT ![i] = "none"]
  BY DEF BeginDeath
<1>3. /\ worker' \in [Ids -> {"none", "live", "dead"}]
      /\ \A k \in Ids : worker'[k] # "none" => worker[k] # "none"
  BY <1>1, <1>2
<1> DEFINE S == Descendants(i)
           r == [Idle EXCEPT !.op = "death", !.id = i, !.pc = "next", !.todo = S]
<1>4. job' = [job EXCEPT ![j] = r]
  BY DEF BeginDeath, Step
<1>5. S \in SUBSET Ids /\ "death" \in JobOps /\ "next" \in JobPcs /\ i \in Ids \cup {NoId}
  BY DescendantsType DEF JobOps, JobPcs
<1> HIDE DEF S
<1>6. Begun(r, "death", i, "next", S)
  BY <1>5, BeginOver
<1> HIDE DEF r
<1>7. JobOK(r) /\ SpawnOK(r)
  BY <1>1, <1>2, <1>6 DEF JobOK, SpawnOK, IdOK, Begun
<1>8. TreeTypeOK'
  BY <1>1, <1>2, <1>3, <1>4, <1>6, TreeTypes DEF TreeTypeOK, Begun
<1> QED BY <1>2, <1>3, <1>4, <1>6, <1>7, <1>8, QuietStep DEF Begun

LEMMA TreeInvRestoreNext == ASSUME TreeInv, NEW j \in Jobs, RestoreNext(j) PROVE TreeInv'
<1>1. /\ TreeTypeOK /\ JobOK(job[j]) /\ job[j].op = "boot" /\ job[j].pc = "next"
      /\ job[j] \in JobRecs /\ job[j].id \in Ids \cup {NoId} /\ job[j].todo \in SUBSET Ids
      /\ rows \in [Ids -> {"none", "running", "stopped"}]
  BY TreeFacts DEF RestoreNext, At, TreeTypeOK
<1>2. /\ tmode' = tmode /\ parent' = parent /\ status' = status /\ children' = children
      /\ worker' = worker /\ dirs' = dirs /\ returned' = returned /\ kept' = kept /\ ops' = ops
      /\ crashes' = crashes /\ failures' = failures /\ channels' = channels /\ serving' = serving
  BY DEF RestoreNext
<1> DEFINE A(i) == [job[j] EXCEPT !.id = i, !.todo = @ \ {i}, !.pc = "row"]
           B(i, p) == [job[j] EXCEPT !.todo = @ \ {i}, !.pc = p]
<1>3. PICK i \in job[j].todo :
        \/ job' = [job EXCEPT ![j] = A(i)] /\ rows' = rows
        \/ /\ \E p \in {"operator", "next"} : job' = [job EXCEPT ![j] = B(i, p)]
           /\ rows' = CascadeDelete({i})
  BY DEF RestoreNext, Step
<1>4. i \in Ids /\ i # NoId /\ i \in Ids \cup {NoId} /\ tmode[i] = "persistent"
  BY <1>1, TreeAssumption DEF JobOK
<1>5. /\ rows' \in [Ids -> {"none", "running", "stopped"}]
      /\ \A k \in Ids : rows'[k] # "none" => rows[k] # "none"
  BY <1>1, <1>3, CascadeType
<1> DEFINE S == job[j].todo \ {i}
           a == [job[j] EXCEPT !.id = i]
           b == [a EXCEPT !.todo = S]
           c == [b EXCEPT !.pc = "row"]
           d == [job[j] EXCEPT !.todo = S]
           e(p) == [d EXCEPT !.pc = p]
<1>6. A(i) = c /\ \A p \in {"operator", "next"} : B(i, p) = e(p)
  OBVIOUS
<1>7. S \in SUBSET Ids /\ \A x : x \in S => x \in job[j].todo
  BY <1>1
<1> HIDE DEF A, B, S
<1>8. ASSUME NEW r \in JobRecs, job' = [job EXCEPT ![j] = r], JobOK(r), r.op = "boot"
      PROVE  TreeInv'
  <2>1. TreeTypeOK'
    BY <1>1, <1>2, <1>5, <1>8, TreeTypes DEF TreeTypeOK
  <2>2. SpawnOK(r)
    BY <1>8 DEF SpawnOK
  <2> QED BY <1>2, <1>5, <1>8, <2>1, <2>2, QuietStep
<1>9. CASE job' = [job EXCEPT ![j] = A(i)]
  <2>1. a \in JobRecs /\ a.op = "boot" /\ a.id = i
    BY <1>1, <1>4, IdField
  <2> HIDE DEF a
  <2>2. b \in JobRecs /\ b.op = "boot" /\ b.id = i /\ b.todo = S
    BY <1>7, <2>1, TodoField
  <2> HIDE DEF b
  <2>3. "row" \in JobPcs
    BY DEF JobPcs
  <2>4. c \in JobRecs /\ c.op = "boot" /\ c.id = i /\ c.todo = S /\ c.pc = "row"
    BY <2>2, <2>3, PcField
  <2> HIDE DEF c
  <2>5. JobOK(c)
    BY <1>1, <1>4, <1>7, <2>4 DEF JobOK
  <2>6. job' = [job EXCEPT ![j] = c]
    BY <1>6, <1>9
  <2> QED BY <1>8, <2>4, <2>5, <2>6
<1>10. ASSUME NEW p \in {"operator", "next"}, job' = [job EXCEPT ![j] = B(i, p)] PROVE TreeInv'
  <2>1. d \in JobRecs /\ d.op = "boot" /\ d.id = job[j].id /\ d.todo = S
    BY <1>1, <1>7, TodoField
  <2> HIDE DEF d
  <2>2. p \in JobPcs
    BY DEF JobPcs
  <2>3. /\ e(p) \in JobRecs /\ e(p).op = "boot" /\ e(p).id = job[j].id /\ e(p).todo = S
        /\ e(p).pc = p
    BY <2>1, <2>2, PcField
  <2>4. job' = [job EXCEPT ![j] = e(p)]
    BY <1>6, <1>10
  <2> HIDE DEF e
  <2>5. JobOK(e(p))
    BY <1>1, <1>7, <2>3 DEF JobOK
  <2> QED BY <1>8, <2>3, <2>4, <2>5
<1> QED BY <1>3, <1>9, <1>10

\* startInstance fails: a stopped instance is put back as it was.
LEMMA StartFails ==
    ASSUME TreeInv, NEW j \in Jobs, job[j].pc \in {"row", "spawn"}, Step(j, AfterFailure(j)),
           Reregister(j), tmode' = tmode, parent' = parent, worker' = worker, channels' = channels,
           rows' = rows, dirs' \subseteq Ids, serving' = serving, kept' = kept, ops' = ops,
           crashes' = crashes, failures' \in 0..MaxFailures,
           returned' = IF job[j].op = "spawn" THEN returned \cup {job[j].id} ELSE returned
    PROVE  TreeInv'
<1>1. /\ TreeTypeOK /\ ChildrenRegistered /\ JobOK(job[j]) /\ SpawnOK(job[j]) /\ job[j] \in JobRecs
      /\ job[j].id \in Ids \cup {NoId} /\ job[j].todo \in SUBSET Ids
  BY TreeFacts
<1>2. PICK i \in Ids : i = job[j].id
  BY <1>1 DEF JobOK
<1>3. /\ job[j].op \in {"create", "spawn", "start", "restart", "operator", "boot"}
      /\ job[j].op = "spawn" => status[i] = "none" /\ tmode[i] = "ephemeral"
      /\ job[j].op \in {"start", "restart"} => tmode[i] = "persistent"
  BY <1>1, <1>2, TreeAssumption DEF JobOK, SpawnOK
<1>4. returned' \subseteq Ids
  BY <1>1, <1>2 DEF TreeTypeOK
<1>5. CASE job[j].op \in {"start", "restart"}
  <2>1. /\ job' = [job EXCEPT ![j] = Idle] /\ status' = [status EXCEPT ![i] = "stopped"]
        /\ children' = Enlist(i) /\ returned' = returned
    BY <1>2, <1>5 DEF Step, AfterFailure, Reregister
  <2>2. "stopped" \in {"running", "stopped"}
    OBVIOUS
  <2>3. /\ status' \in [Ids -> {"none", "running", "stopped"}]
        /\ children' \in [Ids -> SUBSET Ids] /\ ChildrenRegistered'
    BY <1>1, <2>1, <2>2, Enlisted
  <2>4. TreeTypeOK'
    BY <1>1, <2>1, <2>3, IdleFields, TreeTypes DEF TreeTypeOK
  <2>5. status'[i] = "stopped" /\ \A k \in Ids : k # i => status'[k] = status[k]
    BY <1>1, <2>1 DEF TreeTypeOK
  <2>6. ASSUME NEW k \in Ids PROVE IdOK(k)'
    <3>1. IdOK(k)
      BY DEF TreeInv
    <3>2. CASE k = i
      BY <1>3, <1>5, <2>1, <2>5, <3>1, <3>2 DEF IdOK
    <3>3. CASE k # i
      BY <2>1, <2>5, <3>1, <3>3 DEF IdOK
    <3> QED BY <3>2, <3>3
  <2>7. \A k \in Ids : tmode[k] = "ephemeral" => status'[k] \in {status[k], "none"}
    BY <1>3, <1>5, <2>5
  <2>8. SpawnOK(Idle)'
    BY IdleFields DEF SpawnOK
  <2> QED BY <2>1, <2>3, <2>4, <2>6, <2>7, <2>8, IdleFields, IdleOK, OneJob
<1>6. CASE job[j].op = "boot"
  <2> DEFINE To(p) == [job[j] EXCEPT !.pc = p]
  <2>1. /\ status' = status /\ children' = children /\ returned' = returned
    BY <1>6 DEF Reregister
  <2>2. PICK p \in {"operator", "next"} : job' = [job EXCEPT ![j] = To(p)]
    BY <1>6 DEF Step, AfterFailure, Restored
  <2>3. p \in JobPcs
    BY DEF JobPcs
  <2>4. To(p) \in JobRecs /\ To(p).op = "boot" /\ To(p).id = i /\ To(p).pc = p /\ To(p).todo = job[j].todo
    BY <1>1, <1>2, <1>6, <2>3, PcField
  <2> HIDE DEF To
  <2>5. JobOK(To(p)) /\ SpawnOK(To(p))
    BY <1>1, <1>2, <1>6, <2>4 DEF JobOK, SpawnOK
  <2>6. TreeTypeOK'
    BY <1>1, <2>1, <2>2, <2>4, TreeTypes DEF TreeTypeOK
  <2> QED BY <2>1, <2>2, <2>4, <2>5, <2>6, QuietStep
<1>7. CASE job[j].op \in {"create", "spawn", "operator"}
  <2>1. /\ job' = [job EXCEPT ![j] = Idle] /\ status' = status /\ children' = children
    BY <1>7 DEF Step, AfterFailure, Reregister
  <2>2. TreeTypeOK'
    BY <1>1, <1>4, <2>1, IdleFields, TreeTypes DEF TreeTypeOK
  <2>3. \/ returned' = returned
        \/ /\ returned' = returned \cup {job[j].id} /\ job[j].op = "spawn" /\ Idle.op # "spawn"
           /\ status[job[j].id] = "none"
    BY <1>2, <1>3, IdleFields
  <2> QED BY <2>1, <2>2, <2>3, IdleFields, IdleOK, QuietStep
<1> QED BY <1>3, <1>5, <1>6, <1>7

LEMMA TreeInvRow == ASSUME TreeInv, NEW j \in Jobs, RegisterRow(j) PROVE TreeInv'
<1>1. /\ TreeTypeOK /\ JobOK(job[j]) /\ SpawnOK(job[j]) /\ job[j] \in JobRecs /\ job[j].pc = "row"
      /\ job[j].id \in Ids \cup {NoId} /\ job[j].todo \in SUBSET Ids
      /\ rows \in [Ids -> {"none", "running", "stopped"}]
  BY TreeFacts DEF RegisterRow, At, TreeTypeOK
<1>2. PICK i \in Ids : i = job[j].id
  BY <1>1 DEF JobOK
<1>3. /\ tmode' = tmode /\ parent' = parent /\ worker' = worker /\ channels' = channels
      /\ serving' = serving /\ kept' = kept /\ ops' = ops /\ crashes' = crashes /\ failures' = failures
      /\ dirs' = dirs \cup {i}
  BY <1>2 DEF RegisterRow
<1>4. dirs' \subseteq Ids /\ failures' \in 0..MaxFailures
  BY <1>1, <1>3 DEF TreeTypeOK
<1> DEFINE fits == (rows[i] = "none" /\ parent[i] # NoId) => rows[parent[i]] # "none"
           b == i \notin dirs
           a == [job[j] EXCEPT !.pc = "spawn"]
           r == [a EXCEPT !.new = b]
<1>5. CASE fits
  <2>1. /\ status' = status /\ children' = children /\ returned' = returned
        /\ rows' = [rows EXCEPT ![i] = IF @ = "none" THEN "running" ELSE @]
        /\ job' = [job EXCEPT ![j] = r]
    BY <1>2, <1>5 DEF RegisterRow, Step
  <2>2. tmode[i] # "none"
    BY <1>1, <1>2, TreeAssumption DEF JobOK
  <2>3. /\ rows' \in [Ids -> {"none", "running", "stopped"}]
        /\ \A k \in Ids : rows'[k] # "none" => rows[k] # "none" \/ tmode[k] # "none"
    BY <1>1, <2>1, <2>2
  <2>4. b \in BOOLEAN /\ "spawn" \in JobPcs /\ "none" \in {"none", "running", "stopped"}
    BY DEF JobPcs
  <2> HIDE DEF b
  <2>5. a \in JobRecs /\ a.op = job[j].op /\ a.id = i /\ a.pc = "spawn" /\ a.todo = job[j].todo
    BY <1>1, <1>2, <2>4, PcField
  <2> HIDE DEF a
  <2>6. r \in JobRecs /\ r.op = job[j].op /\ r.id = i /\ r.pc = "spawn" /\ r.todo = job[j].todo
    BY <2>4, <2>5, NoteFields
  <2> HIDE DEF r
  <2>7. JobOK(r) /\ SpawnOK(r)
    BY <1>1, <1>2, <2>6 DEF JobOK, SpawnOK
  <2>8. TreeTypeOK'
    BY <1>1, <1>3, <1>4, <2>1, <2>3, <2>6, TreeTypes DEF TreeTypeOK
  <2> QED BY <1>2, <1>3, <2>1, <2>3, <2>6, <2>7, <2>8, QuietStep
<1>6. CASE ~fits
  <2>1. /\ Step(j, AfterFailure(j)) /\ Reregister(j) /\ rows' = rows
        /\ returned' = IF job[j].op = "spawn" THEN returned \cup {job[j].id} ELSE returned
    BY <1>2, <1>6 DEF RegisterRow
  <2> QED BY <1>1, <1>3, <1>4, <2>1, StartFails
<1> QED BY <1>5, <1>6

LEMMA TreeInvSpawn == ASSUME TreeInv, NEW j \in Jobs, SpawnWorker(j) PROVE TreeInv'
<1>1. /\ TreeTypeOK /\ JobOK(job[j]) /\ SpawnOK(job[j]) /\ job[j] \in JobRecs /\ job[j].pc = "spawn"
  BY TreeFacts DEF SpawnWorker, At
<1>2. /\ tmode' = tmode /\ parent' = parent /\ worker' = worker /\ channels' = channels
      /\ serving' = serving /\ kept' = kept /\ ops' = ops /\ crashes' = crashes /\ rows' = rows
  BY DEF SpawnWorker
<1> DEFINE r == [job[j] EXCEPT !.pc = "register"]
<1>3. CASE Goto(j, "register") /\ UNCHANGED <<dirs, status, children, returned, failures>>
  <2>1. /\ job' = [job EXCEPT ![j] = r] /\ dirs' = dirs /\ status' = status /\ children' = children
        /\ returned' = returned /\ failures' = failures
    BY <1>3 DEF Goto, Step
  <2>2. "register" \in JobPcs
    BY DEF JobPcs
  <2>3. /\ r \in JobRecs /\ r.op = job[j].op /\ r.id = job[j].id /\ r.pc = "register"
        /\ r.todo = job[j].todo
    BY <1>1, <2>2, PcField
  <2> HIDE DEF r
  <2>4. JobOK(r) /\ SpawnOK(r)
    BY <1>1, <2>3 DEF JobOK, SpawnOK
  <2>5. TreeTypeOK'
    BY <1>1, <1>2, <2>1, <2>3, TreeTypes DEF TreeTypeOK
  <2> QED BY <1>2, <2>1, <2>3, <2>4, <2>5, QuietStep
<1>4. CASE ~(Goto(j, "register") /\ UNCHANGED <<dirs, status, children, returned, failures>>)
  <2>1. /\ failures < MaxFailures /\ failures' = failures + 1
        /\ dirs' \subseteq dirs /\ Step(j, AfterFailure(j)) /\ Reregister(j)
        /\ returned' = IF job[j].op = "spawn" THEN returned \cup {job[j].id} ELSE returned
    BY <1>4 DEF SpawnWorker
  <2>2. failures' \in 0..MaxFailures
    BY <1>1, <2>1, TreeAssumption DEF TreeTypeOK
  <2>3. dirs' \subseteq Ids
    BY <1>1, <2>1 DEF TreeTypeOK
  <2> QED BY <1>1, <1>2, <2>1, <2>2, <2>3, StartFails
<1> QED BY <1>3, <1>4

\* A stopped instance is taken out of the registry to be started again.
LEMMA RestartBegins ==
    ASSUME TreeInv, NEW j \in Jobs, NEW i \in Ids, NEW o \in {"start", "restart"}, status[i] = "stopped",
           status' = [status EXCEPT ![i] = "none"], children' = Unregister(i, TRUE),
           worker' = [worker EXCEPT ![i] = "none"],
           job' = [job EXCEPT ![j] = [Idle EXCEPT !.op = o, !.id = i, !.pc = "row"]],
           tmode' = tmode, parent' = parent, channels' = channels, rows' = rows, dirs' = dirs,
           serving' = serving, returned' = returned, kept' = kept, ops' \in 0..MaxOps,
           crashes' = crashes, failures' = failures
    PROVE  TreeInv'
<1>1. /\ TreeTypeOK /\ ChildrenRegistered /\ IdOK(i) /\ worker \in [Ids -> {"none", "live", "dead"}]
      /\ status \in [Ids -> {"none", "running", "stopped"}]
  BY TreeFacts DEF TreeInv, TreeTypeOK
<1>2. tmode[i] = "persistent"
  BY <1>1 DEF IdOK
<1> DEFINE r == [Idle EXCEPT !.op = o, !.id = i, !.pc = "row"]
<1>3. o \in JobOps /\ i \in Ids \cup {NoId} /\ "row" \in JobPcs /\ TRUE \in BOOLEAN
  BY DEF JobOps, JobPcs
<1>4. Begun(r, o, i, "row", {})
  BY <1>3, BeginAt
<1>5. job' = [job EXCEPT ![j] = r]
  OBVIOUS
<1> HIDE DEF r
<1>6. JobOK(r) /\ SpawnOK(r)' /\ r \in JobRecs /\ r.op # "spawn"
  BY <1>2, <1>4, TreeAssumption DEF JobOK, SpawnOK, Begun
<1>7. /\ status' \in [Ids -> {"none", "running", "stopped"}]
      /\ children' \in [Ids -> SUBSET Ids] /\ ChildrenRegistered'
  BY <1>1, <1>3, Unregistered
<1>8. worker' \in [Ids -> {"none", "live", "dead"}]
  BY <1>1
<1>9. TreeTypeOK'
  BY <1>1, <1>5, <1>6, <1>7, <1>8, TreeTypes DEF TreeTypeOK
<1>10. \A k \in Ids : \/ k = i /\ status'[k] = "none" /\ worker'[k] = "none"
                      \/ k # i /\ status'[k] = status[k] /\ worker'[k] = worker[k]
  BY <1>1
<1>11. ASSUME NEW k \in Ids PROVE IdOK(k)'
  <2>1. IdOK(k)
    BY DEF TreeInv
  <2>2. CASE k = i
    BY <1>2, <1>10, <2>1, <2>2 DEF IdOK
  <2>3. CASE k # i
    BY <1>10, <2>1, <2>3 DEF IdOK
  <2> QED BY <2>2, <2>3
<1>12. \A k \in Ids : tmode[k] = "ephemeral" => status'[k] \in {status[k], "none"}
  BY <1>10
<1> QED BY <1>5, <1>6, <1>7, <1>9, <1>11, <1>12, OneJob

LEMMA TreeInvStart ==
    ASSUME TreeInv, NEW j \in Jobs, NEW i \in Ids, BeginStart(j, i)
    PROVE  TreeInv'
<1>1. ops' \in 0..MaxOps
  BY TreeFacts, CountedType DEF BeginStart
<1>2. /\ status[i] = "stopped" /\ status' = [status EXCEPT ![i] = "none"]
      /\ children' = Unregister(i, TRUE) /\ worker' = [worker EXCEPT ![i] = "none"]
      /\ job' = [job EXCEPT ![j] = [Idle EXCEPT !.op = "start", !.id = i, !.pc = "row"]]
      /\ tmode' = tmode /\ parent' = parent /\ channels' = channels /\ rows' = rows /\ dirs' = dirs
      /\ serving' = serving /\ returned' = returned /\ kept' = kept
      /\ crashes' = crashes /\ failures' = failures
  BY DEF BeginStart, Step
<1>3. "start" \in {"start", "restart"}
  OBVIOUS
<1> QED BY <1>1, <1>2, <1>3, RestartBegins

LEMMA TreeInvDetach == ASSUME TreeInv, NEW j \in Jobs, Detach(j) PROVE TreeInv'
<1>1. /\ TreeTypeOK /\ ChildrenRegistered /\ JobOK(job[j]) /\ SpawnOK(job[j]) /\ job[j] \in JobRecs
      /\ job[j].pc = "detach" /\ job[j].cur \in Ids \cup {NoId} /\ job[j].id \in Ids \cup {NoId}
      /\ status \in [Ids -> {"none", "running", "stopped"}]
      /\ children \in [Ids -> SUBSET Ids] /\ worker \in [Ids -> {"none", "live", "dead"}]
  BY TreeFacts DEF Detach, At, TreeTypeOK
<1>2. PICK i \in Ids : i = job[j].cur
  BY <1>1 DEF JobOK
<1>3. /\ tmode' = tmode /\ parent' = parent /\ channels' = channels /\ rows' = rows /\ dirs' = dirs
      /\ serving' = serving /\ returned' = returned /\ kept' = kept /\ ops' = ops
      /\ crashes' = crashes /\ failures' = failures
  BY DEF Detach
<1> DEFINE To(p) == [job[j] EXCEPT !.pc = p]
<1>4. \/ /\ tmode[i] = "persistent" /\ job' = [job EXCEPT ![j] = To("next")]
         /\ status' = status /\ children' = children /\ worker' = worker
      \/ /\ tmode[i] = "persistent" /\ status[i] # "none" /\ job' = [job EXCEPT ![j] = To("finish")]
         /\ status' = [status EXCEPT ![i] = "stopped"] /\ children' = children
         /\ worker' = [worker EXCEPT ![i] = "none"]
      \/ /\ \E known \in BOOLEAN : /\ known \/ status[i] = "none"
                                   /\ children' = Unregister(i, known)
         /\ status' = [status EXCEPT ![i] = "none"] /\ job' = [job EXCEPT ![j] = To("finish")]
         /\ worker' = [worker EXCEPT ![i] = "none"]
  BY <1>2 DEF Detach, Goto, Step
<1>5. ASSUME NEW p \in {"next", "finish"}
      PROVE  /\ To(p) \in JobRecs /\ To(p).op = job[j].op /\ To(p).id = job[j].id /\ To(p).pc = p
             /\ To(p).todo = job[j].todo /\ To(p).cur = job[j].cur
  <2>1. p \in JobPcs
    BY DEF JobPcs
  <2> QED BY <1>1, <2>1, PcField
<1> HIDE DEF To
<1>6. ASSUME NEW p \in {"next", "finish"} PROVE JobOK(To(p))
  BY <1>1, <1>5 DEF JobOK
<1>7. job[j].op = "spawn" => tmode[job[j].id] = "ephemeral"
  BY <1>1 DEF JobOK
<1>8. CASE /\ tmode[i] = "persistent" /\ job' = [job EXCEPT ![j] = To("next")]
           /\ status' = status /\ children' = children /\ worker' = worker
  <2>1. SpawnOK(To("next"))
    BY <1>1, <1>2, <1>5, <1>7, <1>8 DEF SpawnOK
  <2>2. To("next") \in JobRecs /\ To("next").op = job[j].op /\ To("next").id = job[j].id
    BY <1>5
  <2>3. TreeTypeOK'
    BY <1>1, <1>3, <1>8, <2>2, TreeTypes DEF TreeTypeOK
  <2>4. JobOK(To("next"))
    BY <1>6
  <2> QED BY <1>3, <1>8, <2>1, <2>2, <2>3, <2>4, QuietStep
<1>9. PICK r \in JobRecs : r = To("finish")
  BY <1>5
<1>9a. PICK d, todo, o : d = job[j].id /\ todo = job[j].todo /\ o = job[j].op
  OBVIOUS
<1>9b. r.op = o /\ r.id = d /\ r.todo = todo /\ r.pc = "finish" /\ JobOK(r)
  BY <1>5, <1>6, <1>9, <1>9a
<1>10. CASE /\ tmode[i] = "persistent" /\ status[i] # "none"
            /\ job' = [job EXCEPT ![j] = To("finish")]
            /\ status' = [status EXCEPT ![i] = "stopped"] /\ children' = children
            /\ worker' = [worker EXCEPT ![i] = "none"]
  <2>1. \A k \in Ids : \/ k = i /\ status'[k] = "stopped" /\ worker'[k] = "none"
                       \/ k # i /\ status'[k] = status[k] /\ worker'[k] = worker[k]
    BY <1>1, <1>10
  <2>2. /\ status' \in [Ids -> {"none", "running", "stopped"}]
        /\ worker' \in [Ids -> {"none", "live", "dead"}]
    BY <1>1, <1>10
  <2>3. TreeTypeOK'
    BY <1>1, <1>3, <1>9, <1>10, <2>2, TreeTypes DEF TreeTypeOK
  <2>4. ChildrenRegistered'
    BY <1>1, <1>3, <1>10, <2>1 DEF ChildrenRegistered
  <2>5. ASSUME NEW k \in Ids PROVE IdOK(k)'
    <3>1. IdOK(k)
      BY DEF TreeInv
    <3>2. CASE k = i
      BY <1>3, <1>10, <2>1, <3>1, <3>2 DEF IdOK
    <3>3. CASE k # i
      BY <1>3, <2>1, <3>1, <3>3 DEF IdOK
    <3> QED BY <3>2, <3>3
  <2>6. \A k \in Ids : tmode[k] = "ephemeral" => status'[k] \in {status[k], "none"}
    BY <1>10, <2>1
  <2>7. SpawnOK(r)'
    <3> SUFFICES ASSUME o = "spawn"
                 PROVE  status'[d] = "none" \/ d \in todo
      BY <1>9b DEF SpawnOK
    <3>1. d # i /\ d \in Ids
      BY <1>1, <1>7, <1>10, <1>9a DEF JobOK
    <3>2. status[d] = "none" \/ d \in todo
      BY <1>1, <1>2, <1>9a, <3>1 DEF SpawnOK
    <3> QED BY <2>1, <3>1, <3>2
  <2>8. job' = [job EXCEPT ![j] = r] /\ (r.op = "spawn" => job[j].op = "spawn" /\ r.id = job[j].id)
    BY <1>9, <1>10, <1>9a, <1>9b
  <2> QED BY <1>3, <1>9b, <2>3, <2>4, <2>5, <2>6, <2>7, <2>8, OneJob
<1>11. ASSUME NEW known \in BOOLEAN, known \/ status[i] = "none", children' = Unregister(i, known),
              status' = [status EXCEPT ![i] = "none"], job' = [job EXCEPT ![j] = To("finish")],
              worker' = [worker EXCEPT ![i] = "none"]
       PROVE  TreeInv'
  <2>1. \A k \in Ids : \/ k = i /\ status'[k] = "none" /\ worker'[k] = "none"
                       \/ k # i /\ status'[k] = status[k] /\ worker'[k] = worker[k]
    BY <1>1, <1>11
  <2>2. worker' \in [Ids -> {"none", "live", "dead"}]
    BY <1>1, <1>11
  <2>3. /\ status' \in [Ids -> {"none", "running", "stopped"}]
        /\ children' \in [Ids -> SUBSET Ids] /\ ChildrenRegistered'
    BY <1>1, <1>3, <1>11, Unregistered
  <2>4. TreeTypeOK'
    BY <1>1, <1>3, <1>9, <1>11, <2>2, <2>3, TreeTypes DEF TreeTypeOK
  <2>5. ASSUME NEW k \in Ids PROVE IdOK(k)'
    <3>1. IdOK(k)
      BY DEF TreeInv
    <3>2. CASE k = i
      BY <1>3, <2>1, <3>1, <3>2 DEF IdOK
    <3>3. CASE k # i
      BY <1>3, <2>1, <3>1, <3>3 DEF IdOK
    <3> QED BY <3>2, <3>3
  <2>6. \A k \in Ids : tmode[k] = "ephemeral" => status'[k] \in {status[k], "none"}
    BY <2>1
  <2>7. SpawnOK(r)'
    <3> SUFFICES ASSUME o = "spawn"
                 PROVE  status'[d] = "none" \/ d \in todo
      BY <1>9b DEF SpawnOK
    <3>1. d \in Ids
      BY <1>1, <1>9a DEF JobOK
    <3>2. status[d] = "none" \/ d \in todo \/ d = i
      BY <1>1, <1>2, <1>9a DEF SpawnOK
    <3> QED BY <2>1, <3>1, <3>2
  <2>8. job' = [job EXCEPT ![j] = r] /\ (r.op = "spawn" => job[j].op = "spawn" /\ r.id = job[j].id)
    BY <1>9, <1>11, <1>9a, <1>9b
  <2> QED BY <1>3, <1>9b, <2>3, <2>4, <2>5, <2>6, <2>7, <2>8, OneJob
<1> QED BY <1>4, <1>8, <1>10, <1>11

\* An id is used for the first time: nothing is known of it.
LEMMA NewInstance ==
    ASSUME TreeInv, NEW j \in Jobs, NEW i \in Ids, tmode[i] = "none",
           NEW m \in {"ephemeral", "persistent"}, NEW o \in {"create", "spawn", "operator"},
           o = "spawn" <=> m = "ephemeral", tmode' = [tmode EXCEPT ![i] = m],
           parent' \in [Ids -> Ids \cup {NoId}], \A k \in Ids : k # i => parent'[k] = parent[k],
           job' = [job EXCEPT ![j] = [Idle EXCEPT !.op = o, !.id = i, !.pc = "row"]],
           status' = status, children' = children, worker' = worker, channels' = channels,
           rows' = rows, dirs' = dirs, serving' = serving, returned' = returned, kept' = kept,
           ops' \in 0..MaxOps, crashes' = crashes, failures' = failures
    PROVE  TreeInv'
<1>1. /\ TreeTypeOK /\ ChildrenRegistered /\ IdOK(i) /\ job \in [Jobs -> JobRecs]
      /\ tmode \in [Ids -> {"none", "ephemeral", "persistent"}] /\ OneSpawn /\ NotReturned
      /\ children \in [Ids -> SUBSET Ids] /\ i # NoId
  BY TreeFacts, TreeAssumption DEF TreeInv, TreeTypeOK
<1>2. status[i] = "none" /\ i \notin returned
  BY <1>1 DEF IdOK
<1>3. /\ tmode' \in [Ids -> {"none", "ephemeral", "persistent"}] /\ tmode'[i] = m
      /\ \A k \in Ids : k # i => tmode'[k] = tmode[k]
  BY <1>1
<1> DEFINE r == [Idle EXCEPT !.op = o, !.id = i, !.pc = "row"]
<1>4. o \in JobOps /\ i \in Ids \cup {NoId} /\ "row" \in JobPcs
  BY DEF JobOps, JobPcs
<1>5. Begun(r, o, i, "row", {})
  BY <1>4, BeginAt
<1>6. job' = [job EXCEPT ![j] = r]
  OBVIOUS
<1> HIDE DEF r
<1>7. r \in JobRecs /\ r.op = o /\ r.id = i /\ r.pc = "row" /\ r.todo = {} /\ r.cur = NoId
  BY <1>5 DEF Begun
<1>8. job' \in [Jobs -> JobRecs] /\ job'[j] = r /\ \A k \in Jobs : k # j => job'[k] = job[k]
  BY <1>1, <1>6, <1>7
<1>9. TreeTypeOK'
  BY <1>1, <1>3, <1>8 DEF TreeTypeOK
<1>10. ChildrenRegistered'
  <2> SUFFICES ASSUME NEW p \in Ids, NEW c \in children[p] PROVE status[c] # "none" /\ parent'[c] = p
    BY DEF ChildrenRegistered
  <2>1. status[c] # "none" /\ parent[c] = p /\ c \in Ids
    BY <1>1 DEF ChildrenRegistered
  <2> QED BY <1>2, <2>1
<1>11. ASSUME NEW k \in Ids PROVE IdOK(k)'
  <2>1. IdOK(k)
    BY DEF TreeInv
  <2>2. CASE k = i
    BY <1>1, <1>2, <1>3, <2>2 DEF IdOK
  <2>3. CASE k # i
    BY <1>3, <2>1, <2>3 DEF IdOK
  <2> QED BY <2>2, <2>3
<1>12. ASSUME NEW k \in Jobs, k # j
       PROVE  job[k].id # i /\ JobOK(job[k])' /\ SpawnOK(job[k])'
  <2>1. job'[k] = job[k] /\ JobOK(job[k]) /\ SpawnOK(job[k]) /\ job[k] \in JobRecs
    BY <1>1, <1>8, <1>12 DEF TreeInv
  <2>2. job[k].id # i /\ job[k].id \in Ids \cup {NoId} /\ job[k].todo \in SUBSET Ids
    BY <1>1, <2>1 DEF JobOK, JobRecs
  <2>3. job[k].id # NoId => tmode'[job[k].id] = tmode[job[k].id]
    BY <1>3, <2>2
  <2>4. job[k].op = "boot" => \A x \in job[k].todo : tmode'[x] = tmode[x]
    <3> SUFFICES ASSUME job[k].op = "boot", NEW x \in job[k].todo PROVE tmode'[x] = tmode[x]
      OBVIOUS
    <3>1. x \in Ids /\ tmode[x] = "persistent"
      BY <2>1, <2>2 DEF JobOK
    <3> QED BY <1>3, <3>1
  <2>5. JobOK(job[k])'
    BY <2>1, <2>3, <2>4 DEF JobOK
  <2>6. SpawnOK(job[k])'
    BY <2>1 DEF SpawnOK
  <2> QED BY <2>2, <2>5, <2>6
<1>13. JobOK(job[j])'
  BY <1>1, <1>3, <1>7, <1>8 DEF JobOK
<1>14. SpawnOK(job[j])'
  BY <1>2, <1>7, <1>8 DEF SpawnOK
<1>15. OneSpawn'
  <2> SUFFICES ASSUME NEW a \in Jobs, NEW b \in Jobs, job'[a].op = "spawn", job'[b].op = "spawn",
                      job'[a].id = job'[b].id, a # b
               PROVE  FALSE
    BY DEF OneSpawn
  <2>1. CASE a = j
    BY <1>7, <1>8, <1>12, <2>1
  <2>2. CASE b = j
    BY <1>7, <1>8, <1>12, <2>2
  <2>3. CASE a # j /\ b # j
    BY <1>1, <1>8, <2>3 DEF OneSpawn
  <2> QED BY <2>1, <2>2, <2>3
<1>16. NotReturned'
  BY <1>1, <1>2, <1>7, <1>8 DEF NotReturned
<1>17. \A k \in Jobs : JobOK(job[k])' /\ SpawnOK(job[k])'
  BY <1>12, <1>13, <1>14
<1> QED BY <1>9, <1>10, <1>11, <1>15, <1>16, <1>17 DEF TreeInv

LEMMA TreeInvCreate ==
    ASSUME TreeInv, NEW j \in Jobs, NEW i \in Ids, NEW p \in Ids, NEW m \in {"ephemeral", "persistent"},
           BeginCreate(j, i, p, m)
    PROVE  TreeInv'
<1>1. TreeTypeOK /\ parent \in [Ids -> Ids \cup {NoId}]
  BY TreeFacts DEF TreeTypeOK
<1>2. ops' \in 0..MaxOps
  BY <1>1, CountedType DEF BeginCreate
<1>3. PICK o \in {"create", "spawn", "operator"} : o = IF m = "ephemeral" THEN "spawn" ELSE "create"
  OBVIOUS
<1>4. /\ tmode[i] = "none" /\ tmode' = [tmode EXCEPT ![i] = m] /\ parent' = [parent EXCEPT ![i] = p]
      /\ job' = [job EXCEPT ![j] = [Idle EXCEPT !.op = o, !.id = i, !.pc = "row"]]
      /\ status' = status /\ children' = children /\ worker' = worker /\ channels' = channels
      /\ rows' = rows /\ dirs' = dirs /\ serving' = serving /\ returned' = returned /\ kept' = kept
      /\ crashes' = crashes /\ failures' = failures
  BY <1>3 DEF BeginCreate, NewId, Step
<1>5. parent' \in [Ids -> Ids \cup {NoId}] /\ \A k \in Ids : k # i => parent'[k] = parent[k]
  BY <1>1, <1>4
<1>6. o = "spawn" <=> m = "ephemeral"
  BY <1>3
<1> QED BY <1>2, <1>4, <1>5, <1>6, NewInstance

LEMMA TreeInvBootstrap == ASSUME TreeInv, NEW j \in Jobs, BootstrapOperator(j) PROVE TreeInv'
<1>1. TreeTypeOK /\ parent \in [Ids -> Ids \cup {NoId}] /\ ops \in 0..MaxOps
  BY TreeFacts DEF TreeTypeOK
<1>2. /\ parent' = parent /\ channels' = channels /\ rows' = rows /\ dirs' = dirs
      /\ returned' = returned /\ kept' = kept /\ ops' = ops /\ crashes' = crashes
      /\ failures' = failures
  BY DEF BootstrapOperator
<1>3. CASE /\ serving' = TRUE /\ Return(j)
           /\ UNCHANGED <<tmode, status, children, worker>>
  <2>1. /\ tmode' = tmode /\ status' = status /\ children' = children /\ worker' = worker
        /\ job' = [job EXCEPT ![j] = Idle] /\ serving' \in BOOLEAN
    BY <1>3 DEF Return, Step
  <2>2. TreeTypeOK'
    BY <1>1, <1>2, <2>1, IdleFields, TreeTypes DEF TreeTypeOK
  <2> QED BY <1>2, <2>1, <2>2, IdleFields, IdleOK, QuietStep
<1>4. ASSUME NEW i \in Operators, \A k \in Operators : status[k] = "stopped",
             status' = [status EXCEPT ![i] = "none"], children' = Unregister(i, TRUE),
             worker' = [worker EXCEPT ![i] = "none"],
             Step(j, [Idle EXCEPT !.op = "restart", !.id = i, !.pc = "row"]),
             UNCHANGED <<tmode, serving>>
      PROVE  TreeInv'
  <2>1. i \in Ids /\ status[i] = "stopped" /\ tmode' = tmode /\ serving' = serving
    BY <1>4 DEF Operators
  <2>2. "restart" \in {"start", "restart"}
    OBVIOUS
  <2>3. job' = [job EXCEPT ![j] = [Idle EXCEPT !.op = "restart", !.id = i, !.pc = "row"]]
    BY <1>4 DEF Step
  <2> QED BY <1>1, <1>2, <1>4, <2>1, <2>2, <2>3, RestartBegins
<1>5. ASSUME NEW i \in Ids, NewId(i), tmode' = [tmode EXCEPT ![i] = "persistent"],
             Step(j, [Idle EXCEPT !.op = "operator", !.id = i, !.pc = "row"]),
             UNCHANGED <<serving, status, children, worker>>
      PROVE  TreeInv'
  <2>1. /\ tmode[i] = "none" /\ serving' = serving /\ status' = status /\ children' = children
        /\ worker' = worker
        /\ job' = [job EXCEPT ![j] = [Idle EXCEPT !.op = "operator", !.id = i, !.pc = "row"]]
    BY <1>5 DEF NewId, Step
  <2>2. "persistent" \in {"ephemeral", "persistent"} /\ "operator" \in {"create", "spawn", "operator"}
        /\ ("operator" = "spawn" <=> "persistent" = "ephemeral")
    OBVIOUS
  <2>3. parent' \in [Ids -> Ids \cup {NoId}] /\ \A k \in Ids : k # i => parent'[k] = parent[k]
    BY <1>1, <1>2
  <2> QED BY <1>1, <1>2, <1>5, <2>1, <2>2, <2>3, NewInstance
<1> QED BY <1>3, <1>4, <1>5 DEF BootstrapOperator

LEMMA TreeInvRegister == ASSUME TreeInv, NEW j \in Jobs, Register(j) PROVE TreeInv'
<1>1. /\ TreeTypeOK /\ ChildrenRegistered /\ JobOK(job[j]) /\ SpawnOK(job[j]) /\ job[j] \in JobRecs
      /\ job \in [Jobs -> JobRecs] /\ job[j].pc = "register" /\ job[j].id \in Ids \cup {NoId}
      /\ status \in [Ids -> {"none", "running", "stopped"}]
      /\ worker \in [Ids -> {"none", "live", "dead"}] /\ OneSpawn /\ NotReturned
  BY TreeFacts DEF Register, At, TreeTypeOK, TreeInv
<1>2. PICK i \in Ids : i = job[j].id
  BY <1>1 DEF JobOK
<1>3. /\ tmode[i] # "none" /\ i # NoId
      /\ job[j].op = "spawn" \/ tmode[i] = "persistent"
      /\ i \notin returned
  <2>1. tmode[i] # "none" /\ i # NoId /\ (job[j].op = "spawn" \/ tmode[i] = "persistent")
    BY <1>1, <1>2, TreeAssumption DEF JobOK
  <2>2. IdOK(i)
    BY DEF TreeInv
  <2> QED BY <1>1, <1>2, <2>1, <2>2 DEF IdOK, NotReturned
<1>4. /\ tmode' = tmode /\ parent' = parent /\ channels' = channels /\ rows' = rows /\ dirs' = dirs
      /\ serving' = serving /\ returned' = returned /\ ops' = ops /\ crashes' = crashes
      /\ failures' = failures /\ kept' \in {kept, kept \cup {i}}
      /\ status' = [status EXCEPT ![i] = "running"] /\ children' = Enlist(i)
      /\ worker' = [worker EXCEPT ![i] = "live"]
  BY <1>2 DEF Register
<1> DEFINE h == [job[j] EXCEPT !.pc = "hook"]
           s(k) == [job[k] EXCEPT !.stale = @ \/ (job[k].cur = i)]
<1>5. job' = [k \in Jobs |-> IF k = j THEN h ELSE s(k)]
  BY <1>2 DEF Register
<1>6. "hook" \in JobPcs
  BY DEF JobPcs
<1>7. h \in JobRecs /\ h.op = job[j].op /\ h.id = job[j].id /\ h.pc = "hook" /\ h.todo = job[j].todo
  BY <1>1, <1>6, PcField
<1>8. ASSUME NEW k \in Jobs
      PROVE  /\ s(k) \in JobRecs /\ s(k).op = job[k].op /\ s(k).id = job[k].id /\ s(k).pc = job[k].pc
             /\ s(k).todo = job[k].todo /\ s(k).cur = job[k].cur
  <2> DEFINE b == job[k].stale \/ (job[k].cur = i)
  <2>1. job[k] \in JobRecs
    BY <1>1
  <2>2. b \in BOOLEAN /\ "none" \in {"none", "running", "stopped"}
    OBVIOUS
  <2>3. s(k) = [job[k] EXCEPT !.stale = b]
    OBVIOUS
  <2>4. PICK t : t = job[k]
    OBVIOUS
  <2> HIDE DEF b, s
  <2>5. LET q == [t EXCEPT !.stale = b]
        IN  /\ q \in JobRecs /\ q.op = t.op /\ q.id = t.id /\ q.pc = t.pc /\ q.todo = t.todo
            /\ q.cur = t.cur
    <3>1. t \in JobRecs
      BY <2>1, <2>4
    <3> HIDE <2>3, <2>4
    <3> QED BY <2>2, <3>1 DEF JobRecs
  <2> QED BY <2>3, <2>4, <2>5
<1> HIDE DEF h, s
<1>9. job'[j] = h /\ \A k \in Jobs : k # j => job'[k] = s(k)
  BY <1>5
<1>10. job' \in [Jobs -> JobRecs]
  BY <1>5, <1>7, <1>8
<1>11. \A k \in Jobs : job'[k].op = job[k].op /\ job'[k].id = job[k].id
  BY <1>7, <1>8, <1>9
<1>12. "running" \in {"running", "stopped"}
  OBVIOUS
<1>13. /\ status' \in [Ids -> {"none", "running", "stopped"}]
       /\ children' \in [Ids -> SUBSET Ids] /\ ChildrenRegistered'
  BY <1>1, <1>4, <1>12, Enlisted
<1>14. worker' \in [Ids -> {"none", "live", "dead"}] /\ kept' \subseteq Ids
  BY <1>1, <1>4 DEF TreeTypeOK
<1>15. TreeTypeOK'
  BY <1>1, <1>4, <1>10, <1>13, <1>14 DEF TreeTypeOK
<1>16. \A k \in Ids : \/ k = i /\ status'[k] = "running" /\ worker'[k] = "live"
                      \/ k # i /\ status'[k] = status[k] /\ worker'[k] = worker[k]
  BY <1>1, <1>4
<1>17. ASSUME NEW k \in Ids PROVE IdOK(k)'
  <2>1. IdOK(k)
    BY DEF TreeInv
  <2>2. CASE k = i
    BY <1>3, <1>4, <1>16, <2>1, <2>2 DEF IdOK
  <2>3. CASE k # i
    BY <1>4, <1>16, <2>1, <2>3 DEF IdOK
  <2> QED BY <2>2, <2>3
<1>18. JobOK(job[j])' /\ SpawnOK(job[j])'
  BY <1>1, <1>4, <1>7, <1>9 DEF JobOK, SpawnOK
<1>19. ASSUME NEW k \in Jobs, k # j PROVE JobOK(job[k])' /\ SpawnOK(job[k])'
  <2>1. /\ JobOK(job[k]) /\ SpawnOK(job[k]) /\ job[k] \in JobRecs
        /\ job'[k].op = job[k].op /\ job'[k].id = job[k].id /\ job'[k].pc = job[k].pc
        /\ job'[k].todo = job[k].todo /\ job'[k].cur = job[k].cur
    BY <1>1, <1>8, <1>9, <1>19 DEF TreeInv
  <2>2. JobOK(job[k])'
    BY <1>4, <2>1 DEF JobOK
  <2>3. ASSUME job[k].op = "spawn" PROVE job[k].id \in Ids /\ job[k].id # i
    <3>1. job[k].id \in Ids /\ tmode[job[k].id] = "ephemeral"
      BY <2>1, <2>3 DEF JobOK, JobRecs
    <3> QED BY <1>1, <1>2, <1>3, <1>19, <2>3, <3>1 DEF OneSpawn
  <2>4. job[k].op = "spawn" => status'[job[k].id] = status[job[k].id]
    BY <1>16, <2>3
  <2>5. SpawnOK(job[k])'
    BY <2>1, <2>4 DEF SpawnOK
  <2> QED BY <2>2, <2>5
<1>20. OneSpawn' /\ NotReturned'
  BY <1>1, <1>4, <1>11 DEF OneSpawn, NotReturned
<1>21. \A k \in Jobs : JobOK(job[k])' /\ SpawnOK(job[k])'
  BY <1>18, <1>19
<1> QED BY <1>13, <1>15, <1>17, <1>20, <1>21 DEF TreeInv

LEMMA TreeInvDies == ASSUME TreeInv, NEW i \in Ids, WorkerDies(i) PROVE TreeInv'
<1>1. TreeTypeOK /\ worker \in [Ids -> {"none", "live", "dead"}] /\ ChildrenRegistered
      /\ OneSpawn /\ NotReturned
  BY DEF TreeInv, TreeTypeOK
<1>2. /\ tmode' = tmode /\ parent' = parent /\ status' = status /\ children' = children
      /\ channels' = channels /\ rows' = rows /\ dirs' = dirs /\ job' = job /\ serving' = serving
      /\ returned' = returned /\ kept' = kept /\ crashes' = crashes /\ failures' = failures
      /\ worker[i] = "live" /\ worker' = [worker EXCEPT ![i] = "dead"]
  BY DEF WorkerDies
<1>3. ops' \in 0..MaxOps
  BY <1>1, CountedType DEF WorkerDies
<1>4. /\ worker' \in [Ids -> {"none", "live", "dead"}]
      /\ \A k \in Ids : worker'[k] # "none" => worker[k] # "none"
  BY <1>1, <1>2
<1>5. TreeTypeOK'
  BY <1>1, <1>2, <1>3, <1>4 DEF TreeTypeOK
<1>6. ChildrenRegistered' /\ OneSpawn' /\ NotReturned'
  BY <1>1, <1>2 DEF ChildrenRegistered, OneSpawn, NotReturned
<1>7. ASSUME NEW k \in Ids PROVE IdOK(k)'
  <2>1. IdOK(k)
    BY DEF TreeInv
  <2> QED BY <1>2, <1>4, <2>1 DEF IdOK
<1>8. ASSUME NEW k \in Jobs PROVE JobOK(job[k])' /\ SpawnOK(job[k])'
  <2>1. JobOK(job[k]) /\ SpawnOK(job[k])
    BY DEF TreeInv
  <2> QED BY <1>2, <2>1 DEF JobOK, SpawnOK
<1> QED BY <1>5, <1>6, <1>7, <1>8 DEF TreeInv

\* The process ends: nothing of the registry is left and nobody is at work.
LEMMA AllIdle ==
    ASSUME job' = [j \in Jobs |-> Idle]
    PROVE  /\ job' \in [Jobs -> JobRecs] /\ OneSpawn' /\ NotReturned'
           /\ \A j \in Jobs : JobOK(job[j])' /\ SpawnOK(job[j])'
<1>1. job' \in [Jobs -> JobRecs] /\ \A j \in Jobs : job'[j] = Idle
  BY IdleFields
<1>2. OneSpawn' /\ NotReturned'
  BY <1>1, IdleFields DEF OneSpawn, NotReturned
<1>3. ASSUME NEW j \in Jobs PROVE JobOK(job[j])' /\ SpawnOK(job[j])'
  BY <1>1, IdleFields DEF JobOK, SpawnOK
<1> QED BY <1>1, <1>2, <1>3

LEMMA TreeInvCrash == ASSUME TreeInv, Crash PROVE TreeInv'
<1>1. TreeTypeOK
  BY DEF TreeInv
<1>2. /\ tmode' = tmode /\ parent' = parent /\ rows' = rows /\ dirs' = dirs /\ returned' = returned
      /\ kept' = kept /\ ops' = ops /\ failures' = failures /\ channels' = {} /\ serving' = FALSE
      /\ status' = [i \in Ids |-> "none"] /\ children' = [i \in Ids |-> {}]
      /\ worker' = [i \in Ids |-> "none"] /\ job' = [j \in Jobs |-> Idle]
      /\ crashes < MaxCrashes /\ crashes' = crashes + 1
  BY DEF Crash
<1>3. /\ job' \in [Jobs -> JobRecs] /\ OneSpawn' /\ NotReturned'
      /\ \A j \in Jobs : JobOK(job[j])' /\ SpawnOK(job[j])'
  BY <1>2, AllIdle
<1>4. crashes' \in 0..MaxCrashes
  BY <1>1, <1>2, TreeAssumption DEF TreeTypeOK
<1>5. /\ status' \in [Ids -> {"none", "running", "stopped"}] /\ children' \in [Ids -> SUBSET Ids]
      /\ worker' \in [Ids -> {"none", "live", "dead"}]
  BY <1>2
<1>6. TreeTypeOK'
  BY <1>1, <1>2, <1>3, <1>4, <1>5 DEF TreeTypeOK
<1>7. ChildrenRegistered'
  BY <1>2 DEF ChildrenRegistered
<1>8. ASSUME NEW k \in Ids PROVE IdOK(k)'
  <2>1. IdOK(k) /\ status'[k] = "none" /\ worker'[k] = "none"
    BY <1>2 DEF TreeInv
  <2> QED BY <1>2, <2>1 DEF IdOK
<1> QED BY <1>3, <1>6, <1>7, <1>8 DEF TreeInv

LEMMA TreeInvRestore == ASSUME TreeInv, NEW j \in Jobs, Restore(j) PROVE TreeInv'
<1>1. TreeTypeOK /\ failures \in 0..MaxFailures
  BY TreeFacts DEF TreeTypeOK
<1>2. /\ tmode' = tmode /\ parent' = parent /\ worker' = worker /\ channels' = channels
      /\ serving' = serving /\ returned' = returned /\ ops' = ops /\ crashes' = crashes
      /\ \A i \in Ids : status[i] = "none"
  BY DEF Restore
<1> DEFINE ephemeral == {i \in Ids : rows[i] # "none" /\ tmode[i] = "ephemeral"}
           listed(gone) == {i \in Ids : rows[i] # "none"} \ (ephemeral \cup gone)
           stopped(gone) == {i \in listed(gone) : rows[i] = "stopped"}
           S(gone) == listed(gone) \ stopped(gone)
           P(gone) == IF S(gone) = {} THEN "operator" ELSE "next"
<1>3. PICK gone \in SUBSET Ids :
        /\ Cardinality(gone) <= MaxFailures - failures /\ failures' = failures + Cardinality(gone)
        /\ rows' = CascadeDelete(ephemeral \cup gone) /\ dirs' \subseteq dirs /\ kept' \subseteq kept
        /\ status' = [i \in Ids |-> IF i \in stopped(gone) THEN "stopped" ELSE "none"]
        /\ children' = [p \in Ids |-> {c \in stopped(gone) : parent[c] = p}]
        /\ job' = [job EXCEPT ![j] = [Idle EXCEPT !.op = "boot", !.todo = S(gone), !.pc = P(gone)]]
  BY DEF Restore, Step
<1>4. PICK T, U, p : T = stopped(gone) /\ U = S(gone) /\ p = P(gone)
  OBVIOUS
<1>5. /\ T \in SUBSET Ids /\ U \in SUBSET Ids /\ p \in {"operator", "next"}
      /\ \A i \in T \cup U : tmode[i] = "persistent"
  <2>1. \A i \in T \cup U : i \in Ids /\ rows[i] # "none" /\ tmode[i] # "ephemeral"
    BY <1>4
  <2>2. \A i \in Ids : IdOK(i) /\ tmode[i] \in {"none", "ephemeral", "persistent"}
    BY <1>1 DEF TreeInv, TreeTypeOK
  <2>3. \A i \in T \cup U : tmode[i] = "persistent"
    BY <2>1, <2>2 DEF IdOK
  <2> QED BY <1>4, <2>1, <2>3
<1>6. /\ status' = [i \in Ids |-> IF i \in T THEN "stopped" ELSE "none"]
      /\ children' = [q \in Ids |-> {c \in T : parent[c] = q}]
      /\ job' = [job EXCEPT ![j] = [Idle EXCEPT !.op = "boot", !.todo = U, !.pc = p]]
  BY <1>3, <1>4
<1> HIDE DEF ephemeral, listed, stopped, S, P
<1> DEFINE r == [Idle EXCEPT !.op = "boot", !.todo = U, !.pc = p]
<1>7. "boot" \in JobOps /\ p \in JobPcs
  BY <1>5 DEF JobOps, JobPcs
<1>8. Begun(r, "boot", NoId, p, U) /\ job' = [job EXCEPT ![j] = r]
  BY <1>5, <1>6, <1>7, BeginAll
<1> HIDE DEF r
<1>9. r \in JobRecs /\ r.op = "boot" /\ r.id = NoId /\ r.pc = p /\ r.todo = U /\ r.cur = NoId
  BY <1>8 DEF Begun
<1>10. JobOK(r) /\ SpawnOK(r)'
  BY <1>5, <1>9 DEF JobOK, SpawnOK
<1>11. /\ status' \in [Ids -> {"none", "running", "stopped"}] /\ children' \in [Ids -> SUBSET Ids]
       /\ \A i \in Ids : status'[i] = IF i \in T THEN "stopped" ELSE "none"
       /\ \A q \in Ids : \A c \in children'[q] : c \in T /\ parent[c] = q
  BY <1>5, <1>6
<1>12. rows' \in [Ids -> {"none", "running", "stopped"}] /\ \A i \in Ids : rows'[i] # "none" => rows[i] # "none"
  BY <1>1, <1>3, CascadeType
<1>13. failures' \in 0..MaxFailures
  <2>1. Cardinality(gone) \in Nat
    BY TreeAssumption, FS_Subset, FS_CardinalityType
  <2> QED BY <1>1, <1>3, <2>1, TreeAssumption
<1>14. TreeTypeOK'
  <2>1. dirs' \subseteq Ids /\ kept' \subseteq Ids
    BY <1>1, <1>3 DEF TreeTypeOK
  <2> QED BY <1>1, <1>2, <1>8, <1>9, <1>11, <1>12, <1>13, <2>1, TreeTypes DEF TreeTypeOK
<1>15. ChildrenRegistered'
  BY <1>2, <1>5, <1>11 DEF ChildrenRegistered
<1>16. ASSUME NEW k \in Ids PROVE IdOK(k)'
  <2>1. IdOK(k) /\ status[k] = "none"
    BY <1>2 DEF TreeInv
  <2>2. k \in T => tmode[k] = "persistent"
    BY <1>5
  <2> QED BY <1>2, <1>11, <1>12, <2>1, <2>2 DEF IdOK
<1>17. \A k \in Ids : tmode[k] = "ephemeral" => status'[k] \in {status[k], "none"}
  BY <1>5, <1>11
<1> QED BY <1>2, <1>8, <1>9, <1>10, <1>14, <1>15, <1>16, <1>17, OneJob

LEMMA TreeInvInit == TreeInit => TreeInv
<1> SUFFICES ASSUME TreeInit PROVE TreeInv
  OBVIOUS
<1>1. /\ job = [j \in Jobs |-> Idle] /\ status = [i \in Ids |-> "none"]
      /\ worker = [i \in Ids |-> "none"] /\ children = [i \in Ids |-> {}] /\ returned = {}
      /\ tmode = [i \in Ids |-> "none"] /\ rows = [i \in Ids |-> "none"]
      /\ parent = [i \in Ids |-> NoId]
  BY DEF TreeInit
<1>2. job \in [Jobs -> JobRecs] /\ \A j \in Jobs : job[j] = Idle
  BY <1>1, IdleFields
<1>3. /\ status \in [Ids -> {"none", "running", "stopped"}] /\ children \in [Ids -> SUBSET Ids]
      /\ worker \in [Ids -> {"none", "live", "dead"}]
      /\ rows \in [Ids -> {"none", "running", "stopped"}]
      /\ parent \in [Ids -> Ids \cup {NoId}] /\ tmode \in [Ids -> {"none", "ephemeral", "persistent"}]
  BY <1>1
<1>4. /\ serving = FALSE /\ channels = {} /\ dirs = {} /\ kept = {}
      /\ ops \in 0..MaxOps /\ crashes \in 0..MaxCrashes /\ failures \in 0..MaxFailures
  BY TreeAssumption DEF TreeInit
<1>7. TreeTypeOK
  BY <1>1, <1>2, <1>3, <1>4 DEF TreeTypeOK
<1>5. ChildrenRegistered /\ \A i \in Ids : IdOK(i)
  BY <1>1 DEF ChildrenRegistered, IdOK
<1>6. OneSpawn /\ NotReturned
  BY <1>2, IdleFields DEF OneSpawn, NotReturned
<1> QED BY <1>2, <1>5, <1>6, <1>7, IdleOK DEF TreeInv

LEMMA TreeInvNext == TreeInv /\ [TreeNext]_treeVars => TreeInv'
<1> SUFFICES ASSUME TreeInv, [TreeNext]_treeVars PROVE TreeInv'
  OBVIOUS
<1>1. ASSUME NEW j \in Jobs, TreeStep(j) PROVE TreeInv'
  BY <1>1, TreeInvRow, TreeInvSpawn, TreeInvRegister, TreeInvHook, TreeInvStatus, TreeInvChat,
     TreeInvNextIn, TreeInvDetach, TreeInvFinish, TreeInvReturns, TreeInvRestore,
     TreeInvRestoreNext, TreeInvBootstrap, TreeInvShutdown DEF TreeStep
<1>2. ASSUME NEW j \in Jobs, NEW i \in Ids,
             \/ \E p \in Ids, m \in {"ephemeral", "persistent"} : BeginCreate(j, i, p, m)
             \/ BeginStart(j, i)
             \/ \E op \in {"stop", "delete"} : BeginTeardown(j, i, op)
             \/ BeginDeath(j, i)
      PROVE  TreeInv'
  BY <1>2, TreeInvCreate, TreeInvStart, TreeInvTeardown, TreeInvDeath
<1>3. CASE UNCHANGED treeVars
  <2>1. /\ tmode' = tmode /\ parent' = parent /\ status' = status /\ children' = children
        /\ worker' = worker /\ channels' = channels /\ rows' = rows /\ dirs' = dirs /\ job' = job
        /\ serving' = serving /\ returned' = returned /\ kept' = kept /\ ops' = ops
        /\ crashes' = crashes /\ failures' = failures
    BY <1>3 DEF treeVars
  <2>2. TreeTypeOK' /\ ChildrenRegistered' /\ OneSpawn' /\ NotReturned'
    BY <2>1 DEF TreeInv, TreeTypeOK, ChildrenRegistered, OneSpawn, NotReturned
  <2>3. ASSUME NEW i \in Ids PROVE IdOK(i)'
    <3>1. IdOK(i)
      BY DEF TreeInv
    <3> QED BY <2>1, <3>1 DEF IdOK
  <2>4. ASSUME NEW k \in Jobs PROVE JobOK(job[k])' /\ SpawnOK(job[k])'
    <3>1. JobOK(job[k]) /\ SpawnOK(job[k])
      BY DEF TreeInv
    <3> QED BY <2>1, <3>1 DEF JobOK, SpawnOK
  <2> QED BY <2>2, <2>3, <2>4 DEF TreeInv
<1> QED BY <1>1, <1>2, <1>3, TreeInvDies, TreeInvCrash DEF TreeNext

\* The registry, the rows and the operations under way keep their types.
THEOREM TreeTypeCorrect == TreeSpec => []TreeTypeOK
<1>1. TreeInv => TreeTypeOK
  BY DEF TreeInv
<1> QED BY <1>1, TreeInvInit, TreeInvNext, PTL DEF TreeSpec

\* m.children lists only registered instances, each under its own parent,
\* however stops, deletes, restarts, deaths and crashes overlap (manager.go,
\* unregisterLocked).
THEOREM ChildrenAlwaysRegistered == TreeSpec => []ChildrenRegistered
<1>1. TreeInv => ChildrenRegistered
  BY DEF TreeInv
<1> QED BY <1>1, TreeInvInit, TreeInvNext, PTL DEF TreeSpec

\* When SpawnEphemeral has returned, its instance is out of the registry and
\* has no worker, whatever else stopped, deleted or killed it meanwhile
\* (manager_lifecycle.go, SpawnEphemeral).
THEOREM SpawnsLeaveNothing == TreeSpec => []SpawnLeavesNothing
<1>1. TreeInv => SpawnLeavesNothing
  <2> SUFFICES ASSUME TreeInv, NEW i \in returned PROVE status[i] = "none" /\ worker[i] = "none"
    BY DEF SpawnLeavesNothing
  <2>1. i \in Ids
    BY DEF TreeInv, TreeTypeOK
  <2>2. IdOK(i)
    BY <2>1 DEF TreeInv
  <2> QED BY <2>2 DEF IdOK
<1> QED BY <1>1, TreeInvInit, TreeInvNext, PTL DEF TreeSpec

-----------------------------------------------------------------------------
(***************************************************************************)
(* What the model is told.  A full listing is sent when the messages sent  *)
(* with it announce nothing; as long as no request goes back in the        *)
(* history, what precedes it in any later request is a part of those, and  *)
(* announces nothing either.                                               *)
(***************************************************************************)
IsSeq(s) == \E S : s \in Seq(S)
OfType(type, m) == {e \in m : e.type = type}
SourceTypes == {"secrets", "agents", "memory", "todos", "nodes", "mounts", "subscriptions"}

SourcesOK ==
    /\ DOMAIN sources = SourceTypes
    /\ sources.secrets \subseteq Names /\ sources.agents \subseteq Names
    /\ DOMAIN skills = Dirs /\ \A d \in Dirs : skills[d].names \subseteq Names

\* An entry lists what it adds, adds nothing that it removes.
Consistent(e) ==
    /\ e.added \subseteq Names /\ e.added \cap e.removed = {}
    /\ e.initial => e.listing = e.added
Formed(msgs) == \A k \in DOMAIN msgs : \A e \in msgs[k] : e.type \in NamedSets => Consistent(e)

\* Of the messages from first on, what was added before a full listing is gone
\* by then.
Fresh(type, msgs, first) ==
    \A j, k \in Telling(type, msgs) :
        first <= k /\ k < j /\ EntryOf(type, msgs[j]).initial =>
            \A n \in EntryOf(type, msgs[k]).added :
                \E l \in Telling(type, msgs) :
                    k <= l /\ l < j /\ n \in EntryOf(type, msgs[l]).removed

ToldInv ==
    /\ IsSeq(stored) /\ Formed(stored)
    /\ cutoff \in 1..(Len(stored) + 1)
    /\ ~widened => \A type \in NamedSets : Fresh(type, stored, cutoff)
    /\ DOMAIN chat = {"pc", "sent", "read"}
    /\ chat.pc = "deltas" => DOMAIN chat.read = {}
    /\ chat.pc = "deltas" =>
         \E first \in 1..(Len(stored) + 1) :
            /\ chat.sent = SubSeq(stored, first, Len(stored))
            /\ ~widened => first = cutoff
    /\ SourcesOK
    /\ ToldIsCurrent

-----------------------------------------------------------------------------
LEMMA EntryFacts ==
    ASSUME NEW type, NEW msgs, NEW k \in Telling(type, msgs)
    PROVE  /\ k \in DOMAIN msgs
           /\ EntryOf(type, msgs[k]) \in msgs[k] /\ EntryOf(type, msgs[k]).type = type
BY DEF Telling, EntryOf

LEMMA OnlyEntry ==
    ASSUME NEW type, NEW m, NEW e, OfType(type, m) = {e}
    PROVE  EntryOf(type, m) = e
BY DEF OfType, EntryOf

\* Appending a message.
LEMMA AppendFacts ==
    ASSUME NEW msgs, IsSeq(msgs), NEW m
    PROVE  /\ IsSeq(Append(msgs, m)) /\ Len(msgs) \in Nat /\ DOMAIN msgs = 1..Len(msgs)
           /\ DOMAIN Append(msgs, m) = 1..Len(msgs) + 1
           /\ Append(msgs, m)[Len(msgs) + 1] = m
           /\ \A k \in DOMAIN msgs : Append(msgs, m)[k] = msgs[k]
<1>1. PICK S : msgs \in Seq(S)
  BY DEF IsSeq
<1>2. Append(msgs, m) \in Seq(S \cup {m}) /\ msgs \in Seq(S \cup {m})
  BY <1>1
<1> QED BY <1>2 DEF IsSeq

LEMMA TellingAppend ==
    ASSUME NEW msgs, IsSeq(msgs), NEW m, NEW type
    PROVE  /\ OfType(type, m) = {} => Telling(type, Append(msgs, m)) = Telling(type, msgs)
           /\ OfType(type, m) # {} =>
                Telling(type, Append(msgs, m)) = Telling(type, msgs) \cup {Len(msgs) + 1}
<1>3. /\ IsSeq(Append(msgs, m)) /\ Len(msgs) \in Nat /\ DOMAIN msgs = 1..Len(msgs)
      /\ DOMAIN Append(msgs, m) = 1..Len(msgs) + 1
      /\ Append(msgs, m)[Len(msgs) + 1] = m
      /\ \A k \in DOMAIN msgs : Append(msgs, m)[k] = msgs[k]
  BY AppendFacts
<1>4. ASSUME OfType(type, m) = {} PROVE Telling(type, Append(msgs, m)) = Telling(type, msgs)
  <2>1. \A e \in m : e.type # type
    BY <1>4 DEF OfType
  <2> QED BY <1>3, <2>1 DEF Telling
<1>5. ASSUME OfType(type, m) # {}
      PROVE  Telling(type, Append(msgs, m)) = Telling(type, msgs) \cup {Len(msgs) + 1}
  <2>1. \E e \in m : e.type = type
    BY <1>5 DEF OfType
  <2> QED BY <1>3, <2>1 DEF Telling
<1> QED BY <1>4, <1>5

\* The newest messages.
LEMMA TellingSuffix ==
    ASSUME NEW msgs, IsSeq(msgs), NEW first \in 1..(Len(msgs) + 1), NEW type
    PROVE  /\ IsSeq(SubSeq(msgs, first, Len(msgs)))
           /\ Len(msgs) \in Nat /\ first \in Nat
           /\ Telling(type, msgs) \subseteq 1..Len(msgs)
           /\ Telling(type, SubSeq(msgs, first, Len(msgs))) \subseteq Nat
           /\ \A k \in DOMAIN SubSeq(msgs, first, Len(msgs)) :
                /\ k \in Nat /\ k + first - 1 \in DOMAIN msgs /\ k >= 1
                /\ SubSeq(msgs, first, Len(msgs))[k] = msgs[k + first - 1]
           /\ \A k \in Telling(type, SubSeq(msgs, first, Len(msgs))) :
                k + first - 1 \in Telling(type, msgs)
           /\ \A k \in Telling(type, msgs) : k >= first =>
                /\ k - first + 1 \in Telling(type, SubSeq(msgs, first, Len(msgs)))
                /\ SubSeq(msgs, first, Len(msgs))[k - first + 1] = msgs[k]
<1>1. PICK S : msgs \in Seq(S)
  BY DEF IsSeq
<1>2. PICK r : r = SubSeq(msgs, first, Len(msgs))
  OBVIOUS
<1>3. /\ r \in Seq(S) /\ Len(msgs) \in Nat /\ first \in Nat /\ DOMAIN msgs = 1..Len(msgs)
      /\ DOMAIN r = 1..(Len(msgs) - first + 1)
      /\ \A k \in 1..(Len(msgs) - first + 1) : r[k] = msgs[k + first - 1]
  BY <1>1, <1>2
<1>4. \A k \in DOMAIN r : k \in Nat /\ k + first - 1 \in DOMAIN msgs /\ k >= 1 /\ r[k] = msgs[k + first - 1]
  BY <1>3
<1>5. \A k \in DOMAIN msgs : k >= first => k - first + 1 \in DOMAIN r /\ r[k - first + 1] = msgs[k]
  <2> SUFFICES ASSUME NEW k \in 1..Len(msgs), k >= first
               PROVE  k - first + 1 \in 1..(Len(msgs) - first + 1) /\ r[k - first + 1] = msgs[k]
    BY <1>3
  <2>1. k - first + 1 \in 1..(Len(msgs) - first + 1) /\ (k - first + 1) + first - 1 = k
    BY <1>3
  <2>2. r[k - first + 1] = msgs[(k - first + 1) + first - 1]
    BY <1>3, <2>1
  <2> QED BY <2>1, <2>2
<1>6. /\ Telling(type, msgs) \subseteq 1..Len(msgs) /\ Telling(type, r) \subseteq Nat
      /\ \A k \in Telling(type, r) : k + first - 1 \in Telling(type, msgs)
  BY <1>3, <1>4 DEF Telling
<1>7. \A k \in Telling(type, msgs) : k >= first =>
        k - first + 1 \in Telling(type, r) /\ r[k - first + 1] = msgs[k]
  BY <1>5 DEF Telling
<1>8. IsSeq(r)
  BY <1>3 DEF IsSeq
<1> QED BY <1>2, <1>3, <1>4, <1>6, <1>7, <1>8

LEMMA FormedSuffix ==
    ASSUME NEW msgs, IsSeq(msgs), Formed(msgs), NEW first \in 1..(Len(msgs) + 1)
    PROVE  Formed(SubSeq(msgs, first, Len(msgs)))
<1>1. \A k \in DOMAIN SubSeq(msgs, first, Len(msgs)) :
        /\ k + first - 1 \in DOMAIN msgs
        /\ SubSeq(msgs, first, Len(msgs))[k] = msgs[k + first - 1]
  BY TellingSuffix
<1> QED BY <1>1 DEF Formed

LEMMA FreshSuffix ==
    ASSUME NEW msgs, IsSeq(msgs), NEW first \in 1..(Len(msgs) + 1), NEW type,
           Fresh(type, msgs, first)
    PROVE  Fresh(type, SubSeq(msgs, first, Len(msgs)), 1)
<1>1. PICK r : r = SubSeq(msgs, first, Len(msgs))
  OBVIOUS
<1>2. /\ Len(msgs) \in Nat /\ first \in Nat /\ Telling(type, msgs) \subseteq 1..Len(msgs)
      /\ Telling(type, r) \subseteq Nat
      /\ \A k \in Telling(type, r) : k >= 1 /\ k + first - 1 \in Telling(type, msgs) /\ r[k] = msgs[k + first - 1]
      /\ \A k \in Telling(type, msgs) : k >= first =>
           k - first + 1 \in Telling(type, r) /\ r[k - first + 1] = msgs[k]
  <2>1. \A k \in Telling(type, r) : k \in DOMAIN r
    BY DEF Telling
  <2>2. /\ Len(msgs) \in Nat /\ first \in Nat /\ Telling(type, msgs) \subseteq 1..Len(msgs)
        /\ Telling(type, r) \subseteq Nat
        /\ \A k \in DOMAIN r : k >= 1 /\ r[k] = msgs[k + first - 1]
        /\ \A k \in Telling(type, r) : k + first - 1 \in Telling(type, msgs)
        /\ \A k \in Telling(type, msgs) : k >= first =>
             k - first + 1 \in Telling(type, r) /\ r[k - first + 1] = msgs[k]
    BY <1>1, TellingSuffix
  <2> QED BY <2>1, <2>2
<1> SUFFICES ASSUME NEW j \in Telling(type, r), NEW k \in Telling(type, r), k < j,
                    EntryOf(type, r[j]).initial, NEW n \in EntryOf(type, r[k]).added
             PROVE  \E l \in Telling(type, r) :
                        k <= l /\ l < j /\ n \in EntryOf(type, r[l]).removed
  BY <1>1 DEF Fresh
<1>3. /\ k + first - 1 \in Telling(type, msgs) /\ j + first - 1 \in Telling(type, msgs)
      /\ r[k] = msgs[k + first - 1] /\ r[j] = msgs[j + first - 1] /\ k >= 1
      /\ first <= k + first - 1 /\ k + first - 1 < j + first - 1
  BY <1>2
<1>4. PICK l \in Telling(type, msgs) :
        k + first - 1 <= l /\ l < j + first - 1 /\ n \in EntryOf(type, msgs[l]).removed
  BY <1>3 DEF Fresh
<1>5. l >= first /\ k <= l - first + 1 /\ l - first + 1 < j
  <2>1. l \in Nat /\ k \in Nat /\ j \in Nat /\ first \in Nat
    BY <1>2
  <2> QED BY <1>3, <1>4, <2>1
<1>6. l - first + 1 \in Telling(type, r) /\ r[l - first + 1] = msgs[l]
  BY <1>2, <1>5
<1> QED BY <1>4, <1>5, <1>6

-----------------------------------------------------------------------------
\* Both readings agree with the replay.
LEMMA AddingReader ==
    ASSUME NEW type \in NamedSets, NEW msgs, IsSeq(msgs), Formed(msgs)
    PROVE  Understood(type, msgs, FALSE) = ReplayAnnounced(type, msgs)
<1>1. \A k \in Telling(type, msgs) : k \in Nat /\ Consistent(EntryOf(type, msgs[k]))
  BY EntryFacts DEF Formed, IsSeq
<1>2. ASSUME NEW n \in Names, n \in Understood(type, msgs, FALSE)
      PROVE  n \in ReplayAnnounced(type, msgs)
  <2>1. PICK k \in Telling(type, msgs) :
          /\ n \in IF EntryOf(type, msgs[k]).initial THEN EntryOf(type, msgs[k]).listing
                   ELSE EntryOf(type, msgs[k]).added
          /\ \A j \in Telling(type, msgs) : j > k => n \notin EntryOf(type, msgs[j]).removed
    BY <1>2 DEF Understood
  <2>2. n \in EntryOf(type, msgs[k]).added /\ n \notin EntryOf(type, msgs[k]).removed
    BY <1>1, <2>1 DEF Consistent
  <2>3. \A j \in Telling(type, msgs) : j >= k => n \notin EntryOf(type, msgs[j]).removed
    BY <1>1, <2>1, <2>2
  <2> QED BY <2>2, <2>3 DEF ReplayAnnounced
<1>3. ASSUME NEW n \in Names, n \in ReplayAnnounced(type, msgs)
      PROVE  n \in Understood(type, msgs, FALSE)
  <2>1. PICK k \in Telling(type, msgs) :
          /\ n \in EntryOf(type, msgs[k]).added
          /\ \A j \in Telling(type, msgs) : j >= k => n \notin EntryOf(type, msgs[j]).removed
    BY <1>3 DEF ReplayAnnounced
  <2>2. n \in IF EntryOf(type, msgs[k]).initial THEN EntryOf(type, msgs[k]).listing
              ELSE EntryOf(type, msgs[k]).added
    BY <1>1, <2>1 DEF Consistent
  <2>3. \A j \in Telling(type, msgs) : j > k => n \notin EntryOf(type, msgs[j]).removed
    BY <1>1, <2>1
  <2> QED BY <2>2, <2>3 DEF Understood
<1> QED BY <1>2, <1>3 DEF Understood, ReplayAnnounced

LEMMA ReplacingReader ==
    ASSUME NEW type \in NamedSets, NEW msgs, IsSeq(msgs), Formed(msgs), Fresh(type, msgs, 1)
    PROVE  Understood(type, msgs, TRUE) = ReplayAnnounced(type, msgs)
<1>1. \A k \in Telling(type, msgs) : k \in Nat /\ 1 <= k /\ Consistent(EntryOf(type, msgs[k]))
  BY EntryFacts DEF Formed, IsSeq
<1>2. Understood(type, msgs, FALSE) = ReplayAnnounced(type, msgs)
  BY AddingReader
<1>3. Understood(type, msgs, TRUE) \subseteq Understood(type, msgs, FALSE)
  BY DEF Understood
<1>4. ASSUME NEW n \in Names, n \in ReplayAnnounced(type, msgs)
      PROVE  n \in Understood(type, msgs, TRUE)
  <2>1. PICK k \in Telling(type, msgs) :
          /\ n \in EntryOf(type, msgs[k]).added
          /\ \A j \in Telling(type, msgs) : j >= k => n \notin EntryOf(type, msgs[j]).removed
    BY <1>4 DEF ReplayAnnounced
  <2>2. n \in IF EntryOf(type, msgs[k]).initial THEN EntryOf(type, msgs[k]).listing
              ELSE EntryOf(type, msgs[k]).added
    BY <1>1, <2>1 DEF Consistent
  <2>3. ASSUME NEW j \in Telling(type, msgs), j > k
        PROVE  n \notin EntryOf(type, msgs[j]).removed /\ ~EntryOf(type, msgs[j]).initial
    <3>1. n \notin EntryOf(type, msgs[j]).removed
      BY <1>1, <2>1, <2>3
    <3>2. ASSUME EntryOf(type, msgs[j]).initial PROVE FALSE
      <4>1. 1 <= k /\ k < j
        BY <1>1, <2>3
      <4>2. PICK l \in Telling(type, msgs) : k <= l /\ n \in EntryOf(type, msgs[l]).removed
        BY <2>1, <3>2, <4>1 DEF Fresh
      <4> QED BY <1>1, <2>1, <4>2
    <3> QED BY <3>1, <3>2
  <2> QED BY <2>2, <2>3 DEF Understood
<1> QED BY <1>2, <1>3, <1>4 DEF Understood, ReplayAnnounced

\* A message about the names there are brings the replay up to date.
LEMMA NamedAppend ==
    ASSUME NEW type \in NamedSets, NEW msgs, IsSeq(msgs), NEW cur \in SUBSET Names, NEW m,
           OfType(type, m) = NamedDelta(type, cur, msgs)
    PROVE  /\ OfType(type, m) = {} => ReplayAnnounced(type, msgs) = cur
           /\ ReplayAnnounced(type, Append(msgs, m)) = cur
<1>1. PICK old : old = ReplayAnnounced(type, msgs)
  OBVIOUS
<1>2. PICK e : e = [type |-> type, added |-> cur \ old, removed |-> old \ cur,
                    initial |-> old = {}, listing |-> cur]
  OBVIOUS
<1>3. OfType(type, m) = IF old = cur THEN {} ELSE {e}
  BY <1>1, <1>2 DEF NamedDelta
<1>4. OfType(type, m) = {} => old = cur
  BY <1>3
<1>5. PICK r : r = Append(msgs, m)
  OBVIOUS
<1>6. /\ Len(msgs) \in Nat /\ DOMAIN msgs = 1..Len(msgs) /\ r[Len(msgs) + 1] = m
      /\ \A k \in DOMAIN msgs : r[k] = msgs[k]
      /\ OfType(type, m) = {} => Telling(type, r) = Telling(type, msgs)
      /\ OfType(type, m) # {} => Telling(type, r) = Telling(type, msgs) \cup {Len(msgs) + 1}
  BY <1>5, AppendFacts, TellingAppend
<1>7. Telling(type, msgs) \subseteq DOMAIN msgs
  BY DEF Telling
<1>8. CASE old = cur
  <2>1. Telling(type, r) = Telling(type, msgs)
    BY <1>3, <1>6, <1>8
  <2>2. \A k \in Telling(type, msgs) : r[k] = msgs[k]
    BY <1>6, <1>7
  <2>3. ReplayAnnounced(type, r) = old
    BY <1>1, <2>1, <2>2 DEF ReplayAnnounced
  <2> QED BY <1>1, <1>5, <1>8, <2>3
<1>9. CASE old # cur
  <2>1. OfType(type, m) = {e}
    BY <1>3, <1>9
  <2>2. EntryOf(type, m) = e
    BY <2>1, OnlyEntry
  <2>3. /\ EntryOf(type, r[Len(msgs) + 1]).added = cur \ old
        /\ EntryOf(type, r[Len(msgs) + 1]).removed = old \ cur
    BY <1>2, <1>6, <2>2
  <2>4. Telling(type, r) = Telling(type, msgs) \cup {Len(msgs) + 1}
    BY <1>6, <2>1
  <2>5. \A k \in Telling(type, msgs) : k \in Nat /\ k < Len(msgs) + 1 /\ r[k] = msgs[k]
    BY <1>6, <1>7
  <2>6. old \subseteq Names
    BY <1>1 DEF ReplayAnnounced
  <2>7. ASSUME NEW n \in Names, n \in cur PROVE n \in ReplayAnnounced(type, r)
    <3>1. CASE n \in old
      <4>1. PICK k \in Telling(type, msgs) :
              /\ n \in EntryOf(type, msgs[k]).added
              /\ \A j \in Telling(type, msgs) : j >= k => n \notin EntryOf(type, msgs[j]).removed
        BY <1>1, <3>1 DEF ReplayAnnounced
      <4>2. \A j \in Telling(type, r) : j >= k => n \notin EntryOf(type, r[j]).removed
        BY <2>3, <2>4, <2>5, <2>7, <4>1
      <4>3. k \in Telling(type, r) /\ n \in EntryOf(type, r[k]).added
        BY <2>4, <2>5, <4>1
      <4> QED BY <4>2, <4>3 DEF ReplayAnnounced
    <3>2. CASE n \notin old
      <4>1. \A j \in Telling(type, r) : j >= Len(msgs) + 1 => j = Len(msgs) + 1
        BY <1>6, <2>4, <2>5
      <4>2. \A j \in Telling(type, r) : j >= Len(msgs) + 1 => n \notin EntryOf(type, r[j]).removed
        BY <2>3, <3>2, <4>1
      <4>3. Len(msgs) + 1 \in Telling(type, r) /\ n \in EntryOf(type, r[Len(msgs) + 1]).added
        BY <2>3, <2>4, <2>7, <3>2
      <4> QED BY <4>2, <4>3 DEF ReplayAnnounced
    <3> QED BY <3>1, <3>2
  <2>8. ASSUME NEW n \in Names, n \in ReplayAnnounced(type, r) PROVE n \in cur
    <3>1. PICK k \in Telling(type, r) :
            /\ n \in EntryOf(type, r[k]).added
            /\ \A j \in Telling(type, r) : j >= k => n \notin EntryOf(type, r[j]).removed
      BY <2>8 DEF ReplayAnnounced
    <3>2. CASE k = Len(msgs) + 1
      BY <2>3, <3>1, <3>2
    <3>3. CASE k \in Telling(type, msgs)
      <4>1. n \in EntryOf(type, msgs[k]).added
        BY <2>5, <3>1, <3>3
      <4>2. \A j \in Telling(type, msgs) : j >= k => n \notin EntryOf(type, msgs[j]).removed
        BY <2>4, <2>5, <3>1
      <4>3. n \in old
        BY <1>1, <3>3, <4>1, <4>2 DEF ReplayAnnounced
      <4>4. n \notin old \ cur
        BY <1>6, <2>3, <2>4, <2>5, <3>1, <3>3
      <4> QED BY <4>3, <4>4
    <3> QED BY <2>4, <3>1, <3>2, <3>3
  <2>9. ReplayAnnounced(type, r) \subseteq Names
    BY DEF ReplayAnnounced
  <2>10. ReplayAnnounced(type, r) = cur
    BY <2>7, <2>8, <2>9
  <2> QED BY <1>4, <1>1, <1>5, <1>9, <2>10
<1> QED BY <1>8, <1>9

\* There is a newest message about a type, if there is any.
LEMMA NewestMessage ==
    ASSUME NEW n \in Nat, NEW S \in SUBSET (1..n), S # {}
    PROVE  \E k \in S : \A j \in S : j <= k
<1>1. PICK R : R = {n - k : k \in S}
  OBVIOUS
<1>2. R \subseteq Nat /\ R # {}
  <2>1. \A k \in S : n - k \in Nat
    OBVIOUS
  <2>2. PICK k \in S : TRUE
    OBVIOUS
  <2> QED BY <1>1, <2>1, <2>2
<1>3. PICK x \in R : \A y \in R : x <= y
  <2>1. PICK x \in R : \A y \in R : ~(<<y, x>> \in OpToRel(<, Nat))
    BY <1>2, WFMin, NatLessThanWellFounded
  <2>2. ASSUME NEW y \in R PROVE x <= y
    <3>1. x \in Nat /\ y \in Nat
      BY <1>2
    <3>2. ~(y < x)
      BY <2>1, <3>1 DEF OpToRel
    <3> QED BY <3>1, <3>2
  <2> QED BY <2>2
<1>4. PICK k \in S : x = n - k
  BY <1>1
<1>5. \A j \in S : n - j \in R /\ x <= n - j
  BY <1>1, <1>3
<1>6. \A j \in S : j <= k
  BY <1>4, <1>5
<1> QED BY <1>6

\* The same for a content.
LEMMA ContentAppend ==
    ASSUME NEW type, NEW msgs, IsSeq(msgs), NEW text, text \notin {<<>>, NoContent}, NEW m,
           OfType(type, m) = ContentDelta(type, text, msgs)
    PROVE  /\ OfType(type, m) = {} => LastText(type, msgs, text)
           /\ LastText(type, Append(msgs, m), text)
<1>1. PICK e : e = [type |-> type, text |-> text]
  OBVIOUS
<1>2. OfType(type, m) = IF ReplayLatestHash(type, msgs) = text THEN {} ELSE {e}
  BY <1>1 DEF ContentDelta
<1>3. PICK r : r = Append(msgs, m)
  OBVIOUS
<1>4. /\ Len(msgs) \in Nat /\ DOMAIN msgs = 1..Len(msgs) /\ r[Len(msgs) + 1] = m
      /\ \A k \in DOMAIN msgs : r[k] = msgs[k]
      /\ OfType(type, m) = {} => Telling(type, r) = Telling(type, msgs)
      /\ OfType(type, m) # {} => Telling(type, r) = Telling(type, msgs) \cup {Len(msgs) + 1}
  BY <1>3, AppendFacts, TellingAppend
<1>5. Telling(type, msgs) \subseteq 1..Len(msgs)
  BY <1>4 DEF Telling
<1>6. CASE OfType(type, m) = {}
  <2>1. ReplayLatestHash(type, msgs) = text
    BY <1>2, <1>6
  <2>2. Telling(type, msgs) # {}
    BY <2>1 DEF ReplayLatestHash
  <2>3. PICK k : k = CHOOSE i \in Telling(type, msgs) : \A j \in Telling(type, msgs) : j <= i
    OBVIOUS
  <2>4. \E i \in Telling(type, msgs) : \A j \in Telling(type, msgs) : j <= i
    BY <1>4, <1>5, <2>2, NewestMessage
  <2>5. k \in Telling(type, msgs) /\ \A j \in Telling(type, msgs) : j <= k
    BY <2>3, <2>4
  <2>6. EntryOf(type, msgs[k]).text = text
    BY <2>1, <2>2, <2>3 DEF ReplayLatestHash
  <2>7. LastText(type, msgs, text)
    BY <2>5, <2>6 DEF LastText
  <2>8. Telling(type, r) = Telling(type, msgs) /\ r[k] = msgs[k]
    BY <1>4, <1>5, <1>6, <2>5
  <2>9. LastText(type, r, text)
    BY <2>5, <2>6, <2>8 DEF LastText
  <2> QED BY <1>3, <2>7, <2>9
<1>7. CASE OfType(type, m) # {}
  <2>1. OfType(type, m) = {e}
    BY <1>2, <1>7
  <2>2. EntryOf(type, m) = e
    BY <2>1, OnlyEntry
  <2>3. EntryOf(type, r[Len(msgs) + 1]).text = text
    BY <1>1, <1>4, <2>2
  <2>4. Len(msgs) + 1 \in Telling(type, r) /\ \A j \in Telling(type, r) : j <= Len(msgs) + 1
    BY <1>4, <1>5, <1>7
  <2>5. LastText(type, r, text)
    BY <2>3, <2>4 DEF LastText
  <2> QED BY <1>3, <1>7, <2>5
<1> QED BY <1>6, <1>7

-----------------------------------------------------------------------------
LEMMA DeltaTypes ==
    ASSUME NEW type, NEW cur, NEW msgs
    PROVE  /\ \A e \in NamedDelta(type, cur, msgs) : e.type = type
           /\ \A e \in ContentDelta(type, cur, msgs) : e.type = type
BY DEF NamedDelta, ContentDelta

\* Each type has one provider.
LEMMA Providers ==
    ASSUME SourcesOK, NEW msgs, NEW type \in DOMAIN Reading
    PROVE  /\ type \in NamedSets =>
                /\ Reading[type] \subseteq Names
                /\ OfType(type, ComputeDeltas(msgs)) = NamedDelta(type, Reading[type], msgs)
           /\ type \notin NamedSets =>
                OfType(type, ComputeDeltas(msgs)) = ContentDelta(type, Reading[type], msgs)
<1>1. /\ \A e \in MemoryProvider(msgs) : e.type = "memory"
      /\ \A e \in TodoProvider(msgs) : e.type = "todos"
      /\ \A e \in SecretProvider(msgs) : e.type = "secrets"
      /\ \A e \in AgentListingProvider(msgs) : e.type = "agents"
      /\ \A e \in NodeListingProvider(msgs) : e.type = "nodes"
      /\ \A e \in SkillProvider(msgs) : e.type = "skills"
      /\ \A e \in MountProvider(msgs) : e.type = "mounts"
      /\ \A e \in SubscriptionProvider(msgs) : e.type = "subscriptions"
  BY DeltaTypes DEF MemoryProvider, TodoProvider, SecretProvider, AgentListingProvider,
     NodeListingProvider, SkillProvider, MountProvider, SubscriptionProvider
<1>2. \A e : e \in ComputeDeltas(msgs) <=>
        \/ e \in MemoryProvider(msgs) \/ e \in TodoProvider(msgs) \/ e \in SecretProvider(msgs)
        \/ e \in AgentListingProvider(msgs) \/ e \in NodeListingProvider(msgs)
        \/ e \in SkillProvider(msgs) \/ e \in MountProvider(msgs)
        \/ e \in SubscriptionProvider(msgs)
  BY DEF ComputeDeltas
<1>3. /\ OfType("memory", ComputeDeltas(msgs)) = MemoryProvider(msgs)
      /\ OfType("todos", ComputeDeltas(msgs)) = TodoProvider(msgs)
      /\ OfType("secrets", ComputeDeltas(msgs)) = SecretProvider(msgs)
      /\ OfType("agents", ComputeDeltas(msgs)) = AgentListingProvider(msgs)
  BY <1>1, <1>2 DEF OfType
<1>4. /\ OfType("nodes", ComputeDeltas(msgs)) = NodeListingProvider(msgs)
      /\ OfType("skills", ComputeDeltas(msgs)) = SkillProvider(msgs)
      /\ OfType("mounts", ComputeDeltas(msgs)) = MountProvider(msgs)
      /\ OfType("subscriptions", ComputeDeltas(msgs)) = SubscriptionProvider(msgs)
  BY <1>1, <1>2 DEF OfType
<1>5. /\ type \in SourceTypes \cup {"skills"}
      /\ Reading[type] = IF type = "skills" THEN MergeSkills ELSE sources[type]
      /\ type = "skills" => "Skill" \in tools
      /\ type = "agents" => "SpawnInstance" \in tools
      /\ type = "nodes" => "ListNodes" \in tools
      /\ type = "subscriptions" => "ScheduleRecurring" \in tools
  BY DEF Reading, SourcesOK
<1>6. MergeSkills \subseteq Names
  BY DEF MergeSkills, LoadSkills, SourcesOK, Dirs
<1>7. CASE type \in NamedSets
  <2>1. Reading[type] \subseteq Names
    BY <1>5, <1>6, <1>7 DEF SourcesOK, NamedSets
  <2>2. CASE type = "skills"
    BY <1>4, <1>5, <1>7, <2>1, <2>2 DEF SkillProvider
  <2>3. CASE type = "secrets"
    BY <1>3, <1>5, <1>7, <2>1, <2>3 DEF SecretProvider
  <2>4. CASE type = "agents"
    BY <1>3, <1>5, <1>7, <2>1, <2>4 DEF AgentListingProvider
  <2> QED BY <1>7, <2>2, <2>3, <2>4 DEF NamedSets
<1>8. CASE type \notin NamedSets
  <2>1. type \in {"memory", "todos", "nodes", "mounts", "subscriptions"}
    BY <1>5, <1>8 DEF SourceTypes, NamedSets
  <2>2. Reading[type] = sources[type]
    BY <1>5, <2>1
  <2>3. CASE type \in {"memory", "todos", "mounts"}
    BY <1>3, <1>4, <1>8, <2>2, <2>3 DEF MemoryProvider, TodoProvider, MountProvider
  <2>4. CASE type \in {"nodes", "subscriptions"}
    BY <1>4, <1>5, <1>8, <2>2, <2>4 DEF NodeListingProvider, SubscriptionProvider
  <2> QED BY <1>8, <2>1, <2>3, <2>4
<1> QED BY <1>7, <1>8

\* A provider's entry is consistent; it is a full listing when nothing had been
\* announced.
LEMMA EntriesConsistent ==
    ASSUME SourcesOK, NEW msgs
    PROVE  \A e \in ComputeDeltas(msgs) : e.type \in NamedSets =>
             Consistent(e) /\ (e.initial => ReplayAnnounced(e.type, msgs) = {})
<1>1. ASSUME NEW type, NEW cur \in SUBSET Names, NEW e \in NamedDelta(type, cur, msgs)
      PROVE  e.type = type /\ Consistent(e) /\ (e.initial => ReplayAnnounced(type, msgs) = {})
  <2>1. PICK old : old = ReplayAnnounced(type, msgs)
    OBVIOUS
  <2>2. e = [type |-> type, added |-> cur \ old, removed |-> old \ cur,
             initial |-> old = {}, listing |-> cur]
    BY <2>1 DEF NamedDelta
  <2>3. /\ e.type = type /\ e.added = cur \ old /\ e.removed = old \ cur /\ e.listing = cur
        /\ e.initial => old = {}
    BY <2>2
  <2> QED BY <2>1, <2>3 DEF Consistent
<1>2. MergeSkills \subseteq Names /\ sources.secrets \subseteq Names /\ sources.agents \subseteq Names
  BY DEF MergeSkills, LoadSkills, SourcesOK, Dirs
<1>3. \A e \in SkillProvider(msgs) \cup SecretProvider(msgs) \cup AgentListingProvider(msgs) :
        Consistent(e) /\ (e.initial => ReplayAnnounced(e.type, msgs) = {})
  BY <1>1, <1>2 DEF SkillProvider, SecretProvider, AgentListingProvider
<1>4. \A e \in MemoryProvider(msgs) \cup TodoProvider(msgs) \cup NodeListingProvider(msgs)
                 \cup MountProvider(msgs) \cup SubscriptionProvider(msgs) : e.type \notin NamedSets
  BY DeltaTypes DEF MemoryProvider, TodoProvider, NodeListingProvider, MountProvider,
     SubscriptionProvider, NamedSets
<1> QED BY <1>3, <1>4 DEF ComputeDeltas

\* The newest listing follows only what is gone.
LEMMA FreshAppend ==
    ASSUME NEW msgs, IsSeq(msgs), Formed(msgs), NEW first \in 1..(Len(msgs) + 1),
           NEW type \in NamedSets, Fresh(type, msgs, first), NEW m,
           \A e \in m : e.type = type /\ e.initial =>
               ReplayAnnounced(type, SubSeq(msgs, first, Len(msgs))) = {}
    PROVE  Fresh(type, Append(msgs, m), first)
<1>1. PICK r : r = Append(msgs, m)
  OBVIOUS
<1>2. PICK q : q = SubSeq(msgs, first, Len(msgs))
  OBVIOUS
<1>3. /\ Len(msgs) \in Nat /\ DOMAIN msgs = 1..Len(msgs) /\ r[Len(msgs) + 1] = m
      /\ \A k \in DOMAIN msgs : r[k] = msgs[k]
      /\ OfType(type, m) = {} => Telling(type, r) = Telling(type, msgs)
      /\ OfType(type, m) # {} => Telling(type, r) = Telling(type, msgs) \cup {Len(msgs) + 1}
  BY <1>1, AppendFacts, TellingAppend
<1>4. \A k \in Telling(type, msgs) : k \in Nat /\ k < Len(msgs) + 1 /\ r[k] = msgs[k]
  BY <1>3 DEF Telling
<1>5. /\ Telling(type, msgs) \subseteq Telling(type, r)
      /\ Telling(type, r) \subseteq Telling(type, msgs) \cup {Len(msgs) + 1}
  BY <1>3
<1>6. /\ first \in Nat /\ Telling(type, q) \subseteq Nat
      /\ \A k \in Telling(type, q) : k + first - 1 \in Telling(type, msgs)
      /\ \A k \in Telling(type, msgs) : k >= first =>
           k - first + 1 \in Telling(type, q) /\ q[k - first + 1] = msgs[k]
  BY <1>2, TellingSuffix
<1>7. \A k \in Telling(type, q) : q[k] = msgs[k + first - 1]
  <2>1. \A k \in Telling(type, q) : k \in DOMAIN q
    BY DEF Telling
  <2> QED BY <1>2, <2>1, TellingSuffix
<1> SUFFICES ASSUME NEW j \in Telling(type, r), NEW k \in Telling(type, r), first <= k, k < j,
                    EntryOf(type, r[j]).initial, NEW n \in EntryOf(type, r[k]).added
             PROVE  \E l \in Telling(type, r) :
                        k <= l /\ l < j /\ n \in EntryOf(type, r[l]).removed
  BY <1>1 DEF Fresh
<1>8. k \in Telling(type, msgs)
  BY <1>3, <1>4, <1>5
<1>9. CASE j \in Telling(type, msgs)
  <2>1. PICK l \in Telling(type, msgs) :
          k <= l /\ l < j /\ n \in EntryOf(type, msgs[l]).removed
    BY <1>4, <1>8, <1>9 DEF Fresh
  <2> QED BY <1>4, <1>5, <2>1
<1>10. CASE j = Len(msgs) + 1
  <2>1. EntryOf(type, m) \in m /\ EntryOf(type, m).type = type /\ EntryOf(type, m).initial
    BY <1>3, <1>10, EntryFacts
  <2>2. ReplayAnnounced(type, q) = {}
    BY <1>2, <2>1
  <2>3. n \in EntryOf(type, msgs[k]).added /\ Consistent(EntryOf(type, msgs[k]))
    BY <1>4, <1>8, EntryFacts DEF Formed
  <2>4. n \in Names
    BY <2>3 DEF Consistent
  <2>5. /\ k - first + 1 \in Telling(type, q)
        /\ n \in EntryOf(type, q[k - first + 1]).added
    BY <1>4, <1>6, <1>8, <2>3
  <2>6. PICK i \in Telling(type, q) : i >= k - first + 1 /\ n \in EntryOf(type, q[i]).removed
    BY <2>2, <2>4, <2>5 DEF ReplayAnnounced
  <2>7. /\ i + first - 1 \in Telling(type, msgs) /\ n \in EntryOf(type, msgs[i + first - 1]).removed
    BY <1>6, <1>7, <2>6
  <2>8. k <= i + first - 1 /\ i + first - 1 < j
    <3>1. k \in Nat /\ i \in Nat /\ first \in Nat /\ i + first - 1 < Len(msgs) + 1
      BY <1>4, <1>6, <1>8, <2>7
    <3> QED BY <1>10, <2>6, <3>1
  <2> QED BY <1>4, <1>5, <2>7, <2>8
<1> QED BY <1>5, <1>9, <1>10

-----------------------------------------------------------------------------
\* What the request tells, whether or not there was something to announce.
LEMMA RequestTells ==
    ASSUME ToldInv, chat.pc = "deltas", NEW msgs,
           \/ msgs = chat.sent /\ ComputeDeltas(chat.sent) = {}
           \/ msgs = Append(chat.sent, ComputeDeltas(chat.sent)),
           NEW type \in DOMAIN Reading
    PROVE  IF type \in NamedSets
           THEN ReplayAnnounced(type, msgs) = Reading[type]
           ELSE Reading[type] \in {<<>>, NoContent} \/ LastText(type, msgs, Reading[type])
<1>1. SourcesOK
  BY DEF ToldInv
<1>2. IsSeq(chat.sent)
  <2>1. PICK first \in 1..(Len(stored) + 1) : chat.sent = SubSeq(stored, first, Len(stored))
    BY DEF ToldInv
  <2>2. IsSeq(stored)
    BY DEF ToldInv
  <2>3. IsSeq(SubSeq(stored, first, Len(stored)))
    BY <2>2, TellingSuffix
  <2> QED BY <2>1, <2>3
<1>3. OfType(type, {}) = {}
  BY DEF OfType
<1>4. CASE type \in NamedSets
  <2>1. /\ Reading[type] \in SUBSET Names
        /\ OfType(type, ComputeDeltas(chat.sent)) = NamedDelta(type, Reading[type], chat.sent)
    BY <1>1, <1>4, Providers
  <2>2. /\ OfType(type, ComputeDeltas(chat.sent)) = {} =>
             ReplayAnnounced(type, chat.sent) = Reading[type]
        /\ ReplayAnnounced(type, Append(chat.sent, ComputeDeltas(chat.sent))) = Reading[type]
    BY <1>2, <1>4, <2>1, NamedAppend
  <2> QED BY <1>3, <1>4, <2>2
<1>5. CASE type \notin NamedSets /\ Reading[type] \notin {<<>>, NoContent}
  <2>1. OfType(type, ComputeDeltas(chat.sent)) = ContentDelta(type, Reading[type], chat.sent)
    BY <1>1, <1>5, Providers
  <2>2. /\ OfType(type, ComputeDeltas(chat.sent)) = {} =>
             LastText(type, chat.sent, Reading[type])
        /\ LastText(type, Append(chat.sent, ComputeDeltas(chat.sent)), Reading[type])
    BY <1>2, <1>5, <2>1, ContentAppend
  <2> QED BY <1>3, <1>5, <2>2
<1> QED BY <1>4, <1>5

LEMMA ToldInvInit == DeltaInit => ToldInv
<1> SUFFICES ASSUME DeltaInit PROVE ToldInv
  OBVIOUS
<1>1. stored = <<>> /\ cutoff = 1 /\ chat = NoChat
  BY DEF DeltaInit
<1>2. stored \in Seq({}) /\ Len(stored) = 0 /\ DOMAIN stored = {}
  BY <1>1
<1>3. IsSeq(stored) /\ Formed(stored) /\ \A type : Fresh(type, stored, cutoff)
  BY <1>2 DEF IsSeq, Formed, Fresh, Telling
<1>4. chat.pc = "idle" /\ DOMAIN chat = {"pc", "sent", "read"}
  BY <1>1 DEF NoChat
<1>5. SourcesOK
  <2>1. PICK c : sources = [secrets |-> {}, agents |-> {}, memory |-> <<>>, todos |-> c,
                            nodes |-> c, mounts |-> c, subscriptions |-> c]
    BY DEF DeltaInit
  <2>2. DOMAIN sources = SourceTypes /\ sources.secrets = {} /\ sources.agents = {}
    BY <2>1 DEF SourceTypes
  <2>3. DOMAIN skills = Dirs /\ \A d \in Dirs : skills[d].names = {}
    BY DEF DeltaInit
  <2> QED BY <2>2, <2>3 DEF SourcesOK
<1> QED BY <1>1, <1>2, <1>3, <1>4, <1>5 DEF ToldInv, ToldIsCurrent

\* Nothing but the sources changes.
LEMMA ToldStays ==
    ASSUME ToldInv, UNCHANGED <<stored, cutoff, widened, chat>>, SourcesOK'
    PROVE  ToldInv'
BY DEF ToldInv, ToldIsCurrent

LEMMA AssembleTells == ASSUME ToldInv, AssembleHistory PROVE ToldInv'
<1>1. PICK first \in 1..(Len(stored) + 1) :
        /\ chat' = [pc |-> "deltas", sent |-> SubSeq(stored, first, Len(stored)), read |-> <<>>]
        /\ cutoff' = IF first > cutoff THEN first ELSE cutoff
        /\ widened' = (widened \/ first < cutoff)
  BY DEF AssembleHistory
<1>2. stored' = stored /\ sources' = sources /\ skills' = skills
  BY DEF AssembleHistory
<1>3. SourcesOK'
  BY <1>2 DEF ToldInv, SourcesOK
<1>4. IsSeq(stored) /\ Formed(stored) /\ Len(stored) \in Nat /\ cutoff \in 1..(Len(stored) + 1)
  BY TellingSuffix DEF ToldInv
<1>5. /\ cutoff' \in 1..(Len(stored) + 1)
      /\ ~widened' => ~widened /\ cutoff' = first /\ cutoff <= first
  <2>1. widened' <=> (widened \/ first < cutoff)
    BY <1>1, Zenon
  <2>2. cutoff' = IF first > cutoff THEN first ELSE cutoff
    BY <1>1
  <2>3. cutoff \in Nat /\ first \in Nat /\ cutoff' \in 1..(Len(stored) + 1)
    BY <1>4, <2>2
  <2>4. ~(first < cutoff) => cutoff' = first /\ cutoff <= first
    BY <2>2, <2>3
  <2> QED BY <2>1, <2>3, <2>4
<1>6. ASSUME ~widened', NEW type \in NamedSets PROVE Fresh(type, stored, cutoff')
  <2>1. Fresh(type, stored, cutoff)
    BY <1>5, <1>6 DEF ToldInv
  <2>2. Telling(type, stored) \subseteq 1..Len(stored)
    BY <1>4, TellingSuffix
  <2>3. \A k \in Telling(type, stored) : first <= k => cutoff <= k
    BY <1>4, <1>5, <1>6, <2>2
  <2>4. Fresh(type, stored, first)
    BY <2>1, <2>3 DEF Fresh
  <2> QED BY <1>5, <1>6, <2>4
<1>7. /\ chat'.pc = "deltas" /\ chat'.sent = SubSeq(stored, first, Len(stored))
      /\ DOMAIN chat' = {"pc", "sent", "read"} /\ DOMAIN chat'.read = {}
  BY <1>1
<1>8. (~widened => \A type \in NamedSets : Fresh(type, stored, cutoff))'
  BY <1>2, <1>6
<1> QED BY <1>2, <1>3, <1>4, <1>5, <1>7, <1>8 DEF ToldInv, ToldIsCurrent

\* Both readers of the messages understand what the replay says.
LEMMA ReadersAgree ==
    ASSUME NEW msgs, IsSeq(msgs), NEW first \in 1..(Len(msgs) + 1), Formed(msgs),
           NEW type \in NamedSets, NEW replacing \in BOOLEAN,
           replacing => Fresh(type, msgs, first)
    PROVE  Understood(type, SubSeq(msgs, first, Len(msgs)), replacing)
             = ReplayAnnounced(type, SubSeq(msgs, first, Len(msgs)))
<1>1. PICK q : q = SubSeq(msgs, first, Len(msgs))
  OBVIOUS
<1>2. IsSeq(q) /\ Formed(q)
  BY <1>1, TellingSuffix, FormedSuffix
<1>3. CASE replacing = TRUE
  <2>1. Fresh(type, q, 1)
    BY <1>1, <1>3, FreshSuffix
  <2> QED BY <1>1, <1>2, <1>3, <2>1, ReplacingReader
<1>4. CASE replacing = FALSE
  BY <1>1, <1>2, <1>4, AddingReader
<1> QED BY <1>3, <1>4

\* A message appended to the history and to its newest part.
LEMMA SuffixAppend ==
    ASSUME NEW msgs, IsSeq(msgs), NEW first \in 1..(Len(msgs) + 1), NEW m
    PROVE  /\ first \in 1..(Len(Append(msgs, m)) + 1)
           /\ Append(SubSeq(msgs, first, Len(msgs)), m)
                = SubSeq(Append(msgs, m), first, Len(Append(msgs, m)))
<1>1. PICK S : msgs \in Seq(S)
  BY DEF IsSeq
<1>2. PICK T : T = S \cup {m}
  OBVIOUS
<1>3. msgs \in Seq(T) /\ m \in T
  BY <1>1, <1>2
<1>4. PICK r : r = Append(msgs, m)
  OBVIOUS
<1>5. PICK q : q = SubSeq(msgs, first, Len(msgs))
  OBVIOUS
<1>6. /\ r \in Seq(T) /\ Len(msgs) \in Nat /\ Len(r) = Len(msgs) + 1 /\ r[Len(msgs) + 1] = m
      /\ \A k \in 1..Len(msgs) : r[k] = msgs[k]
  BY <1>3, <1>4
<1>7. /\ q \in Seq(T) /\ Len(q) = Len(msgs) - first + 1
      /\ \A k \in 1..Len(q) : q[k] = msgs[k + first - 1]
  BY <1>3, <1>5
<1>8. PICK a : a = Append(q, m)
  OBVIOUS
<1>9. /\ a \in Seq(T) /\ Len(q) \in Nat
      /\ Len(a) = Len(q) + 1 /\ a[Len(q) + 1] = m /\ \A k \in 1..Len(q) : a[k] = q[k]
  <2>1. q \in Seq(T) /\ m \in T
    BY <1>3, <1>7
  <2> QED BY <1>8, <2>1
<1>10. PICK b : b = SubSeq(r, first, Len(r))
  OBVIOUS
<1>11. /\ b \in Seq(T) /\ Len(b) = Len(r) - first + 1
       /\ \A k \in 1..Len(b) : b[k] = r[k + first - 1]
  <2>1. first \in 1..(Len(r) + 1)
    BY <1>6
  <2> QED BY <1>6, <1>10, <2>1
<1>12. Len(a) = Len(b)
  BY <1>6, <1>7, <1>9, <1>11
<1>13. ASSUME NEW k \in 1..Len(a) PROVE a[k] = b[k]
  <2>1. b[k] = r[k + first - 1]
    BY <1>11, <1>12
  <2>2. CASE k = Len(q) + 1
    <3>1. k + first - 1 = Len(msgs) + 1
      BY <1>6, <1>7, <2>2
    <3> QED BY <1>6, <1>9, <2>1, <2>2, <3>1
  <2>3. CASE k # Len(q) + 1
    <3>1. k \in 1..Len(q) /\ k + first - 1 \in 1..Len(msgs)
      BY <1>6, <1>7, <1>9, <2>3
    <3> QED BY <1>6, <1>7, <1>9, <2>1, <3>1
  <2> QED BY <2>2, <2>3
<1>14. a = b
  <2>1. /\ a = [k \in 1..Len(a) |-> a[k]] /\ b = [k \in 1..Len(b) |-> b[k]]
    BY <1>9, <1>11
  <2> QED BY <1>12, <1>13, <2>1
<1>15. first \in 1..(Len(r) + 1)
  BY <1>6
<1> QED BY <1>4, <1>5, <1>8, <1>10, <1>14, <1>15

LEMMA ApplyTells == ASSUME ToldInv, ApplyContextDeltas PROVE ToldInv'
<1>1. /\ chat.pc = "deltas" /\ DOMAIN chat = {"pc", "sent", "read"} /\ DOMAIN chat.read = {}
      /\ IsSeq(stored) /\ Formed(stored) /\ SourcesOK /\ cutoff \in 1..(Len(stored) + 1)
  BY DEF ToldInv, ApplyContextDeltas
<1>2. PICK first \in 1..(Len(stored) + 1) :
        /\ chat.sent = SubSeq(stored, first, Len(stored))
        /\ ~widened => first = cutoff
  BY <1>1 DEF ToldInv
<1>3. cutoff' = cutoff /\ widened' = widened /\ sources' = sources /\ skills' = skills
  BY DEF ApplyContextDeltas
<1>4. SourcesOK'
  BY <1>1, <1>3 DEF SourcesOK
<1>5. PICK d : d = ComputeDeltas(chat.sent)
  OBVIOUS
<1>6. ~widened => \A type \in NamedSets : Fresh(type, stored, first)
  BY <1>2 DEF ToldInv
<1>7. CASE d = {} /\ stored' = stored /\ chat' = [chat EXCEPT !.pc = "stream", !.read = Reading]
  <2>1. /\ chat'.pc = "stream" /\ chat'.sent = chat.sent /\ chat'.read = Reading
        /\ DOMAIN chat' = {"pc", "sent", "read"}
    BY <1>1, <1>7
  <2>2. ASSUME NEW type \in DOMAIN Reading, type \in NamedSets, NEW replacing \in BOOLEAN,
               ~(replacing /\ widened)
        PROVE  Understood(type, chat.sent, replacing) = Reading[type]
    <3>1. ReplayAnnounced(type, chat.sent) = Reading[type]
      BY <1>1, <1>5, <1>7, <2>2, RequestTells
    <3>2. replacing => Fresh(type, stored, first)
      BY <1>6, <2>2
    <3> QED BY <1>1, <1>2, <2>2, <3>1, <3>2, ReadersAgree
  <2>3. ASSUME NEW type \in DOMAIN Reading, type \notin NamedSets
        PROVE  Reading[type] \in {<<>>, NoContent} \/ LastText(type, chat.sent, Reading[type])
    BY <1>1, <1>5, <1>7, <2>3, RequestTells
  <2>4. ToldIsCurrent'
    BY <1>3, <2>1, <2>2, <2>3 DEF ToldIsCurrent
  <2>5. (~widened => \A type \in NamedSets : Fresh(type, stored, cutoff))'
    BY <1>3, <1>7 DEF ToldInv
  <2> QED BY <1>1, <1>3, <1>4, <1>7, <2>1, <2>4, <2>5 DEF ToldInv
<1>8. CASE /\ stored' = Append(stored, d)
           /\ chat' = [pc |-> "stream", sent |-> Append(chat.sent, d), read |-> Reading]
  <2>1. /\ chat'.pc = "stream" /\ chat'.sent = Append(chat.sent, d) /\ chat'.read = Reading
        /\ DOMAIN chat' = {"pc", "sent", "read"}
    BY <1>8
  <2>2. /\ IsSeq(stored') /\ Len(stored) \in Nat /\ DOMAIN stored = 1..Len(stored)
        /\ DOMAIN stored' = 1..Len(stored) + 1 /\ stored'[Len(stored) + 1] = d
        /\ \A k \in DOMAIN stored : stored'[k] = stored[k]
    <3>1. /\ IsSeq(Append(stored, d)) /\ Len(stored) \in Nat /\ DOMAIN stored = 1..Len(stored)
          /\ DOMAIN Append(stored, d) = 1..Len(stored) + 1
          /\ Append(stored, d)[Len(stored) + 1] = d
          /\ \A k \in DOMAIN stored : Append(stored, d)[k] = stored[k]
      BY <1>1, AppendFacts
    <3> QED BY <1>8, <3>1
  <2>3. \A e \in d : e.type \in NamedSets =>
          Consistent(e) /\ (e.initial => ReplayAnnounced(e.type, chat.sent) = {})
    BY <1>1, <1>5, EntriesConsistent
  <2>4. Formed(stored')
    <3>1. \A k \in DOMAIN stored' : k \in DOMAIN stored \/ k = Len(stored) + 1
      BY <2>2
    <3> QED BY <1>1, <2>2, <2>3, <3>1 DEF Formed
  <2>5. /\ first \in 1..(Len(stored') + 1)
        /\ chat'.sent = SubSeq(stored', first, Len(stored'))
    BY <1>1, <1>2, <1>8, <2>1, SuffixAppend
  <2>6. ASSUME ~widened, NEW type \in NamedSets PROVE Fresh(type, stored', first)
    <3>1. Fresh(type, stored, first)
      BY <1>6, <2>6
    <3>2. \A e \in d : e.type = type /\ e.initial =>
            ReplayAnnounced(type, SubSeq(stored, first, Len(stored))) = {}
      BY <1>2, <2>3
    <3> QED BY <1>1, <1>8, <3>1, <3>2, FreshAppend
  <2>7. ASSUME NEW type \in DOMAIN Reading, type \in NamedSets, NEW replacing \in BOOLEAN,
               ~(replacing /\ widened)
        PROVE  Understood(type, chat'.sent, replacing) = Reading[type]
    <3>1. ReplayAnnounced(type, chat'.sent) = Reading[type]
      BY <1>1, <1>5, <2>1, <2>7, RequestTells
    <3>2. replacing => Fresh(type, stored', first)
      BY <2>6, <2>7
    <3> QED BY <2>2, <2>4, <2>5, <2>7, <3>1, <3>2, ReadersAgree
  <2>8. ASSUME NEW type \in DOMAIN Reading, type \notin NamedSets
        PROVE  Reading[type] \in {<<>>, NoContent} \/ LastText(type, chat'.sent, Reading[type])
    BY <1>1, <1>5, <2>1, <2>8, RequestTells
  <2>9. ToldIsCurrent'
    BY <1>3, <2>1, <2>7, <2>8 DEF ToldIsCurrent
  <2>10. cutoff' \in 1..(Len(stored') + 1)
    <3>1. Len(stored') = Len(stored) + 1
      BY <1>1, <1>8 DEF IsSeq
    <3> QED BY <1>1, <1>3, <2>2, <3>1
  <2>11. (~widened => \A type \in NamedSets : Fresh(type, stored, cutoff))'
    BY <1>2, <1>3, <2>6
  <2> QED BY <1>4, <2>1, <2>2, <2>4, <2>9, <2>10, <2>11 DEF ToldInv
<1>9. CASE stored' = stored /\ chat' = [chat EXCEPT !.pc = "stream"]
  <2>1. chat'.pc = "stream" /\ DOMAIN chat' = {"pc", "sent", "read"} /\ chat'.read = chat.read
    BY <1>1, <1>9
  <2>2. ToldIsCurrent'
    BY <1>1, <2>1 DEF ToldIsCurrent
  <2>3. (~widened => \A type \in NamedSets : Fresh(type, stored, cutoff))'
    BY <1>3, <1>9 DEF ToldInv
  <2> QED BY <1>1, <1>3, <1>4, <1>9, <2>1, <2>2, <2>3 DEF ToldInv
<1> QED BY <1>5, <1>7, <1>8, <1>9 DEF ApplyContextDeltas

LEMMA StreamTells == ASSUME ToldInv, StreamEnds PROVE ToldInv'
<1>1. /\ chat' = NoChat
      /\ UNCHANGED <<stored, cutoff, widened, sources, skills>>
  BY DEF StreamEnds
<1>2. chat'.pc = "idle" /\ DOMAIN chat' = {"pc", "sent", "read"}
  BY <1>1 DEF NoChat
<1>3. SourcesOK'
  BY <1>1 DEF ToldInv, SourcesOK
<1>4. (~widened => \A type \in NamedSets : Fresh(type, stored, cutoff))'
  BY <1>1 DEF ToldInv
<1> QED BY <1>1, <1>2, <1>3, <1>4 DEF ToldInv, ToldIsCurrent

\* The sources other than the names may be anything.
LEMMA WorldTells ==
    ASSUME ToldInv, NEW next, WorldStep(next), DOMAIN next = SourceTypes,
           next.secrets \subseteq Names, next.agents \subseteq Names
    PROVE  ToldInv'
<1>1. sources' = next /\ UNCHANGED <<skills, stored, cutoff, widened, chat>>
  BY DEF WorldStep
<1>2. SourcesOK'
  BY <1>1 DEF ToldInv, SourcesOK
<1> QED BY <1>1, <1>2, ToldStays

LEMMA ToldInvNext == ToldInv /\ [DeltaNext]_deltaVars => ToldInv'
<1> SUFFICES ASSUME ToldInv, [DeltaNext]_deltaVars PROVE ToldInv'
  OBVIOUS
<1>1. DOMAIN sources = SourceTypes /\ sources.secrets \subseteq Names /\ sources.agents \subseteq Names
  BY DEF ToldInv, SourcesOK
<1>2. CASE UNCHANGED deltaVars
  <2>1. SourcesOK' /\ UNCHANGED <<stored, cutoff, widened, chat>>
    BY <1>2 DEF deltaVars, ToldInv, SourcesOK
  <2> QED BY <2>1, ToldStays
<1>3. CASE AssembleHistory
  BY <1>3, AssembleTells
<1>4. CASE ApplyContextDeltas
  BY <1>4, ApplyTells
<1>5. CASE StreamEnds
  BY <1>5, StreamTells
<1>6. CASE CompactOldest \/ ToolsChange
  <2>1. SourcesOK' /\ UNCHANGED <<stored, cutoff, widened, chat>>
    BY <1>6 DEF CompactOldest, ToolsChange, ToldInv, SourcesOK
  <2> QED BY <2>1, ToldStays
<1>7. CASE SkillsChange
  <2>1. PICK d \in Dirs, S \in SUBSET Names, ok \in BOOLEAN :
          skills' = [skills EXCEPT ![d] = [names |-> S, ok |-> ok]]
    BY <1>7 DEF SkillsChange
  <2>2. UNCHANGED <<sources, stored, cutoff, widened, chat>>
    BY <1>7 DEF SkillsChange
  <2>3. SourcesOK'
    BY <2>1, <2>2 DEF ToldInv, SourcesOK
  <2> QED BY <2>2, <2>3, ToldStays
<1>8. CASE AddMemory
  <2>1. PICK x : WorldStep([sources EXCEPT !.memory = x])
    BY <1>8 DEF AddMemory
  <2> QED BY <1>1, <2>1, WorldTells DEF SourceTypes
<1>9. CASE ForgetMemory
  <2>1. PICK x : WorldStep([sources EXCEPT !.memory = x])
    BY <1>9 DEF ForgetMemory
  <2> QED BY <1>1, <2>1, WorldTells DEF SourceTypes
<1>10. CASE TodoWrite
  <2>1. PICK x : WorldStep([sources EXCEPT !.todos = x])
    BY <1>10 DEF TodoWrite
  <2> QED BY <1>1, <2>1, WorldTells DEF SourceTypes
<1>11. CASE AgentsChange
  <2>1. PICK x \in SUBSET Names : WorldStep([sources EXCEPT !.agents = x])
    BY <1>11 DEF AgentsChange
  <2> QED BY <1>1, <2>1, WorldTells DEF SourceTypes
<1>12. CASE NodesChange
  <2>1. PICK x : WorldStep([sources EXCEPT !.nodes = x])
    BY <1>12 DEF NodesChange
  <2> QED BY <1>1, <2>1, WorldTells DEF SourceTypes
<1>13. CASE MountsChange
  <2>1. PICK x : WorldStep([sources EXCEPT !.mounts = x])
    BY <1>13 DEF MountsChange
  <2> QED BY <1>1, <2>1, WorldTells DEF SourceTypes
<1>14. CASE SchedulesChange
  <2>1. PICK x : WorldStep([sources EXCEPT !.subscriptions = x])
    BY <1>14 DEF SchedulesChange
  <2> QED BY <1>1, <2>1, WorldTells DEF SourceTypes
<1>15. ASSUME NEW n \in Names, SetSecret(n) \/ DeleteSecret(n) PROVE ToldInv'
  <2>1. PICK x \in SUBSET Names : WorldStep([sources EXCEPT !.secrets = x])
    BY <1>1, <1>15 DEF SetSecret, DeleteSecret
  <2> QED BY <1>1, <2>1, WorldTells DEF SourceTypes
<1> QED BY <1>2, <1>3, <1>4, <1>5, <1>6, <1>7, <1>8, <1>9, <1>10, <1>11, <1>12, <1>13, <1>14,
           <1>15 DEF DeltaNext

\* Every request tells the model exactly the skills, secrets and agents there
\* are and the latest memory, tasks, nodes, mounts and schedules, whatever was
\* evicted or compacted, and however often they changed and changed back
\* (loop.go, applyContextDeltas; context_providers.go, replayAnnounced); and a
\* full listing never contradicts what is sent before it, as long as no request
\* went back in the history.
THEOREM ModelIsToldTheTruth == DeltaSpec => []ToldIsCurrent
<1>1. ToldInv => ToldIsCurrent
  BY DEF ToldInv
<1> QED BY <1>1, ToldInvInit, ToldInvNext, PTL DEF DeltaSpec

=============================================================================
