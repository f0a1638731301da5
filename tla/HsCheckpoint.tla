---------------------------- MODULE HsCheckpoint ----------------------------
(***************************************************************************)
(* hearthstone_simulator: what restore_checkpoint asks of a checkpoint.    *)
(* A checkpoint holds the whole world under logical ids, which is what a   *)
(* world of this model already is, so restoring an accepted one gives the  *)
(* same world back and only acceptance can go wrong.  Schema, rulebook and *)
(* trace versions are those of the running program, and components that    *)
(* the records of the model always have need no check.                     *)
(***************************************************************************)
EXTENDS HsSimulation

----------------------------------------------------------------------------
(* Entities named inside programs.                                         *)

NamedBy(sel) == IF sel.s = "Entity" THEN {sel.id} ELSE {}

RECURSIVE EffectEntities(_)

CardEntities(c) ==
    EffectEntities(c.effects) \cup UNION {EffectEntities(c.triggers[i].program) : i \in DOMAIN c.triggers}

TriggerEntities(d) ==
    EffectEntities(d.program)
    \cup UNION {IF d.conds[i].c = "MinimumEntityCount" THEN NamedBy(d.conds[i].sel) ELSE {} :
                  i \in DOMAIN d.conds}

\* validate_effect_references
EffectEntities(effects) ==
    UNION {LET f == effects[i] IN
           (IF "targets" \in DOMAIN f THEN NamedBy(f.targets) ELSE {})
           \cup (CASE f.e = "Attach" -> UNION {TriggerEntities(f.triggers[k]) : k \in DOMAIN f.triggers}
                   [] f.e \in {"Transform", "Summon"} -> CardEntities(f.card)
                   [] f.e = "Choose" -> UNION {EffectEntities(f.options[k].effects) : k \in DOMAIN f.options}
                   [] f.e \in {"DrawThen", "Sequence"} -> EffectEntities(f.effects)
                   [] f.e = "ReplaceHero" -> UNION {CardEntities(f.rep[k]) : k \in {"hero", "power", "weapon"}}
                   [] OTHER -> {}) :
           i \in DOMAIN effects}

CtxEntities(c) == {c.source, c.target, c.drawn}

\* validate_sequence_step_references
StepEntities(s) ==
    UNION {IF f \in DOMAIN s THEN {s[f]} ELSE {} :
             f \in {"card", "target", "power", "attacker", "defender", "weapon"}}

\* validate_resolution_operation_references, the entities
OpEntities(op) ==
    CASE op.op = "RunSequenceStep" -> StepEntities(op.step)
      [] op.op = "RunGuardedSequenceStep" ->
           StepEntities(op.step) \cup {op.guards[i].subject : i \in DOMAIN op.guards}
      [] op.op = "RefreshAuras" -> {op.provider}
      [] op.op = "PrepareEvent" -> {op.ctx.source} \cup Range(op.ctx.targets)
      [] op.op = "AttemptTrigger" -> {op.cand.source} \cup TriggerEntities(op.cand.d)
      [] op.op = "RunEffect" -> CtxEntities(op.ctx) \cup EffectEntities(<<op.effect>>)
      [] op.op = "ProcessBatch" ->
           UNION {{op.requests[i].source, op.requests[i].target} : i \in DOMAIN op.requests}
      [] op.op \in {"ProcessHealth", "ApplyHealth"} -> {op.request.source, op.request.target}
      [] op.op = "ProcessDraw" -> {op.source}
      [] op.op = "ContinueDraw" -> CtxEntities(op.ctx) \cup EffectEntities(op.effects)
      [] op.op = "TransformEntity" -> {op.target, op.source} \cup CardEntities(op.card)
      [] op.op = "FinishPlayedSelfTransform" ->
           {op.subject} \cup {op.seeds[i].source : i \in DOMAIN op.seeds}
      [] op.op = "CopyEntity" -> {op.origin}
      [] op.op = "RequestChoice" ->
           UNION {CtxEntities(op.options[i].ctx) \cup EffectEntities(op.options[i].effects) :
                    i \in DOMAIN op.options}
      [] OTHER -> {}

\* validate_resolution_operation_references: entities, events, slots, draws
OpReferencesHold(w, op) ==
    /\ OpEntities(op) \ {0} \subseteq Ids(w)
    /\ ("ev" \in DOMAIN op /\ op.ev # None) => op.ev \in DOMAIN w.work.events
    /\ op.op = "AttemptTrigger" => op.cand.ev \in DOMAIN w.work.events
    /\ op.op \in {"ResolveEventSlot", "ProcessHealth", "ApplyHealth"} => op.slot \in DOMAIN w.work.slots
    /\ op.op \in {"ProcessDraw", "FinishDraw", "ContinueDraw"} => op.slot \in DOMAIN w.work.draws

----------------------------------------------------------------------------
(* Retained operations must be able to run.                                *)

ValidTransform(w, op) ==
    /\ E(w, op.target).kind = "Minion" /\ op.card.kind = "Minion" /\ ValidCard(op.card)
    /\ IF op.kind = "PlayedSelf"
       THEN op.source = op.target /\ ValidPlayScope(w, op.scope, op.target)
       ELSE op.scope = None

\* validate_resolution_operation
ValidOperation(w, op) ==
    CASE op.op = "RunSequenceStep" /\ op.step.s = "ConsumeDurability" ->
           E(w, op.step.weapon).kind = "Weapon"
      [] op.op = "RunEffect" ->
           IF op.scope = None
           THEN ValidProgram(<<op.effect>>,
                             IF op.ev \in DOMAIN w.work.events THEN w.work.events[op.ev].ctx.kind
                             ELSE "none", FALSE)
           ELSE /\ ValidPlayScope(w, op.scope, op.ctx.source)
                /\ ValidProgram(<<op.effect>>, "none", TRUE)
      [] op.op = "ContinueDraw" -> ValidProgram(op.effects, "none", FALSE)
      [] op.op = "AttemptTrigger" -> ValidProgram(op.cand.d.program, op.cand.d.event, FALSE)
      [] op.op = "FinishPlayedSelfTransform" ->
           \A i \in DOMAIN op.seeds : ValidProgram(op.seeds[i].d.program, "AfterPlay", FALSE)
      [] op.op = "TransformEntity" -> ValidTransform(w, op)
      [] op.op = "CopyEntity" -> ValidCopy(w, op)
      [] op.op = "RequestChoice" -> validate_choice_request(op)
      [] OTHER -> TRUE

\* validate_resolution_work walks the stack in execution order: a scope lives
\* until the operation it is named by, and each has exactly one.
ScopesOwned(k) ==
    LET Closes(i) == k.stack[i].op.op = "FinishPlayedSelfTransform"
        Live(s, i) == s \in DOMAIN k.scopes /\ \E j \in 1..(i - 1) : Closes(j) /\ k.stack[j].id = s
    IN  /\ \A s, t \in DOMAIN k.scopes : k.scopes[s] = k.scopes[t] => s = t
        /\ DOMAIN k.scopes = {k.stack[i].id : i \in {j \in DOMAIN k.stack : Closes(j)}}
        /\ \A i \in DOMAIN k.stack :
             LET op == k.stack[i].op IN
             /\ Closes(i) => k.scopes[k.stack[i].id] = op.subject
             /\ (op.op = "RunEffect" /\ op.scope # None) =>
                   Live(op.scope, i) /\ k.scopes[op.scope] = op.ctx.source
             /\ (op.op = "TransformEntity" /\ op.scope # None) =>
                   Live(op.scope, i) /\ k.scopes[op.scope] = op.target
        /\ k.transformed \subseteq Range(k.scopes)

\* validate_next_counter and validate_counter_reference
CountersAhead(w) ==
    LET k == w.work
        Below(S, n) == \A x \in S : x < n
    IN  /\ Below({k.stack[i].id : i \in DOMAIN k.stack} \cup DOMAIN k.scopes, k.nextRes)
        /\ Below(DOMAIN k.events, k.nextEvent) /\ Below(DOMAIN k.slots, k.nextSlot)
        /\ Below(DOMAIN k.draws, k.nextDraw)
        /\ Below({E(w, id).po : id \in Ids(w)}, w.nextOrder)

\* validate_resolution_work
WorkReferencesHold(w) ==
    LET k == w.work IN
    /\ \A i \in DOMAIN k.stack : OpReferencesHold(w, k.stack[i].op)
    /\ \A e \in DOMAIN k.events :
         LET v == k.events[e] IN
         /\ ({v.ctx.source} \cup Range(v.ctx.targets)) \ {0} \subseteq Ids(w)
         /\ \A i \in DOMAIN v.cands : v.cands[i].ev \in DOMAIN k.events
    /\ \A s \in DOMAIN k.slots : k.slots[s] # None => k.slots[s] \in DOMAIN k.events
    /\ \A i \in DOMAIN k.choice : OpReferencesHold(w, k.choice[i])
    /\ ScopesOwned(k)

\* validate_restored_programs
RetainedWorkRuns(w) ==
    LET k == w.work IN
    /\ PayersOwned(w)
    /\ \A s \in DOMAIN k.scopes : ValidPlayScope(w, s, k.scopes[s])
    /\ \A i \in DOMAIN k.stack : ValidOperation(w, k.stack[i].op)
    /\ \A i \in DOMAIN k.choice : validate_choice_request(k.choice[i])
    /\ \A e \in DOMAIN k.events :
         /\ \A i \in DOMAIN k.events[e].seeds :
              ValidProgram(k.events[e].seeds[i].d.program, k.events[e].seeds[i].d.event, FALSE)
         /\ \A i \in DOMAIN k.events[e].cands :
              ValidProgram(k.events[e].cands[i].d.program, k.events[e].cands[i].d.event, FALSE)

----------------------------------------------------------------------------
(* Entities.                                                               *)

\* validate_checkpoint_entity
ValidEntity(w, id) ==
    LET e == E(w, id) IN
    /\ e.kind = "Weapon" => e.card.durability > 0 /\ e.dur \in 0..e.card.durability
    /\ e.kind = "Enchantment" => ((e.att # 0) <=> (e.zone = "Play")) /\ (e.att # 0 => e.mod.m # "None")
    /\ {e.att} \ {0} \subseteq Ids(w)
    /\ \A c \in {"hA", "aA", "oA"} : \A i \in DOMAIN e[c] : e[c][i].provider \in Ids(w)
    /\ CardEntities(e.card) \subseteq Ids(w)
    /\ (e.kind = "Enchantment" /\ e.mod.m = "Trigger") => ValidTriggerEnchantment(e.card.triggers)

\* validate_checkpoint_costs
CostsConsistent(w) ==
    \A id \in Ids(w) : HasRuntime(E(w, id)) => recalculate_cost(w, id) = w

\* validate_checkpoint: the parts that look at references and derived values
Consistent(w) ==
    /\ CountersAhead(w)
    /\ \A id \in Ids(w) : ValidEntity(w, id)
    /\ WorkReferencesHold(w)
    /\ CostsConsistent(w)
    /\ RolesHeld(w)

\* Every zone is filled again entity by entity, under its capacity check.
Refills(w) ==
    \A p \in PlayerId, z \in Zone : \A i \in DOMAIN w.ix[p][z] :
        ~destination_is_full([w EXCEPT !.ix[p][z] = SubSeq(@, 1, i - 1)], w.ix[p][z][i], p, z)

\* assert_resolution_invariants
ResolutionSound(w) ==
    /\ PayersOwned(w)
    /\ ~w.work.active => IdleWork(w.work)
    /\ (w.work.active /\ w.game.status = "AwaitingChoice") => w.work.choice # <<>>

\* restore_checkpoint: validated first, then every invariant of a live world
Restorable(w) ==
    /\ Consistent(w)
    /\ Refills(w)
    /\ RetainedWorkRuns(w)
    /\ WeaponsConsistent(w) /\ IndexNamesItsEntities(w)
    /\ \A id \in Ids(w) : (E(w, id).kind = "Enchantment" /\ E(w, id).att # 0) => InPlay(w, id)
    /\ ResolutionSound(w)
=============================================================================
