----------------------------- MODULE HsEffects -----------------------------
(***************************************************************************)
(* hearthstone_simulator: the effect executor.  An effect is data; running *)
(* one mutates the world at once or pushes the operations that will.       *)
(***************************************************************************)
EXTENDS HsResolve

CONSTANT NativeEffects      \* external: registered handlers, id -> effect plan

----------------------------------------------------------------------------
(* Selecting entities and values.                                          *)

\* Always sorted and without duplicates; Random asks the generator.
select_entities(w, ctx, sel) ==
    LET S == CASE sel.s = "Source" -> {ctx.source} \ {0}
               [] sel.s = "DrawnCard" -> {ctx.drawn} \ {0}
               [] sel.s = "AttachedEntity" -> IF ctx.source = 0 THEN {}
                                              ELSE {E(w, ctx.source).att} \ {0}
               [] sel.s = "DeclaredTarget" -> {ctx.target} \ {0}
               [] sel.s = "Entity" -> {sel.id}
               [] sel.s = "InZone" -> Range(InZone(w, resolve_player(ctx.ctl, sel.player), sel.zone))
               [] OTHER -> Range(GroupIds(w, ctx.ctl, sel))
    IN  IF sel.random THEN SortedIds({choose_game_entity(w, S)} \ {0}) ELSE SortedIds(S)

evaluate_value(w, ctx, v, count) ==
    CASE v.v = "Constant" -> v.n
      [] v.v = "SourceAttack" -> IF ctx.source = 0 THEN 0 ELSE E(w, ctx.source).atk
      [] v.v = "TargetCount" -> count
      [] OTHER -> IF ctx.drawn = 0 THEN 0 ELSE E(w, ctx.drawn).cost    \* DrawnCardCost

\* Only a proposed event's value can change, and never below zero.
modify_event_value(w, ctx, ev, f, v) ==
    IF ev \notin DOMAIN w.work.events THEN Fail(w, "NoModifiableEventValue")
    ELSE
    LET c == w.work.events[ev].ctx
        n == evaluate_value(w, ctx, v, Len(c.targets))
        r == CASE f = "Replace" -> n [] f = "Add" -> c.proposed + n [] OTHER -> c.proposed * n
    IN  IF c.kind \notin Proposed \/ c.proposed = None THEN Fail(w, "NoModifiableEventValue")
        ELSE [w EXCEPT !.work.events[ev].ctx.proposed = Max2(r, 0)]

----------------------------------------------------------------------------
(* Programs are validated before they run.                                 *)

RECURSIVE ValidProgram(_, _, _)

ValidTriggerEnchantment(ts) ==
    /\ ts # <<>>
    /\ \A i \in DOMAIN ts :
         /\ ts[i].event # "Death"
         /\ ts[i].zones = {"Play"}
         /\ ts[i].policy = "MustRemainInEligibleZone"
         /\ ValidProgram(ts[i].program, ts[i].event, FALSE)

\* validate_card_program
ValidCard(card) ==
    /\ ~(card.kind = "Weapon" /\ card.durability <= 0)
    /\ ValidProgram(card.effects, "none", card.kind = "Minion")
    /\ \A i \in DOMAIN card.triggers :
         ValidProgram(card.triggers[i].program, card.triggers[i].event, FALSE)

ValidReplacement(r) ==
    /\ r.hero.kind = "Hero" /\ r.power.kind = "HeroPower"
    /\ r.hasWeapon => r.weapon.kind = "Weapon" /\ ValidCard(r.weapon)
    /\ r.set => r.maximum > 0 /\ r.current \in 0..r.maximum
    /\ ValidCard(r.hero) /\ ValidCard(r.power)

\* validate_effect_program_with_played_self
ValidProgram(effects, event, playedSelf) ==
    \A i \in DOMAIN effects :
      LET f == effects[i] IN
      CASE f.e = "Native" -> f.id \in DOMAIN NativeEffects
        [] f.e = "ModifyEventValue" -> event \in Proposed
        [] f.e = "Transform" ->
             /\ f.kind = "PlayedSelf" => playedSelf /\ f.targets.s = "Source"
             /\ ValidCard(f.card)
        [] f.e = "Choose" ->
             /\ f.options # <<>>
             /\ \A a, b \in DOMAIN f.options : f.options[a].id = f.options[b].id => a = b
             /\ \A o \in DOMAIN f.options : ValidProgram(f.options[o].effects, "none", FALSE)
        [] f.e = "DrawThen" -> ValidProgram(f.effects, "none", FALSE)
        [] f.e = "Sequence" -> ValidProgram(f.effects, event, playedSelf)
        [] f.e = "Summon" -> ValidCard(f.card)
        [] f.e = "ReplaceHero" -> ValidReplacement(f.rep)
        [] f.e = "Attach" -> f.mod.m = "Trigger" => ValidTriggerEnchantment(f.triggers)
        [] OTHER -> TRUE

RECURSIVE contains_played_self_transform(_)
contains_played_self_transform(effects) ==
    \E i \in DOMAIN effects :
      \/ /\ effects[i].e = "Transform" /\ effects[i].kind = "PlayedSelf"
         /\ effects[i].targets.s = "Source"
      \/ effects[i].e = "Sequence" /\ contains_played_self_transform(effects[i].effects)

----------------------------------------------------------------------------
(* Enchantments, silence.                                                  *)

\* The five Attach effects: an enchantment entity per target.
attach(w, ctx, f) ==
    LET card == [BlankCard("Enchantment") EXCEPT !.triggers = f.triggers,
                                                 !.continuous = f.continuous]
        Recalc(v, id) == CASE f.mod.m = "Stat" -> recalculate_stats(v, id)
                           [] f.mod.m = "Keyword" -> recalculate_keywords(v, id)
                           [] f.mod.m = "Cost" -> recalculate_cost(v, id)
                           [] OTHER -> v
    IN  IF f.mod.m = "Trigger" /\ ~ValidTriggerEnchantment(f.triggers)
        THEN Fail(w, "InvalidTriggerEnchantment")
        ELSE FoldLeft(LAMBDA v, id :
                        Recalc(spawn_attached_enchantment(v, ctx.ctl, id, card, f.mod, f.until), id),
                      w, select_entities(w, ctx, f.targets))

detach_all_enchantments(w, id) == Recalculated(Detach(w, Attached(w, id)), id)

\* Silence also forgets a pending destruction; its triggers and auras stop
\* because their collection skips silenced entities.
silence_entity(w, id) ==
    LET w1 == [w EXCEPT !.ents[id].kws = {}, !.ents[id].doomed = FALSE, !.ents[id].silenced = TRUE]
    IN  Recalculated(Detach(w1, SelectSeq(Attached(w1, id), LAMBDA a : E(w1, a).mod.rem)), id)

----------------------------------------------------------------------------
(* Heroes.                                                                 *)

MoveOut(w, id, p, z) ==         \* move_out_of_play
    move_entity_with_request(detach_all_enchantments(w, id), id, p, z, None, "Normal").w

\* The new hero's health, armor and attacks, from the old hero o by policy.
InstallHero(w, p, r, o) ==
    LET maximum == IF r.set THEN r.maximum ELSE o.mhp
        current == IF r.set THEN r.current ELSE o.mhp - o.dmg
    IN  Then(spawn_card(w, p, [r.hero EXCEPT !.health = maximum], "Play"), LAMBDA v :
          [v EXCEPT !.ents[NextId(w)] =
             [@ EXCEPT !.mhp = maximum, !.dmg = maximum - current, !.po = v.nextOrder,
                       !.armor = Max2(o.armor + r.armor, 0), !.attacks = o.attacks,
                       !.blocked = o.blocked],
             !.nextOrder = @ + 1])

InstallPower(w, p, power) ==
    LET Spawned(u) == Then(spawn_card(u, p, power, "Play"), LAMBDA v :
                        [v EXCEPT !.ents[NextId(u)].po = v.nextOrder, !.nextOrder = @ + 1])
    IN  Spawned(FoldLeft(LAMBDA v, id : MoveOut(v, id, p, "RemovedFromGame"), w,
                         OfKind(w, p, "Play", "HeroPower")))

InstallWeapon(w, p, weapon) ==
    LET id == NextId(w)
    IN  Then(Then(spawn_card(w, p, weapon, "SetAside"), LAMBDA v : begin_equip(v, p, id)),
             LAMBDA v : push_resolution_ops(v,
               <<[op |-> "PrepareEvent", ctx |-> Context("WeaponEquipped", id, <<id>>, p)],
                 [op |-> "RunSequenceStep", guards |-> <<>>, step |-> [s |-> "FinishEquip", weapon |-> id]]>>))

\* The old hero is set aside; health, armor and attacks carry over by policy;
\* a new power and maybe a weapon follow.
replace_hero(w, p, r) ==
    LET old == hero_id(w, p)
    IN  IF ~ValidReplacement(r) THEN Fail(w, "InvalidHeroReplacement")
        ELSE IF old = 0 THEN Fail(w, "PlayerNotFound")
        ELSE Then(Then(InstallHero(MoveOut(w, old, p, "SetAside"), p, r, E(w, old)),
                       LAMBDA v : InstallPower(v, p, r.power)),
                  LAMBDA v : IF r.hasWeapon THEN InstallWeapon(v, p, r.weapon) ELSE v)

----------------------------------------------------------------------------
(* Transformations and copies.                                             *)

\* Same id, place and order of play, everything else the new card's.
transform_entity(w, id, card) ==
    LET e == E(w, id)
    IN  IF e.kind # "Minion" \/ card.kind # "Minion" \/ ~ValidCard(card)
        THEN Fail(w, "InvalidTransformation")
        ELSE [Detach(w, Attached(w, id)) EXCEPT !.ents[id] =
                [FreshEntity(card, e.ctl) EXCEPT !.zone = e.zone, !.po = e.po, !.blocked = FALSE]]

\* The TransformEntity operation.
run_transform(w, op) ==
    LET own == op.scope # None /\ op.source = op.target /\ ValidPlayScope(w, op.scope, op.target)
    IN  IF IF op.kind = "PlayedSelf" THEN ~own ELSE op.scope # None
        THEN Fail(w, "InvalidTransformation")
        ELSE Then(transform_entity(w, op.target, op.card),
               LAMBDA v : CASE op.kind = "Spell" -> v
                            [] op.kind = "NonSpell" ->
                                 push_resolution_op(v, [op |-> "RefreshAuras", provider |-> 0])
                            [] OTHER -> [v EXCEPT !.work.transformed = @ \cup {op.target}])

\* finish_played_self_transform: only a play that transformed its own subject
\* raises the two after-play events; the second keeps the original's triggers.
finish_played_self_transform(w, scope, op) ==
    LET s  == op.subject
        w1 == [w EXCEPT !.work.scopes = Without(@, scope), !.work.transformed = @ \ {s}]
        Ctx(kind) == Context(kind, s, <<s>>, E(w, s).ctl)
        w2 == prepare_event_with_seeds(prepare_event(w1, Ctx("AfterPlayAndSummon")),
                                       Ctx("AfterPlay"), op.seeds)
    IN  IF ~ValidPlayScope(w, scope, s) THEN Fail(w, "InvalidTransformation")
        ELSE IF s \notin w.work.transformed THEN w1
        ELSE push_resolution_ops(w2,
               <<[op |-> "ResolveEvent", ev |-> w1.work.nextEvent],
                 [op |-> "RunPhaseBoundary"],
                 [op |-> "ResolveEvent", ev |-> w1.work.nextEvent + 1]>>)

HasRuntime(e) == HasStats(e) /\ e.card.def # "system:Hero"      \* CardRuntime

\* restore_play_copy_state: damage, silence, pending destruction, durability
\* and a copy of every attachment; never the attacks of the source.
restore_play_copy_state(w0, src, copy, p) ==
    LET s  == E(w0, src)
        w1 == [w0 EXCEPT !.ents[copy] =
                 [@ EXCEPT !.dmg = s.dmg, !.attacks = 0, !.blocked = TRUE, !.po = w0.nextOrder,
                           !.silenced = s.silenced, !.doomed = s.doomed, !.dur = s.dur],
               !.nextOrder = @ + 1]
        w2 == FoldLeft(LAMBDA w, a : spawn_attached_enchantment(w, p, copy, E(w, a).card,
                                                                E(w, a).mod, E(w, a).until),
                       w1, Attached(w0, src))
    IN  Put(Recalculated(w2, copy), copy, "dmg", s.dmg)

\* copy_state_policy
InPlayState(w, id, z) == E(w, id).zone = "Play" /\ z = "Play"

\* prepare_copy, the errors of it: the policy of the request must be the one the
\* source's zone asks for.
ValidCopy(w, op) ==
    LET card == E(w, op.source).card IN
    /\ HasRuntime(E(w, op.source))
    /\ op.live = InPlayState(w, op.source, op.zone)
    /\ ~(card.kind = "Weapon" /\ card.durability <= 0)
    /\ \/ generated_destination_is_full(w, op.ctl, op.zone, card.kind, card.def)
       \/ spawn_card_at(w, op.ctl, card, op.zone, op.index).err = "" /\ ValidCard(card)

\* A full destination copies nothing.
copy_entity(w, op) ==
    LET card == E(w, op.source).card
        copy == NextId(w)
        w1   == spawn_card_at(w, op.ctl, card, op.zone, op.index)
        w2   == IF op.live THEN restore_play_copy_state(w1, op.source, copy, op.ctl) ELSE w1
    IN  IF ~ValidCopy(w, op) THEN Fail(w, "Invariant")
        ELSE IF generated_destination_is_full(w, op.ctl, op.zone, card.kind, card.def) THEN w
        ELSE IF ~op.live THEN w2
        ELSE push_resolution_ops(
               prepare_event(w2, Context("Summoned", op.origin, <<copy>>, op.ctl)),
               <<[op |-> "RefreshAuras", provider |-> 0],
                 [op |-> "ResolveEvent", ev |-> w2.work.nextEvent]>>)

WithLivePolicy(w, op) == [op EXCEPT !.live = InPlayState(w, op.source, op.zone)]

\* The CopyEntity operation goes by the zone its source is in by now, whatever the
\* policy that was captured when the effect ran.
dispatch_copy(w, op) == copy_entity(w, WithLivePolicy(w, op))

----------------------------------------------------------------------------
(* Turns.                                                                  *)

\* TurnSchedule::schedule
schedule(s, active, p, n, timing) ==
    IF timing = "AfterCurrentTurn" THEN [s EXCEPT !.anchor = active, !.after[p] = @ + n]
    ELSE [s EXCEPT !.series[p] = @ + n]

Extras(p, n) == [i \in 1..n |-> [player |-> p, kind |-> "Extra"]]

\* start_natural_series: a natural turn, then the extras granted to its series.
start_natural_series(s, p) ==
    [turn |-> [player |-> p, kind |-> "Natural"],
     s |-> [s EXCEPT !.pending = @ \o Extras(p, s.series[p]), !.series[p] = 0]]

PopTurn(s) == [turn |-> Head(s.pending), s |-> [s EXCEPT !.pending = Tail(@)]]

next_turn(s, ending) ==
    LET natural == opponent(ending)
        merged  == [s EXCEPT !.series = [p \in PlayerId |-> s.series[p] + s.after[p]],
                             !.after = [p \in PlayerId |-> 0], !.anchor = "none"]
        queued  == [s EXCEPT !.resume = natural, !.anchor = "none",
                             !.after = [p \in PlayerId |-> 0],
                             !.pending = Extras("One", s.after["One"]) \o Extras("Two", s.after["Two"])]
    IN  IF s.pending # <<>> THEN PopTurn(s)
        ELSE IF s.resume # "none" THEN start_natural_series([s EXCEPT !.resume = "none"], s.resume)
        ELSE IF s.series[natural] > 0 THEN start_natural_series(merged, natural)
        ELSE IF \E p \in PlayerId : s.after[p] > 0 THEN PopTurn(queued)
        ELSE start_natural_series(s, natural)

----------------------------------------------------------------------------
(* One operator per effect.                                                *)

choose_effect(w, ctx, f) ==
    IF ~ValidProgram(<<f>>, "none", FALSE) THEN Fail(w, "Invariant")
    ELSE push_resolution_op(w,
           [op |-> "RequestChoice", player |-> resolve_player(ctx.ctl, f.player),
            options |-> [i \in DOMAIN f.options |->
               [id |-> f.options[i].id, ctx |-> ctx, effects |-> f.options[i].effects]]])

\* DealDamage and Heal
health_effect(w, ctx, f) ==
    LET ts    == select_entities(w, ctx, f.targets)
        bonus == IF f.dir = "Healing" THEN 0
                 ELSE CASE ctx.origin = "Spell" -> current_spell_damage(w, ctx.ctl)
                        [] ctx.origin = "HeroPower" -> hero_power_damage_bonus(w, ctx.ctl)
                        [] OTHER -> 0
        n     == evaluate_value(w, ctx, f.amount, Len(ts)) + bonus
        order == in_order_of_play(w, ts)
    IN  push_batch(w, f.dir, [i \in DOMAIN order |->
                                [source |-> ctx.source, target |-> order[i], n |-> n]])

destroy_effect(w, ctx, f) ==
    FoldLeft(LAMBDA v, id : Put(v, id, "doomed", TRUE), w, select_entities(w, ctx, f.targets))

\* All the draws must fit in what is left of the budget.
draw_effect(w, ctx, f) ==
    LET p == resolve_player(ctx.ctl, f.player)
        slot(i) == w.work.nextDraw + i - 1
        w1 == FoldLeft(LAMBDA v, i : allocate_draw_result_slot(v), w, [i \in 1..f.count |-> i])
    IN  IF 2 * f.count > w.work.budget THEN Fail(w, "BudgetExhausted")
        ELSE push_resolution_ops(w1, FlattenSeq([i \in 1..f.count |->
               <<[op |-> "ProcessDraw", player |-> p, source |-> ctx.source, slot |-> slot(i)],
                 [op |-> "FinishDraw", slot |-> slot(i)]>>]))

draw_then_effect(w, ctx, f) ==
    push_resolution_ops(allocate_draw_result_slot(w),
      <<[op |-> "ProcessDraw", player |-> resolve_player(ctx.ctl, f.player),
         source |-> ctx.source, slot |-> w.work.nextDraw],
        [op |-> "ContinueDraw", slot |-> w.work.nextDraw, ctx |-> ctx, effects |-> f.effects,
         policy |-> f.policy]>>)

move_effect(w, ctx, f) ==
    FoldLeft(LAMBDA v, id : Then(v, LAMBDA u :
               move_entity_with_request(u, id, resolve_player(ctx.ctl, f.player), f.zone, None,
                                        f.kind).w),
             w, ByOrder(w, Range(select_entities(w, ctx, f.targets))))

gain_resource_effect(w, ctx, f) ==
    LET p == resolve_player(ctx.ctl, f.player)
    IN  IF hero_id(w, p) = 0 THEN Fail(w, "PlayerNotFound")
        ELSE IF f.temporary THEN [w EXCEPT !.players[p].temporary = @ + f.n]
        ELSE [w EXCEPT !.players[p].maximum = IF @ + f.n < MaximumMana THEN @ + f.n
                                              ELSE MaximumMana]

\* A full board summons nothing; a summoned entity gets its own order of play.
summon_effect(w, ctx, f) ==
    LET p  == resolve_player(ctx.ctl, f.player)
        id == NextId(w)
    IN  IF f.card.kind = "Minion" /\ board_is_full(w, p) THEN w
        ELSE IF f.index # None /\ f.index > Len(board_entities(w, p))
        THEN Fail(w, "InvalidPosition")
        ELSE Then(Then(spawn_card(w, p, f.card, "Play"),
                       LAMBDA v : IF f.index = None THEN v
                                  ELSE move_entity(v, id, "Play", f.index).w),
                  LAMBDA v : push_resolution_ops(
                     prepare_event([v EXCEPT !.ents[id].po = v.nextOrder, !.nextOrder = @ + 1],
                                   Context("Summoned", ctx.source, <<id>>, p)),
                     <<[op |-> "RefreshAuras", provider |-> 0],
                       [op |-> "ResolveEvent", ev |-> v.work.nextEvent]>>))

transform_effect(w, ctx, f, scope) ==
    LET ts == select_entities(w, ctx, f.targets)
    IN  push_resolution_ops(w, [i \in DOMAIN ts |->
          [op |-> "TransformEntity", scope |-> IF f.kind = "PlayedSelf" THEN scope ELSE None,
           target |-> ts[i], source |-> ctx.source, card |-> f.card, kind |-> f.kind]])

copy_effect(w, ctx, f) ==
    LET ts == select_entities(w, ctx, f.targets)
    IN  push_resolution_ops(w, [i \in DOMAIN ts |->
          [op |-> "CopyEntity", source |-> ts[i], origin |-> ctx.source,
           ctl |-> resolve_player(ctx.ctl, f.player), zone |-> f.zone, index |-> f.index,
           live |-> InPlayState(w, ts[i], f.zone)]])

\* A native handler only reads the world; the plan it returns is validated.
native_effect(w, ctx, f, ev) ==
    LET kind == IF ev \in DOMAIN w.work.events THEN w.work.events[ev].ctx.kind ELSE "none"
    IN  IF f.id \notin DOMAIN NativeEffects THEN Fail(w, "NativeEffectNotRegistered")
        ELSE IF ~ValidProgram(NativeEffects[f.id], kind, FALSE) THEN Fail(w, "InvalidProgram")
        ELSE push_effects(w, ctx, NativeEffects[f.id], ev)

\* execute_scoped_effect, behind the play scope check of RunPlayEffect.
execute_effect(w, op) ==
    LET f == op.effect
        c == op.ctx
    IN  IF op.scope # None /\ (c.source = 0 \/ ~ValidPlayScope(w, op.scope, c.source))
        THEN Fail(w, "InvalidTransformation")
        ELSE CASE f.e = "Choose" -> choose_effect(w, c, f)
               [] f.e = "Health" -> health_effect(w, c, f)
               [] f.e = "ModifyEventValue" -> modify_event_value(w, c, op.ev, f.f, f.amount)
               [] f.e = "Destroy" -> destroy_effect(w, c, f)
               [] f.e = "Draw" -> draw_effect(w, c, f)
               [] f.e = "DrawThen" -> draw_then_effect(w, c, f)
               [] f.e = "Move" -> move_effect(w, c, f)
               [] f.e = "GainResource" -> gain_resource_effect(w, c, f)
               [] f.e = "ScheduleExtraTurns" ->
                    [w EXCEPT !.sched = schedule(@, w.game.active, resolve_player(c.ctl, f.player),
                                                 f.n, f.timing)]
               [] f.e = "ReplaceHero" -> replace_hero(w, resolve_player(c.ctl, f.player), f.rep)
               [] f.e = "Summon" -> summon_effect(w, c, f)
               [] f.e = "Attach" -> attach(w, c, f)
               [] f.e = "Silence" -> FoldLeft(silence_entity, w, select_entities(w, c, f.targets))
               [] f.e = "Transform" -> transform_effect(w, c, f, op.scope)
               [] f.e = "Copy" -> copy_effect(w, c, f)
               [] f.e = "Native" -> native_effect(w, c, f, op.ev)
               [] OTHER -> push_scoped_effects(w, c, f.effects, op.ev, op.scope)   \* Sequence
=============================================================================
