---------------------------- MODULE HsSimulation ----------------------------
(***************************************************************************)
(* hearthstone_simulator: player actions.  An action is validated, becomes *)
(* a sequence of operations, and the driver pops them one by one until the *)
(* stack is empty, a choice is pending or an operation fails.              *)
(***************************************************************************)
EXTENDS HsEffects

----------------------------------------------------------------------------
(* What a player may declare.                                              *)

permits_direct_target(w, p, id) ==
    E(w, id).ctl = p \/ ~(has_keyword(w, id, "Stealth") \/ has_keyword(w, id, "Immune"))

\* eligible_targets and target_matches
eligible_targets(w, p, f) ==
    LET sides == [Friendly |-> {p}, Enemy |-> {opponent(p)}, Either |-> PlayerId]
        kinds == [Minion |-> {"Minion"}, Hero |-> {"Hero"}, Character |-> {"Minion", "Hero"}]
    IN  {id \in UNION {Range(InZone(w, q, "Play")) : q \in sides[f.audience]} :
           E(w, id).kind \in kinds[f.kind] /\ permits_direct_target(w, p, id)}

\* validate_target accepts exactly what target_options lists; 0 is no target.
target_options(w, p, t) ==
    IF t.req = "None" THEN {0}
    ELSE LET S == eligible_targets(w, p, t.filter)
         IN  CASE t.req = "Required" -> S
               [] t.req = "Optional" -> S \cup {0}
               [] OTHER -> IF S = {} THEN {0} ELSE S          \* RequiredIfAvailable

active_taunt(w, p, id) ==
    E(w, id).kind = "Minion" /\ has_keyword(w, id, "Taunt") /\ permits_direct_target(w, p, id)

attack_exhausted(w, id) ==
    LET allowance == IF has_keyword(w, id, "Windfury") \/ grants_windfury(w, id) THEN 2 ELSE 1
        bypass == E(w, id).kind = "Minion"
                  /\ (has_keyword(w, id, "Charge") \/ has_keyword(w, id, "Rush"))
    IN  (E(w, id).blocked /\ ~bypass) \/ E(w, id).attacks >= allowance

\* Readiness that only Rush bypasses: no attack on a hero.
RushOnly(w, id) ==
    E(w, id).blocked /\ E(w, id).kind = "Minion" /\ ~has_keyword(w, id, "Charge")

can_thaw(w, id) ==
    /\ E(w, id).kind \in {"Hero", "Minion"} /\ ~attack_exhausted(w, id)
    /\ RushOnly(w, id) => OfKind(w, opponent(E(w, id).ctl), "Play", "Minion") # <<>>

validate_attack(w, p, a, d) ==
    /\ a \in Range(InZone(w, p, "Play")) /\ E(w, a).kind \in {"Hero", "Minion"}
    /\ ~has_keyword(w, a, "Frozen") /\ ~attack_exhausted(w, a) /\ effective_attack(w, a) > 0
    /\ d \in Range(InZone(w, opponent(p), "Play")) /\ E(w, d).kind \in {"Hero", "Minion"}
    /\ ~(RushOnly(w, a) /\ E(w, d).kind = "Hero")
    /\ permits_direct_target(w, p, d)
    /\ (\E i \in DOMAIN InZone(w, opponent(p), "Play") :
          active_taunt(w, p, InZone(w, opponent(p), "Play")[i])) => active_taunt(w, p, d)

Affordable(w, p, id) == available_resources(w, p) >= Max2(E(w, id).cost, 0)

validate_play_card(w, p, id, target, pos) ==
    LET e == E(w, id) IN
    /\ id \in Range(InZone(w, p, "Hand")) /\ e.kind \in {"Minion", "Spell", "Weapon"}
    /\ e.kind = "Weapon" => e.card.durability > 0 /\ e.dur > 0
    /\ e.kind = "Minion" => ~board_is_full(w, p)
    /\ ValidCard(e.card)
    /\ Affordable(w, p, id)
    /\ target \in target_options(w, p, e.card.targeting)
    /\ IF e.kind = "Minion" THEN pos \in 0..Len(board_entities(w, p)) ELSE pos = None

validate_hero_power(w, p, id, target) ==
    LET e == E(w, id) IN
    /\ id \in Range(InZone(w, p, "Play")) /\ e.kind = "HeroPower" /\ ~e.exhausted
    /\ ValidProgram(e.card.effects, "none", FALSE)
    /\ Affordable(w, p, id)
    /\ target \in target_options(w, p, e.card.targeting)

\* validate_action before it looks at the action itself
MayAct(w, p) ==
    w.game.outcome = "none" /\ w.game.status = "AwaitingAction" /\ w.game.active = p

\* legal_actions: every candidate that validate_action accepts.
legal_actions(w) ==
    LET p == w.game.active
        play == InZone(w, p, "Play")
        Plays == UNION {{[a |-> "PlayCard", player |-> p, card |-> c, target |-> t, pos |-> n] :
                           t \in target_options(w, p, E(w, c).card.targeting),
                           n \in IF E(w, c).kind = "Minion" THEN 0..Len(board_entities(w, p))
                                 ELSE {None}} :
                          c \in {x \in Range(InZone(w, p, "Hand")) : HasRuntime(E(w, x))}}
        Attacks == {[a |-> "Attack", player |-> p, attacker |-> x, defender |-> y] :
                      x \in Range(play), y \in Range(InZone(w, opponent(p), "Play"))}
        Powers == UNION {{[a |-> "UseHeroPower", player |-> p, power |-> x, target |-> t] :
                            t \in target_options(w, p, E(w, x).card.targeting)} :
                           x \in Range(OfKind(w, p, "Play", "HeroPower"))}
    IN  IF ~MayAct(w, p) THEN {}
        ELSE {x \in Plays : validate_play_card(w, p, x.card, x.target, x.pos)}
             \cup {x \in Attacks : validate_attack(w, p, x.attacker, x.defender)}
             \cup {x \in Powers : validate_hero_power(w, p, x.power, x.target)}
             \cup {[a |-> "EndTurn", player |-> p], [a |-> "Concede", player |-> p]}

----------------------------------------------------------------------------
(* Sequence steps.                                                         *)

\* A RunSequenceStep is one without guards.
Step(s) == [op |-> "RunSequenceStep", guards |-> <<>>, step |-> s]
Guarded(guards, s) == [op |-> "RunGuardedSequenceStep", guards |-> guards, step |-> s]
Boundary == [op |-> "RunPhaseBoundary"]
CheckOutcome == [op |-> "CheckOutcome"]
Raise(kind, source, targets, p) ==
    [op |-> "PrepareEvent", ctx |-> Context(kind, source, targets, p)]
Declared(t) == IF t = 0 THEN <<>> ELSE <<t>>

spend_resources(w, p, n) ==
    IF hero_id(w, p) = 0 THEN Fail(w, "PlayerNotFound")
    ELSE [w EXCEPT !.players[p].used = @ + Max2(n, 0), !.players[p].spent = @ + Max2(n, 0)]

Effects(ctx, effects, scope) ==
    [i \in DOMAIN effects |->
        [op |-> "RunEffect", ctx |-> ctx, effect |-> effects[i], ev |-> None, scope |-> scope]]

\* The reactions to the play are frozen before anything is paid or moved.
play_weapon(w, p, id, target) ==
    LET ctx   == Context("AfterPlay", id, <<id>>, p)
        after == w.work.nextEvent
        w1    == prepare_event_with_seeds(w, ctx, collect_trigger_seeds(w, ctx))
        prog  == Effects(EffectContext(id, p, target, 0, "Other"), E(w, id).card.effects, None)
    IN  Then(Then(spend_resources(w1, p, E(w, id).cost), LAMBDA v : begin_equip(v, p, id)),
             LAMBDA v : push_resolution_ops(v,
               <<Raise("CardPlayed", id, Declared(target), p)>> \o prog
               \o <<Raise("WeaponEquipped", id, <<id>>, p),
                    Step([s |-> "FinishEquip", weapon |-> id]), Boundary,
                    [op |-> "ResolveEvent", ev |-> after]>>))

\* What follows the move m of a played card: a minion that may transform
\* itself gets a completion scope, and keeps the after-play triggers it has.
Played(m, e, p, id, target) ==
    LET minion == e.kind = "Minion"
        scoped == minion /\ contains_played_self_transform(e.card.effects)
        ctx    == EffectContext(id, p, target, 0, IF e.kind = "Spell" THEN "Spell" ELSE "Other")
    IN  IF m.out # "Moved" THEN Fail(m.w, "Invariant")
        ELSE push_resolution_ops(
               IF scoped
               THEN open_play_scope(m.w, id,
                      collect_trigger_seeds(m.w, Context("AfterPlay", id, <<id>>, p)))
               ELSE m.w,
               <<Raise("CardPlayed", id, Declared(target), p)>>
               \o (IF minion THEN <<Raise("Summoned", id, <<id>>, p),
                                    [op |-> "RefreshAuras", provider |-> id]>> ELSE <<>>)
               \o Effects(ctx, e.card.effects, IF scoped THEN m.w.work.nextRes ELSE None))

play_minion_or_spell(w, p, id, target, pos) ==
    LET e == E(w, id)
    IN  Then(spend_resources(w, p, e.cost), LAMBDA v :
          Played(move_entity(v, id, IF e.kind = "Minion" THEN "Play" ELSE "Graveyard", pos),
                 e, p, id, target))

play_card(w, s) ==
    IF s.card \notin Range(InZone(w, s.player, "Hand")) THEN Fail(w, "NotControlled")
    ELSE IF E(w, s.card).kind = "Weapon" THEN play_weapon(w, s.player, s.card, s.target)
    ELSE play_minion_or_spell(w, s.player, s.card, s.target, s.pos)

use_hero_power(w, s) ==
    LET ctx == Context("AfterHeroPower", s.power, Declared(s.target), s.player)
        after == w.work.nextEvent
        w1  == prepare_event_with_seeds(w, ctx, collect_trigger_seeds(w, ctx))
    IN  IF s.power \notin Range(InZone(w, s.player, "Play")) THEN Fail(w, "NotControlled")
        ELSE Then(spend_resources(w1, s.player, E(w, s.power).cost), LAMBDA v :
               push_resolution_ops(v,
                 Effects(EffectContext(s.power, s.player, s.target, 0, "HeroPower"),
                         E(w, s.power).card.effects, None)
                 \o <<Step([s |-> "FinishHeroPower", power |-> s.power]), Boundary,
                      [op |-> "ResolveEvent", ev |-> after]>>))

\* The power that was used, wherever it is by now.
finish_hero_power(w, id) ==
    [w EXCEPT !.ents[id].uses = @ + 1, !.ents[id].exhausted = TRUE]

attack(w, s) ==
    LET a == [subject |-> s.attacker, zone |-> "Play"]
        d == [subject |-> s.defender, zone |-> "Play"]
    IN  push_resolution_ops(w,
          <<Raise("Attack", s.attacker, <<s.defender>>, s.player),
            Guarded(<<a>>, [s |-> "BreakAttackStealth", attacker |-> s.attacker]),
            Boundary, CheckOutcome,
            Guarded(<<a, d>>, [s EXCEPT !.s = "PrepareCombatDamage"])>>)

KeywordLoss(w, id, kw) ==
    recalculate_keywords(
        spawn_attached_enchantment(w, E(w, id).ctl, id, BlankCard("Enchantment"),
            [m |-> "Keyword", rem |-> TRUE, kw |-> kw, granted |-> FALSE], Permanent), id)

break_attack_stealth(w, id) ==
    IF has_keyword(w, id, "Stealth") THEN KeywordLoss(w, id, "Stealth") ELSE w

\* The payer of the attack is captured with the operation that charges it.
prepare_combat_damage(w, s) ==
    LET counter == effective_attack(w, s.defender)
        hits == <<[source |-> s.attacker, target |-> s.defender, n |-> effective_attack(w, s.attacker)]>>
                \o IF counter > 0
                   THEN <<[source |-> s.defender, target |-> s.attacker, n |-> counter]>> ELSE <<>>
        weapon == attack_weapon(w, s.attacker)
        owner == E(w, s.attacker).ctl
        w1 == push_resolution_op(w, Step([s EXCEPT !.s = "FinishAttack"]))
        w2 == IF weapon = 0 THEN w1
              ELSE [push_resolution_op(w1, Step([s |-> "ConsumeDurability", player |-> owner,
                                                 weapon |-> weapon]))
                      EXCEPT !.work.payers = @ @@ (w1.work.nextRes :> <<owner, weapon>>)]
    IN  IF w.game.outcome # "none" THEN w
        ELSE push_batch(w2, "Damage", hits)

finish_attack(w, s) ==
    push_resolution_op([w EXCEPT !.ents[s.attacker].attacks = @ + 1],
                       Raise("AfterAttack", s.attacker, <<s.defender>>, s.player))

end_turn(w, p) ==
    push_resolution_ops(w,
        <<Raise("TurnEnded", 0, <<>>, p), Boundary, CheckOutcome,
          Step([s |-> "ThawCharacters", player |-> p]),
          Step([s |-> "AdvanceTurn", player |-> p])>>)

thaw_characters(w, p) ==
    FoldLeft(LAMBDA v, id : IF has_keyword(v, id, "Frozen") /\ can_thaw(v, id)
                            THEN KeywordLoss(v, id, "Frozen") ELSE v,
             w, InZone(w, p, "Play"))

expire_temporary_effects(w, ending, next) ==
    LET Expires(a) == /\ E(w, a).att # 0 /\ InPlay(w, a) /\ E(w, a).until.p = ending
                      /\ \/ E(w, a).until.k = "EndOfTurn"
                         \/ E(w, a).until.k = "EndOfTurnSeries" /\ next # ending
    IN  FoldLeft(LAMBDA v, a : Recalculated(Detach(v, <<a>>), E(w, a).att),
                 w, SortedIds({a \in Ids(w) : Expires(a)}))

advance_turn(w, p) ==
    LET n == next_turn(w.sched, p)
    IN  IF w.game.outcome # "none" THEN w
        ELSE push_resolution_op(expire_temporary_effects([w EXCEPT !.sched = n.s], p, n.turn.player),
                                Step([s |-> "StartTurn", player |-> n.turn.player]))

start_turn(w, p) ==
    LET w1 == [w EXCEPT !.game.active = p, !.game.turn = @ + 1]
        q  == w1.players[p]
        w2 == [w1 EXCEPT !.players[p] =
                 [q EXCEPT !.maximum = IF @ + 1 < MaximumMana THEN @ + 1 ELSE MaximumMana,
                           !.used = 0, !.temporary = 0, !.locked = q.overload, !.overload = 0]]
        Ready(v, id) == [v EXCEPT !.ents[id].attacks = 0, !.ents[id].blocked = FALSE,
                                  !.ents[id].uses = 0, !.ents[id].exhausted = FALSE]
    IN  IF hero_id(w, p) = 0 THEN Fail(w1, "PlayerNotFound")
        ELSE push_resolution_op(FoldLeft(Ready, w2, InZone(w, p, "Play")),
                                Raise("TurnStarted", 0, <<>>, p))

run_sequence_step(w, s) ==
    CASE s.s = "PlayCard" -> play_card(w, s)
      [] s.s = "UseHeroPower" -> use_hero_power(w, s)
      [] s.s = "FinishHeroPower" -> finish_hero_power(w, s.power)
      [] s.s = "Attack" -> attack(w, s)
      [] s.s = "BreakAttackStealth" -> break_attack_stealth(w, s.attacker)
      [] s.s = "PrepareCombatDamage" -> prepare_combat_damage(w, s)
      [] s.s = "ConsumeDurability" -> consume_durability(w, s.player, s.weapon)
      [] s.s = "FinishAttack" -> finish_attack(w, s)
      [] s.s = "FinishEquip" -> finish_equip(w, s.weapon)
      [] s.s = "EndTurn" -> end_turn(w, s.player)
      [] s.s = "ThawCharacters" -> thaw_characters(w, s.player)
      [] s.s = "AdvanceTurn" -> advance_turn(w, s.player)
      [] s.s = "StartTurn" -> start_turn(w, s.player)
      [] OTHER -> [w EXCEPT !.game.outcome = opponent(s.player)]          \* Concede

\* A step whose subject has left the zone it was accepted in is skipped.
run_guarded_sequence_step(w, guards, s) ==
    IF \A i \in DOMAIN guards : E(w, guards[i].subject).zone = guards[i].zone
    THEN run_sequence_step(w, s) ELSE w

----------------------------------------------------------------------------
(* Choices.                                                                *)

\* validate_choice_request: the only operations effect programs put in a
\* branch are RunEffect without an event, so the branch checks come down to
\* the programs.
validate_choice_request(r) ==
    /\ r.options # <<>>
    /\ \A a, b \in DOMAIN r.options : r.options[a].id = r.options[b].id => a = b
    /\ \A a \in DOMAIN r.options : ValidProgram(r.options[a].effects, "none", FALSE)

request_choice(w, op) ==
    IF ~validate_choice_request(op) \/ w.work.choice # <<>> THEN Fail(w, "Invariant")
    ELSE [w EXCEPT !.work.choice = <<op>>, !.game.status = "AwaitingChoice"]

\* option is an index of the pending request's options
answer_choice(w, option) ==
    LET o == w.work.choice[1].options[option]
    IN  push_effects([w EXCEPT !.work.choice = <<>>, !.game.status = "Resolving"],
                     o.ctx, o.effects, None)

----------------------------------------------------------------------------
(* The driver.                                                             *)

execute_resolution_op(w, x) ==
    LET op == x.op IN
    CASE op.op \in {"RunSequenceStep", "RunGuardedSequenceStep"} ->
           run_guarded_sequence_step(w, op.guards, op.step)
      [] op.op = "RunPhaseBoundary" -> run_phase_boundary(w)
      [] op.op = "RefreshAuras" -> IF op.provider = 0 THEN refresh_all_auras(w)
                                   ELSE refresh_played_provider(w, op.provider)
      [] op.op = "CheckOutcome" -> check_outcome(w)
      [] op.op = "PrepareEvent" -> RaiseEvent(w, op.ctx)
      [] op.op = "ResolveEvent" -> expand_event(w, op.ev)
      [] op.op = "FinishEvent" -> take_prepared_event(w, op.ev)
      [] op.op = "ResolveEventSlot" -> resolve_event_slot(w, op.slot)
      [] op.op = "AttemptTrigger" -> attempt_trigger(w, op.cand)
      [] op.op = "FinishTrigger" -> w
      [] op.op = "RunEffect" -> execute_effect(w, op)
      [] op.op = "ProcessBatch" -> expand_batch(w, op.dir, op.requests)
      [] op.op = "ProcessHealth" -> process_health(w, op)
      [] op.op = "ApplyHealth" -> apply_prepared(w, op)
      [] op.op = "ProcessDraw" -> process_draw(w, op)
      [] op.op = "FinishDraw" -> take_draw_result(w, op.slot)
      [] op.op = "ContinueDraw" -> continue_draw(w, op)
      [] op.op = "TransformEntity" -> run_transform(w, op)
      [] op.op = "FinishPlayedSelfTransform" -> finish_played_self_transform(w, x.id, op)
      [] op.op = "CopyEntity" -> dispatch_copy(w, op)
      [] OTHER -> request_choice(w, op)                                    \* RequestChoice

IsPayment(op) == op.op = "RunSequenceStep" /\ op.step.s = "ConsumeDurability"

\* One turn of drive_resolution's loop.
drive_one(w) ==
    LET x == Last(w.work.stack)
        Pay(v) ==
            LET paid == [v EXCEPT !.work.payers = Without(@, x.id)]
            IN  IF ~IsPayment(x.op) THEN v
                ELSE IF x.id \in DOMAIN v.work.payers
                        /\ v.work.payers[x.id] = <<x.op.step.player, x.op.step.weapon>>
                THEN paid ELSE Fail(paid, "Invariant")
    IN  Then(Then(consume_budget(pop_resolution_op(w)), Pay), LAMBDA v : execute_resolution_op(v, x))

\* weapon::assert_invariants
FinishEquips(w, id) ==
    {i \in DOMAIN w.work.stack : /\ w.work.stack[i].op.op = "RunSequenceStep"
                                 /\ w.work.stack[i].op.step.s = "FinishEquip"
                                 /\ w.work.stack[i].op.step.weapon = id}

WeaponsConsistent(w) ==
    /\ \A p \in PlayerId : w.equip.active[p] # 0 => active_weapon(w, p) = w.equip.active[p]
    /\ \A id \in Ids(w) \ DOMAIN w.equip.pending : FinishEquips(w, id) = {}
    /\ \A new \in DOMAIN w.equip.pending :
         LET old == w.equip.pending[new] IN
         /\ E(w, new).kind = "Weapon" /\ old # new
         /\ old # 0 => E(w, old).kind = "Weapon" /\ E(w, old).ctl = E(w, new).ctl
         /\ Cardinality(FinishEquips(w, new)) = 1
    /\ \A p \in PlayerId : \A i \in DOMAIN OfKind(w, p, "Play", "Weapon") :
         LET id == OfKind(w, p, "Play", "Weapon")[i] IN active_weapon(w, p) = id \/ Replaced(w, id)

\* assert_zone_invariants
IndexNamesItsEntities(w) ==
    \A p \in PlayerId, z \in Zone : \A i \in DOMAIN w.ix[p][z] :
        E(w, w.ix[p][z][i]).zone = z /\ E(w, w.ix[p][z][i]).ctl = p

\* assert_player_role_invariants
RolesHeld(w) ==
    \A p \in PlayerId : /\ Len(OfKind(w, p, "Play", "Hero")) = 1
                        /\ Len(OfKind(w, p, "Play", "HeroPower")) = 1

Rested(w) == [w EXCEPT !.game.status = IF w.game.outcome # "none" THEN "Complete"
                                       ELSE "AwaitingAction"]

AssertIdle(w) == IF PayersOwned(w) /\ IdleWork(w.work) THEN w ELSE Fail(w, "Invariant")
AssertWorld(w) ==
    IF WeaponsConsistent(w) /\ IndexNamesItsEntities(w) /\ RolesHeld(w) THEN w
    ELSE Fail(w, "Invariant")

finish_resolution_if_idle(w) ==
    IF w.game.status = "AwaitingChoice" \/ w.work.stack # <<>> THEN w
    ELSE Then(AssertIdle(finish_sequence(w)), LAMBDA v : AssertWorld(Rested(v)))

\* Mutant: the status is not reset.
abandon_stays_resolving(w) == abandon_sequence(abandon_equips([w EXCEPT !.err = ""]))

\* The error path of resolve_to_pause: nothing is rolled back.
abandon(w) == Rested(abandon_sequence(abandon_equips([w EXCEPT !.err = ""])))

GuardOf(a) ==
    CASE a.a = "PlayCard" -> <<[subject |-> a.card, zone |-> "Hand"]>>
      [] a.a = "Attack" -> <<[subject |-> a.attacker, zone |-> "Play"],
                             [subject |-> a.defender, zone |-> "Play"]>>
      [] a.a = "UseHeroPower" -> <<[subject |-> a.power, zone |-> "Play"]>>
      [] OTHER -> <<>>

StepOf(a) ==
    CASE a.a = "PlayCard" -> [s |-> "PlayCard", player |-> a.player, card |-> a.card,
                              target |-> a.target, pos |-> a.pos]
      [] a.a = "Attack" -> [s |-> "Attack", player |-> a.player, attacker |-> a.attacker,
                            defender |-> a.defender]
      [] a.a = "UseHeroPower" -> [s |-> "UseHeroPower", player |-> a.player, power |-> a.power,
                                  target |-> a.target]
      [] OTHER -> [s |-> a.a, player |-> a.player]

\* apply_action up to the driver; an unguarded step is one with no guards.
apply_action(w, a) ==
    Then(begin_sequence([w EXCEPT !.game.status = "Resolving"]),
         LAMBDA v : push_resolution_ops(v, <<Guarded(GuardOf(a), StepOf(a)), Boundary, CheckOutcome>>))
=============================================================================
