----------------------------- MODULE HsResolve -----------------------------
(***************************************************************************)
(* hearthstone_simulator: the resolution engine.  A player action becomes  *)
(* a sequence: a stack of operations, each popped, paid for from a budget  *)
(* and executed, which may push more.  The tables beside the stack hold    *)
(* what operations hand to later ones: prepared events, event slots, draw  *)
(* results, play scopes, durability payers and the pending choice.         *)
(***************************************************************************)
EXTENDS HsWorld

----------------------------------------------------------------------------
(* The work tables.                                                        *)

\* What begin_sequence and the idle invariant both ask of the tables.
IdleWork(k) ==
    /\ k.stack = <<>> /\ DOMAIN k.events = {} /\ DOMAIN k.slots = {} /\ DOMAIN k.draws = {}
    /\ DOMAIN k.scopes = {} /\ DOMAIN k.payers = {} /\ k.transformed = {} /\ k.choice = <<>>

begin_sequence(w) ==
    IF w.work.active \/ ~IdleWork(w.work) THEN Fail(w, "AlreadyResolving")
    ELSE [w EXCEPT !.work.budget = Budget, !.work.active = TRUE]

finish_sequence(w) == [w EXCEPT !.work.active = FALSE]

abandon_sequence(w) ==
    [w EXCEPT !.work = [EmptyWork EXCEPT !.nextRes = w.work.nextRes,
                                         !.nextEvent = w.work.nextEvent,
                                         !.nextSlot = w.work.nextSlot,
                                         !.nextDraw = w.work.nextDraw]]

push_resolution_op(w, op) ==
    [w EXCEPT !.work.stack = Append(@, [id |-> w.work.nextRes, op |-> op]),
              !.work.nextRes = @ + 1]

\* In execution order: the first of ops ends on top.
push_resolution_ops(w, ops) == FoldLeft(push_resolution_op, w, Reverse(ops))

pop_resolution_op(w) == [w EXCEPT !.work.stack = Front(@)]

consume_budget(w) ==
    IF w.work.budget = 0 THEN Fail(w, "BudgetExhausted") ELSE [w EXCEPT !.work.budget = @ - 1]

\* A played minion's completion scope is named by the operation that closes it.
open_play_scope(w, subject, seeds) ==
    [push_resolution_op(w, [op |-> "FinishPlayedSelfTransform", subject |-> subject,
                            seeds |-> seeds])
       EXCEPT !.work.scopes = @ @@ (w.work.nextRes :> subject)]

ValidPlayScope(w, scope, subject) ==
    /\ scope \in DOMAIN w.work.scopes /\ w.work.scopes[scope] = subject
    /\ E(w, subject).kind = "Minion"

\* Every stacked durability operation has the payer captured for it.
PayersOwned(w) ==
    LET pays == {i \in DOMAIN w.work.stack :
                   /\ w.work.stack[i].op.op = "RunSequenceStep"
                   /\ w.work.stack[i].op.step.s = "ConsumeDurability"}
    IN  /\ {w.work.stack[i].id : i \in pays} = DOMAIN w.work.payers
        /\ \A i \in pays : w.work.payers[w.work.stack[i].id]
                             = <<w.work.stack[i].op.step.player, w.work.stack[i].op.step.weapon>>

allocate_draw_result_slot(w) ==
    [w EXCEPT !.work.draws = @ @@ (w.work.nextDraw :> [o |-> "empty", id |-> 0]), !.work.nextDraw = @ + 1]

----------------------------------------------------------------------------
(* Events.  A context is what happened; a prepared event adds the triggers *)
(* frozen when it was prepared (seeds) and when it was expanded (cands).   *)

Context(kind, source, targets, ctl) ==
    [kind |-> kind, source |-> source, targets |-> targets, ctl |-> ctl,
     proposed |-> None, actual |-> None, ordinal |-> 0]

Prepared(w, ctx, frozen, seeds) ==
    [w EXCEPT !.work.events = @ @@ (w.work.nextEvent :>
                 [ctx |-> ctx, frozen |-> frozen, seeds |-> seeds, expanded |-> FALSE,
                  cands |-> <<>>]),
              !.work.nextEvent = @ + 1]

\* The new event's id is w.work.nextEvent.
prepare_event(w, ctx) == Prepared(w, ctx, FALSE, <<>>)
prepare_event_with_seeds(w, ctx, seeds) == Prepared(w, ctx, TRUE, seeds)

take_prepared_event(w, ev) ==
    IF ev \notin DOMAIN w.work.events THEN Fail(w, "MissingEvent")
    ELSE [w EXCEPT !.work.events = Without(@, ev)]

\* Prepare an event and put its resolution on top.
RaiseEvent(w, ctx) ==
    push_resolution_op(prepare_event(w, ctx), [op |-> "ResolveEvent", ev |-> w.work.nextEvent])

----------------------------------------------------------------------------
(* Triggers.                                                               *)

resolve_player(ctl, sel) ==
    CASE sel = "Controller" -> ctl [] sel = "Opponent" -> opponent(ctl) [] OTHER -> sel

\* Entities a group selector names, in index order: One's Play, then Two's.
GroupIds(w, ctl, sel) ==
    LET sides == CASE sel.who = "Friendly" -> <<ctl>> [] sel.who = "Enemy" -> <<opponent(ctl)>>
                   [] OTHER -> <<"One", "Two">>
        kinds == IF sel.kinds = "Minions" THEN {"Minion"} ELSE {"Hero", "Minion"}
    IN  SelectSeq(FlattenSeq([i \in DOMAIN sides |-> InZone(w, sides[i], "Play")]),
                  LAMBDA id : E(w, id).kind \in kinds)

\* Random(inner) counts one when inner counts any, a bound that the inner
\* count already decides; a selector record carries random as a flag.
selector_count(w, source, ctl, ev, sel) ==
    LET n == CASE sel.s = "Source" -> 1
               [] sel.s = "DrawnCard" -> 0
               [] sel.s = "AttachedEntity" -> IF E(w, source).att # 0 THEN 1 ELSE 0
               [] sel.s = "DeclaredTarget" -> IF ev.targets # <<>> THEN 1 ELSE 0
               [] sel.s = "Entity" -> IF exists(w, sel.id) THEN 1 ELSE 0
               [] sel.s = "InZone" -> Len(InZone(w, resolve_player(ctl, sel.player), sel.zone))
               [] OTHER -> Len(GroupIds(w, ctl, sel))
    IN  IF sel.random /\ n > 0 THEN 1 ELSE n

evaluate_condition(w, source, ev, c) ==
    LET e == E(w, source) IN
    CASE c.c = "Always" -> TRUE
      [] c.c = "SourceInZone" -> e.zone = c.zone
      [] c.c = "EventValueAtLeast" ->
            (IF ev.actual # None THEN ev.actual ELSE ev.proposed) >= c.n
      [] c.c = "EventSourceIsSelf" -> ev.source = source
      [] c.c = "EventTargetsSelf" -> source \in Range(ev.targets)
      [] c.c = "EventTargetsAttachedEntity" -> e.att # 0 /\ e.att \in Range(ev.targets)
      [] c.c = "EventControllerIs" -> ev.ctl = resolve_player(e.ctl, c.player)
      [] c.c = "ControllerIs" -> e.ctl = c.player
      [] OTHER -> selector_count(w, source, e.ctl, ev, c.sel) >= c.n

trigger_is_eligible(w, source, d, ev, timing) ==
    /\ d.policy = "MustRemainInEligibleZone" => E(w, source).zone \in d.zones
    /\ \A i \in DOMAIN d.conds :
         d.conds[i].t = timing => evaluate_condition(w, source, ev, d.conds[i])

collect_trigger_seeds(w, ev) ==
    LET S == UNION {{[source |-> id, i |-> i] : i \in DOMAIN E(w, id).card.triggers} :
                      id \in {x \in Ids(w) : ~E(w, x).silenced}}
        T == {s \in S :
                LET d == E(w, s.source).card.triggers[s.i]
                IN  /\ d.event = ev.kind /\ E(w, s.source).zone \in d.zones
                    /\ trigger_is_eligible(w, s.source, d, ev, "PreCheck")}
        order == Sorted(T, LAMBDA a, b : LexLess(<<E(w, a.source).po, a.source, a.i>>,
                                                        <<E(w, b.source).po, b.source, b.i>>))
    IN  [k \in DOMAIN order |->
            LET s == order[k] IN
            [source |-> s.source, i |-> s.i, d |-> E(w, s.source).card.triggers[s.i],
             zone |-> E(w, s.source).zone, po |-> E(w, s.source).po]]

zone_bucket ==
    [Play |-> 0, Secret |-> 1, Hand |-> 2, Deck |-> 3, Graveyard |-> 4, SetAside |-> 5,
     RemovedFromGame |-> 6]

\* TriggerOrderKey: dominant player first, then zone, priority, order of play.
OrderKey(w, ev, s) ==
    <<IF E(w, s.source).ctl # w.dominant THEN 1 ELSE 0,
      IF ev.kind = "Death" THEN 0 ELSE zone_bucket[s.zone], s.d.priority, s.po, s.source, s.i>>

collect_trigger_candidates(w, id, ev, seeds) ==
    LET queued == {k \in DOMAIN seeds :
                     trigger_is_eligible(w, seeds[k].source, seeds[k].d, ev, "QueueTime")}
        order == Sorted(queued, LAMBDA a, b :
                     LexLess(OrderKey(w, ev, seeds[a]), OrderKey(w, ev, seeds[b])))
    IN  [k \in DOMAIN order |->
            [source |-> seeds[order[k]].source, ev |-> id, d |-> seeds[order[k]].d,
             ctl |-> E(w, seeds[order[k]].source).ctl]]

----------------------------------------------------------------------------
(* Expanding an event into trigger attempts, and an attempt into effects.  *)

EffectContext(source, ctl, target, drawn, origin) ==
    [source |-> source, ctl |-> ctl, target |-> target, drawn |-> drawn, origin |-> origin]

\* The effects of a program become operations, the first one on top.  With a
\* scope they are the RunPlayEffect operations of a minion's own program.
push_scoped_effects(w, ctx, effects, ev, scope) ==
    push_resolution_ops(w, [i \in DOMAIN effects |->
        [op |-> "RunEffect", ctx |-> ctx, effect |-> effects[i], ev |-> ev, scope |-> scope]])

push_effects(w, ctx, effects, ev) == push_scoped_effects(w, ctx, effects, ev, None)

Proposed == {"ProposedDamage", "ProposedHealing"}

\* Candidates are frozen the first time an event is expanded.  A proposed
\* event stays prepared: the operation that applies it takes it.
expand_event(w, ev) ==
    IF ev \notin DOMAIN w.work.events THEN Fail(w, "MissingEvent")
    ELSE
    LET e     == w.work.events[ev]
        cands == IF e.expanded THEN e.cands
                 ELSE collect_trigger_candidates(
                        w, ev, e.ctx,
                        IF e.frozen THEN e.seeds ELSE collect_trigger_seeds(w, e.ctx))
        ops   == [i \in DOMAIN cands |-> [op |-> "AttemptTrigger", cand |-> cands[i]]]
        w1    == [w EXCEPT !.work.events[ev].expanded = TRUE, !.work.events[ev].cands = cands]
    IN  push_resolution_ops(w1, ops \o IF e.ctx.kind \in Proposed THEN <<>>
                                       ELSE <<[op |-> "FinishEvent", ev |-> ev]>>)

attempt_trigger(w, c) ==
    IF c.ev \notin DOMAIN w.work.events THEN Fail(w, "MissingEvent")
    ELSE
    LET ev  == w.work.events[c.ev].ctx
        ctx == EffectContext(c.source, c.ctl, IF ev.targets = <<>> THEN 0 ELSE ev.targets[1],
                             0, "Other")
    IN  IF ~trigger_is_eligible(w, c.source, c.d, ev, "ResolutionTime") THEN w
        ELSE push_effects(push_resolution_op(w, [op |-> "FinishTrigger"]), ctx, c.d.program, c.ev)

\* Health and attack auras, deaths, attack and other auras; then the deaths
\* taken together become prechecked events and another boundary follows them.
DeathContext(r) == [Context("Death", r.entity, <<r.entity>>, r.ctl) EXCEPT !.ordinal = r.ordinal]

prepare_death_event(w, r) ==
    prepare_event_with_seeds(w, DeathContext(r), collect_trigger_seeds(w, DeathContext(r)))

RaiseDeaths(w, deaths) ==
    IF deaths = <<>> THEN w
    ELSE push_resolution_ops(
           FoldLeft(prepare_death_event, [w EXCEPT !.pendingDeaths = <<>>], deaths),
           [i \in DOMAIN deaths |-> [op |-> "ResolveEvent", ev |-> w.work.nextEvent + i - 1]]
           \o <<[op |-> "RunPhaseBoundary"]>>)

TakeDeaths(w) == RaiseDeaths(w, PendingInOrder(w))

\* Mutant: the auras are not refreshed around the deaths.
boundary_with_stale_auras(w) == TakeDeaths(create_deaths(w))

run_phase_boundary(w) ==
    TakeDeaths(refresh_post_death_auras(create_deaths(
                 refresh_health_attack_auras(refresh_health_attack_auras(w)))))

----------------------------------------------------------------------------
(* Damage and healing.  dir is "Damage" or "Healing"; the code has the two *)
(* side by side with the same shape.                                       *)

event_controller(w, source, target) == E(w, IF source # 0 THEN source ELSE target).ctl

\* apply_damage_batch / apply_healing_batch inside a sequence.
push_batch(w, dir, requests) ==
    push_resolution_op(w, [op |-> "ProcessBatch", dir |-> dir, requests |-> requests])

\* order_health_change_requests (OrderOfPlay)
in_order_of_play(w, targets) == ByOrder(w, Range(targets))

\* All requests are processed before any of their actual events resolves.
expand_batch(w, dir, requests) ==
    LET n == Len(requests)
        slot(i) == w.work.nextSlot + i - 1
        w1 == [w EXCEPT !.work.slots = @ @@ [s \in {slot(i) : i \in 1..n} |-> None],
                        !.work.nextSlot = @ + n]
    IN  push_resolution_ops(w1,
            [i \in 1..n |-> [op |-> "ProcessHealth", dir |-> dir, request |-> requests[i],
                             slot |-> slot(i), ordinal |-> i - 1]]
            \o [i \in 1..n |-> [op |-> "ResolveEventSlot", slot |-> slot(i)]])

\* damage_passes_protection
Protected(w, r) ==
    \/ r.n <= 0
    \/ has_keyword(w, r.target, "Immune")
    \/ "DivineShield" \in E(w, r.target).kws

ConsumeShield(w, r) ==
    IF r.n > 0 /\ ~has_keyword(w, r.target, "Immune")
    THEN [w EXCEPT !.ents[r.target].kws = @ \ {"DivineShield"}] ELSE w

\* process_damage / process_healing
process_health(w, op) ==
    LET r == [op.request EXCEPT !.n = Max2(@, 0)]
        stopped == IF op.dir = "Damage" THEN Protected(w, r) ELSE r.n = 0
        ctx == [Context("Proposed" \o op.dir, r.source, <<r.target>>,
                        event_controller(w, r.source, r.target))
                  EXCEPT !.proposed = r.n, !.ordinal = op.ordinal]
    IN  IF stopped THEN IF op.dir = "Damage" THEN ConsumeShield(w, r) ELSE w
        ELSE push_resolution_ops(prepare_event(w, ctx),
               <<[op |-> "ResolveEvent", ev |-> w.work.nextEvent],
                 [op |-> "ApplyHealth", dir |-> op.dir, request |-> r, ev |-> w.work.nextEvent,
                  slot |-> op.slot, ordinal |-> op.ordinal]>>)

\* reduce_damage: armor absorbs first.
reduce_damage(w, id, n) ==
    LET absorbed == IF E(w, id).armor < n THEN E(w, id).armor ELSE n
    IN  [w EXCEPT !.ents[id].armor = @ - absorbed, !.ents[id].dmg = @ + (n - absorbed)]

\* reduce_healing: never below no damage.
healed(w, id, n) == IF E(w, id).dmg < n THEN E(w, id).dmg ELSE n

\* apply_prepared_damage / apply_prepared_healing: the proposed value as the
\* triggers left it; an actual change fills the slot with its event.
apply_prepared(w, op) ==
    IF op.ev \notin DOMAIN w.work.events THEN Fail(w, "MissingEvent")
    ELSE
    LET n  == Max2(w.work.events[op.ev].ctx.proposed, 0)
        r  == op.request
        w1 == take_prepared_event(w, op.ev)
        actual == IF op.dir = "Damage" THEN n ELSE healed(w1, r.target, n)
        w2 == IF op.dir = "Damage" THEN reduce_damage(w1, r.target, n)
              ELSE [w1 EXCEPT !.ents[r.target].dmg = @ - actual]
        ctx == [Context(op.dir, r.source, <<r.target>>, event_controller(w2, r.source, r.target))
                  EXCEPT !.proposed = n, !.actual = actual, !.ordinal = op.ordinal]
        w3 == prepare_event(w2, ctx)
    IN  IF actual <= 0 THEN w2
        ELSE IF op.slot \notin DOMAIN w.work.slots THEN Fail(w3, "MissingEventSlot")
        ELSE [w3 EXCEPT !.work.slots[op.slot] = w2.work.nextEvent]

\* ResolveEventSlot: an empty slot had nothing happen.
resolve_event_slot(w, slot) ==
    LET ev == w.work.slots[slot]
        w1 == [w EXCEPT !.work.slots = Without(@, slot)]
    IN  IF slot \notin DOMAIN w.work.slots THEN Fail(w, "MissingEventSlot")
        ELSE IF ev = None THEN w1
        ELSE push_resolution_op(w1, [op |-> "ResolveEvent", ev |-> ev])

----------------------------------------------------------------------------
(* Draws.                                                                  *)

fill_draw_result_slot(w, slot, o, id) ==
    IF slot \notin DOMAIN w.work.draws THEN Fail(w, "MissingDrawResultSlot")
    ELSE IF w.work.draws[slot].o # "empty" THEN Fail(w, "DrawResultSlotAlreadyFilled")
    ELSE [w EXCEPT !.work.draws[slot] = [o |-> o, id |-> id]]

Fatigue(w, p) ==
    IF hero_id(w, p) = 0 THEN Fail(w, "PlayerNotFound")
    ELSE push_batch(w, "Damage", <<[source |-> 0, target |-> hero_id(w, p),
                                    n |-> w.players[p].fatigue]>>)

\* How a draw ends, given the result of the card's move to the hand.
DrawnOrBurned(m, op, card) ==
    IF m.out # "Moved" THEN fill_draw_result_slot(m.w, op.slot, "Burned", card)
    ELSE Then(fill_draw_result_slot(m.w, op.slot, "Drawn", card),
              LAMBDA v : RaiseEvent(v, Context("CardDrawn", op.source, <<card>>, op.player)))

\* Draw the top card into the hand, burn it when the hand is full, or count
\* fatigue; a drawn card raises its event, fatigue its damage.
process_draw(w, op) ==
    LET p    == op.player
        deck == InZone(w, p, "Deck")
    IN  IF deck = <<>>
        THEN Then(fill_draw_result_slot([w EXCEPT !.players[p].fatigue = @ + 1], op.slot, "Fatigue", 0),
                  LAMBDA v : Fatigue(v, p))
        ELSE DrawnOrBurned(move_entity_with_request(w, deck[1], p, "Hand", None, "Draw"),
                           op, deck[1])

\* take_draw_result (FinishDraw)
take_draw_result(w, slot) ==
    IF slot \notin DOMAIN w.work.draws THEN Fail(w, "MissingDrawResultSlot")
    ELSE IF w.work.draws[slot].o = "empty"
    THEN Fail([w EXCEPT !.work.draws = Without(@, slot)], "EmptyDrawResultSlot")
    ELSE [w EXCEPT !.work.draws = Without(@, slot)]

\* ContinueDraw: the effects after a draw see the card that was drawn.
continue_draw(w, op) ==
    LET r == w.work.draws[op.slot]
    IN  Then(take_draw_result(w, op.slot),
             LAMBDA v : IF r.o = "Drawn"
                        THEN push_effects(v, [op.ctx EXCEPT !.drawn = r.id], op.effects, None)
                        ELSE IF op.policy = "RunWithoutCard"
                        THEN push_effects(v, [op.ctx EXCEPT !.drawn = 0], op.effects, None)
                        ELSE v)

\* choose_game_entity: the generator's next number picks among the sorted
\* candidates; w.pick stands for that number.
choose_game_entity(w, S) ==
    LET c == SortedIds(S) IN IF S = {} THEN 0 ELSE c[(w.pick % Len(c)) + 1]
=============================================================================
