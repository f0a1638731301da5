------------------------------ MODULE HsWorld ------------------------------
(***************************************************************************)
(* hearthstone_simulator: the game world and the operations that keep its  *)
(* tables consistent: zones and their index, weapons, deaths, attached     *)
(* enchantments, auras, players and the spawning of cards.                 *)
(*                                                                         *)
(* The simulator is one ECS World that every function takes by &mut; here  *)
(* a world is a record, and such a function is an operator from a world to *)
(* a world.  An entity is the record of its components and its id is its   *)
(* index in w.ents (ids are allocated by a counter and a game entity is    *)
(* never despawned).  0 stands for a missing id and -1 for a missing       *)
(* position.  A function that returns Err leaves its reason in w.err and   *)
(* the mutations made before it in place, as `?` does.  Display names,     *)
(* hero classes and the canonical trace are left out: nothing reads them.  *)
(***************************************************************************)
EXTENDS Integers, Sequences, FiniteSets, SequencesExt, TLC

CONSTANTS
    BoardLimit, HandLimit, DeckLimit, SecretLimit,  \* Ruleset limits
    MaximumMana, Budget, StartingHealth             \* other Ruleset numbers

PlayerId == {"One", "Two"}
opponent(p) == IF p = "One" THEN "Two" ELSE "One"

Zone == {"Deck", "Hand", "Play", "Secret", "Graveyard", "SetAside", "RemovedFromGame"}
Board == {"Minion", "Location", "Permanent", "Dormant"}     \* is_board_entity
None == -1
Max2(a, b) == IF a >= b THEN a ELSE b

\* The error plumbing of `?`: the first error stops what follows it.
Fail(w, why) == IF w.err = "" THEN [w EXCEPT !.err = why] ELSE w
Then(w, F(_)) == IF w.err = "" THEN F(w) ELSE w

E(w, id) == w.ents[id]
Ids(w) == DOMAIN w.ents
exists(w, id) == id \in Ids(w)
Put(w, id, f, v) == [w EXCEPT !.ents[id][f] = v]
InZone(w, p, z) == w.ix[p][z]
InPlay(w, id) == E(w, id).zone = "Play"
HasStats(e) == e.kind \notin {"Player", "Enchantment"}
LexLess(a, b) == \E i \in DOMAIN a : a[i] < b[i] /\ \A j \in 1..(i - 1) : a[j] = b[j]

\* The elements of S in increasing order, for a total order on S.
Sorted(S, Less(_, _)) ==
    [i \in 1..Cardinality(S) |-> CHOOSE x \in S : Cardinality({y \in S : Less(y, x)}) = i - 1]

ByOrder(w, S) == Sorted(S, LAMBDA a, b : LexLess(<<E(w, a).po, a>>, <<E(w, b).po, b>>))

----------------------------------------------------------------------------
(* Enchantments: what an entity's attachments make of its base values.     *)

Attached(w, id) == ByOrder(w, {a \in Ids(w) : E(w, a).att = id})

Applies(w, id, a) == ~(E(w, id).silenced /\ E(w, a).mod.rem)

recalculate_keywords(w, id) ==
    LET e == E(w, id)
        Step(ks, a) ==
            IF E(w, a).mod.m # "Keyword" \/ ~Applies(w, id, a) THEN ks
            ELSE IF E(w, a).mod.granted THEN ks \cup {E(w, a).mod.kw}
            ELSE ks \ {E(w, a).mod.kw}
    IN  Put(w, id, "kws", FoldLeft(Step, IF e.silenced THEN {} ELSE e.card.keywords,
                                   Attached(w, id)))

\* CostModifier::apply, folded in order of attachment.
recalculate_cost(w, id) ==
    LET Step(c, a) ==
            LET m == E(w, a).mod IN
            IF m.m # "Cost" \/ ~Applies(w, id, a) THEN c
            ELSE CASE m.f = "Set" -> m.n [] m.f = "Add" -> c + m.n [] OTHER -> c * m.n
    IN  IF E(w, id).kind = "Enchantment" THEN w
        ELSE Put(w, id, "cost", FoldLeft(Step, E(w, id).card.cost, Attached(w, id)))

\* A base value, the stat modifiers in order of attachment, then the auras.
Total(base, w, mods, f, apps) ==
    FoldLeft(LAMBDA n, x : n + x.n, FoldLeft(LAMBDA n, a : n + E(w, a).mod[f], base, mods), apps)

\* Losing maximum health keeps the current health; gaining it adds health.
WithStats(e, atk, mhp) ==
    [e EXCEPT !.atk = atk, !.mhp = mhp,
              !.dmg = IF mhp < e.mhp THEN Max2(mhp - (e.mhp - e.dmg), 0) ELSE e.dmg]

StatsFrom(w, e, mods) ==
    WithStats(e, Total(e.card.attack, w, mods, "atk", e.aA),
                 Max2(Total(e.card.health, w, mods, "hp", e.hA), 0))

recalculate_stats(w, id) ==
    IF ~HasStats(E(w, id)) THEN w
    ELSE [w EXCEPT !.ents[id] =
            StatsFrom(w, E(w, id), SelectSeq(Attached(w, id), LAMBDA a : E(w, a).mod.m = "Stat"))]

----------------------------------------------------------------------------
(* Zones.                                                                  *)

board_entities(w, p) == SelectSeq(InZone(w, p, "Play"), LAMBDA id : E(w, id).kind \in Board)
board_is_full(w, p) == Len(board_entities(w, p)) >= BoardLimit

OfKind(w, p, z, k) == SelectSeq(InZone(w, p, z), LAMBDA id : E(w, id).kind = k)

zone_limit == [Deck |-> DeckLimit, Hand |-> HandLimit, Secret |-> SecretLimit]

\* Mutant: generated cards do not look at the board's limit.
generated_ignores_board(w, p, z, kind, def) ==
    \/ z \in DOMAIN zone_limit /\ Len(InZone(w, p, z)) >= zone_limit[z]
    \/ z = "Play" /\ kind \in {"Hero", "Weapon", "HeroPower"} /\ OfKind(w, p, z, kind) # <<>>

generated_destination_is_full(w, p, z, kind, def) ==
    \/ z \in DOMAIN zone_limit /\ Len(InZone(w, p, z)) >= zone_limit[z]
    \/ z = "Play" /\ kind \in Board /\ board_is_full(w, p)
    \/ z = "Play" /\ kind \in {"Hero", "Weapon", "HeroPower"} /\ OfKind(w, p, z, kind) # <<>>
    \/ z = "Secret" /\ kind = "Quest" /\ OfKind(w, p, z, kind) # <<>>
    \/ /\ z = "Secret" /\ kind \in {"Secret", "Sidequest"}
       /\ \E i \in DOMAIN InZone(w, p, z) : E(w, InZone(w, p, z)[i]).card.def = def

\* A weapon that is being equipped, replaced or is active shares its slot.
destination_is_full(w, id, p, z) ==
    LET e == E(w, id)
        shares == /\ z = "Play" /\ e.ctl = p /\ e.kind = "Weapon"
                  /\ \/ id \in DOMAIN w.equip.pending
                     \/ \E n \in DOMAIN w.equip.pending : w.equip.pending[n] = id
                     \/ w.equip.active[p] = id
    IN  ~shares /\ generated_destination_is_full(w, p, z, e.kind, e.card.def)

IndexOf(s, x) == CHOOSE i \in 0..(Len(s) - 1) : s[i + 1] = x

semantic_zone_position(w, id) ==
    LET e == E(w, id)
    IN  IF e.zone = "Play" /\ e.kind \in Board
        THEN IndexOf(board_entities(w, e.ctl), id)
        ELSE IndexOf(InZone(w, e.ctl, e.zone), id)

\* The index in Play of the board_position-th board entity (0-based), or the
\* place after the last one.
board_position_to_zone_position(w, p, n) ==
    LET b == board_entities(w, p)
        s == InZone(w, p, "Play")
    IN  IF n < Len(b) THEN IndexOf(s, b[n + 1])
        ELSE IF b = <<>> THEN Len(s) ELSE IndexOf(s, b[Len(b)]) + 1

insert_into_zone(w, id, p, z, pos) ==
    LET s == InZone(w, p, z)
        i == IF pos = None THEN Len(s) ELSE pos
    IN  [w EXCEPT !.ix[p][z] = InsertAt(s, i + 1, id),
                  !.ents[id].ctl = p, !.ents[id].zone = z]

remove_from_index(w, id) ==
    LET e == E(w, id)
    IN  [w EXCEPT !.ix[e.ctl][e.zone] = SelectSeq(@, LAMBDA x : x # id)]

Relocate(w, id, p, z, pos) == insert_into_zone(remove_from_index(w, id), id, p, z, pos)

\* Ruleset::resets_runtime_state: a death, or a step back towards the deck.
zone_rank == [Deck |-> 0, Hand |-> 1, Play |-> 2, Graveyard |-> 3]
resets_runtime_state(kind, from, to) ==
    \/ kind = "Death"
    \/ {from, to} \subseteq DOMAIN zone_rank /\ zone_rank[to] < zone_rank[from]

\* Mutant: a detached enchantment keeps its target.
detach_keeps_target(w0, as) ==
    FoldLeft(LAMBDA w, a : Relocate(w, a, E(w, a).ctl, "RemovedFromGame", None), w0, as)

\* Attachments go to RemovedFromGame; their own move changes nothing else.
Detach(w0, as) ==
    FoldLeft(LAMBDA w, a : Put(Relocate(w, a, E(w, a).ctl, "RemovedFromGame", None), a, "att", 0),
             w0, as)

Recalculated(w, id) == recalculate_cost(recalculate_keywords(recalculate_stats(w, id), id), id)

\* Every component goes back to its base value.
BaseComponents(w, id) ==
    [w EXCEPT !.ents[id] =
        [@ EXCEPT !.dur = E(w, id).card.durability, !.doomed = FALSE, !.silenced = FALSE,
                  !.dmg = 0, !.kws = E(w, id).card.keywords, !.hA = <<>>, !.aA = <<>>,
                  !.oA = <<>>, !.atk = E(w, id).card.attack, !.mhp = E(w, id).card.health,
                  !.attacks = 0, !.blocked = TRUE, !.armor = 0]]

\* No code of the engine sets KeepEnchantments, which would spare the attachments.
reset_runtime_state(w, id) ==
    Recalculated(BaseComponents(Detach(w, Attached(w, id)), id), id)

----------------------------------------------------------------------------
(* Weapons.                                                                *)

\* active
active_weapon(w, p) ==
    LET id == w.equip.active[p]
    IN  IF id # 0 /\ InPlay(w, id) /\ E(w, id).kind = "Weapon" /\ E(w, id).ctl = p THEN id ELSE 0

\* The weapon a hero swings, on its controller's turn only.
attack_weapon(w, id) ==
    IF E(w, id).kind = "Hero" /\ w.game.active = E(w, id).ctl
    THEN active_weapon(w, E(w, id).ctl) ELSE 0

effective_attack(w, id) ==
    LET wp == attack_weapon(w, id) IN E(w, id).atk + IF wp = 0 THEN 0 ELSE E(w, wp).atk

Replaced(w, id) == \E n \in DOMAIN w.equip.pending : w.equip.pending[n] = id

\* Entering Play fills an empty slot; leaving Play (or its side) empties it.
track_entry(w, id) ==
    LET e  == E(w, id)
        in == e.zone = "Play" /\ e.kind = "Weapon"
        kept == [p \in PlayerId |->
                   IF w.equip.active[p] = id /\ ~(in /\ p = e.ctl) THEN 0 ELSE w.equip.active[p]]
    IN  [w EXCEPT !.equip.active =
            IF in /\ ~Replaced(w, id) /\ kept[e.ctl] = 0
            THEN [kept EXCEPT ![e.ctl] = id] ELSE kept]

\* The parts of a move's state policy, in the order they happen.
StampEntry(w, id, from, to) ==
    IF to = "Play" /\ from # "Play"
    THEN [w EXCEPT !.ents[id].po = w.nextOrder, !.nextOrder = @ + 1] ELSE w

clear_post_death_auras(w, id, from, to) ==
    IF from = "Play" /\ to # "Play"
    THEN recalculate_stats([w EXCEPT !.ents[id].aA = <<>>, !.ents[id].oA = <<>>], id) ELSE w

ResetOnMove(w, id, kind, from, to) ==
    IF resets_runtime_state(kind, from, to) THEN reset_runtime_state(w, id)
    ELSE IF from = "Hand" /\ to = "Play" THEN Put(w, id, "doomed", FALSE) ELSE w

ChangeOfSide(w, id, from, to) ==
    IF from = "Play" /\ to = "Play" THEN Put(w, id, "blocked", TRUE) ELSE w

apply_movement_state_policy(w, id, kind, from, to) ==
    ChangeOfSide(
      ResetOnMove(
        clear_post_death_auras(track_entry(StampEntry(w, id, from, to), id), id, from, to),
        id, kind, from, to),
      id, from, to)

----------------------------------------------------------------------------
(* Deaths.                                                                 *)

Mortal == {"Minion", "Location", "Weapon"}

DeathRecord(w, id, ordinal) ==
    [entity |-> id, ctl |-> E(w, id).ctl, kind |-> E(w, id).kind, po |-> E(w, id).po,
     ordinal |-> ordinal, turn |-> w.game.turn]

\* A death recorded as it happens: it waits for the next death boundary.
record_full_zone_death(w, id) ==
    LET r == DeathRecord(w, id, Len(w.pendingDeaths))
    IN  IF r.kind \notin Mortal THEN w
        ELSE [w EXCEPT !.deaths = Append(@, r), !.pendingDeaths = Append(@, r)]

Moved(w, id, p, z, pos, kind) ==
    apply_movement_state_policy(Relocate(w, id, p, z, pos), id, kind, E(w, id).zone, z)

\* Where a move goes whose destination is full: ForcePlay stays, a draw burns,
\* anything else dies or is discarded (move_to_graveyard_after_failed_move).
FullKind(e, kind) ==
    IF kind = "Draw" THEN "Burn" ELSE IF e.zone = "Play" THEN "Death" ELSE "Discard"

\* resolve_destination_position, after the entity left the index (w).
DestinationOf(w, e, p, z, pos, old) ==
    IF z = "Play" /\ e.kind \in Board /\ pos # None THEN board_position_to_zone_position(w, p, pos)
    ELSE IF pos = None THEN old ELSE pos

LegalPosition(w, e, p, z, pos) ==
    IF z = "Play" /\ e.kind \in Board THEN pos = None \/ pos <= Len(board_entities(w, p))
    ELSE pos = None \/ pos <= Len(InZone(w, p, z))

\* The result is the world and how the move ended; a position outside the
\* destination is an error and the entity stays where it was.  A death for
\* want of room is recorded as it happens.
move_entity_with_request(w, id, p, z, pos, kind) ==
    LET e      == E(w, id)
        same   == e.zone = z /\ e.ctl = p
        full   == ~same /\ destination_is_full(w, id, p, z)
        lifted == remove_from_index(w, id)
        old    == IF same THEN IndexOf(InZone(w, p, z), id) ELSE None
        how    == IF full THEN FullKind(e, kind) ELSE kind
        to     == IF full THEN [p |-> e.ctl, z |-> "Graveyard", pos |-> None]
                  ELSE [p |-> p, z |-> z, pos |-> DestinationOf(lifted, e, p, z, pos, old)]
        Recorded(v) == IF full /\ how = "Death" THEN record_full_zone_death(v, id) ELSE v
    IN  IF full /\ kind = "ForcePlay" THEN [w |-> w, out |-> "Prevented"]
        ELSE IF ~full /\ ~LegalPosition(lifted, e, p, z, pos)
        THEN [w |-> Fail(w, "InvalidPosition"), out |-> "Err"]
        ELSE [w |-> Recorded(Moved(w, id, to.p, to.z, to.pos, how)),
              out |-> IF full THEN "Removed" ELSE "Moved"]

move_entity(w, id, z, pos) == move_entity_with_request(w, id, E(w, id).ctl, z, pos, "Normal")

is_mortally_wounded(w, id) ==
    LET e == E(w, id)
    IN  \/ e.doomed
        \/ IF e.kind = "Weapon" THEN e.dur <= 0 ELSE HasStats(e) /\ e.dmg >= e.mhp

\* Every mortally wounded entity in Play dies at once: heroes are defeated for
\* good, the mortal kinds move to the graveyard in order of play.
create_deaths(w0) ==
    LET wounded == {id \in Ids(w0) : InPlay(w0, id) /\ is_mortally_wounded(w0, id)}
        heroes  == {id \in wounded : E(w0, id).kind = "Hero"}
        dying   == ByOrder(w0, {id \in wounded : E(w0, id).kind \in Mortal})
        records == [i \in DOMAIN dying |-> DeathRecord(w0, dying[i], i - 1)]
        buried  == FoldLeft(LAMBDA w, id :
                              Put(move_entity_with_request(w, id, E(w, id).ctl, "Graveyard",
                                                           None, "Death").w, id, "doomed", FALSE),
                            [w0 EXCEPT !.defeated = @ \cup {E(w0, id).ctl : id \in heroes}],
                            dying)
    IN  [buried EXCEPT !.deaths = @ \o records, !.pendingDeaths = @ \o records]

\* What take_pending_deaths hands out: order of play, renumbered.
PendingInOrder(w) ==
    LET S == Range(w.pendingDeaths)
        s == Sorted(S, LAMBDA a, b : LexLess(<<a.po, a.entity>>, <<b.po, b.entity>>))
    IN  [i \in DOMAIN s |-> [s[i] EXCEPT !.ordinal = i - 1]]

----------------------------------------------------------------------------
(* Weapon replacement.  The old weapon stays in Play, superseded, until    *)
(* FinishEquip retires it.                                                 *)

\* How begin_equip ends, given the result of the move into Play.
Equipped(w, m, p, id) ==
    IF m.out # "Moved"
    THEN Fail([m.w EXCEPT !.equip.pending = w.equip.pending, !.err = ""], "equip move failed")
    ELSE [m.w EXCEPT !.equip.active[p] = id, !.ents[id].po = m.w.nextOrder, !.nextOrder = @ + 1]

begin_equip(w, p, id) ==
    LET previous == active_weapon(w, p)
    IN  IF previous = id \/ id \in DOMAIN w.equip.pending
        THEN Fail(w, "weapon already being equipped")
        ELSE Equipped(w, move_entity([w EXCEPT !.equip.pending = @ @@ (id :> previous)],
                                     id, "Play", None), p, id)

\* retire_weapon: buried like any death; the caller decides on the record.
retire_weapon(w, id) ==
    move_entity_with_request(w, id, E(w, id).ctl, "Graveyard", None, "Death").w

Without(f, x) == [y \in DOMAIN f \ {x} |-> f[y]]

finish_equip(w, id) ==
    LET previous == w.equip.pending[id]
        w1 == [w EXCEPT !.equip.pending = Without(@, id)]
    IN  IF id \notin DOMAIN w.equip.pending THEN Fail(w, "missing weapon replacement scope")
        ELSE IF previous # 0 /\ InPlay(w1, previous) /\ E(w1, previous).kind = "Weapon"
        THEN record_full_zone_death(retire_weapon(w1, previous), previous)
        ELSE w1

\* Only the weapon that is still active pays for the attack.
consume_durability(w, p, id) ==
    IF active_weapon(w, p) = id THEN [w EXCEPT !.ents[id].dur = Max2(@ - 1, 0)] ELSE w

\* A failed sequence releases its replacement scopes; superseded weapons are
\* retired and no death is recorded for them.
abandon_equips(w0) ==
    LET olds == {w0.equip.pending[n] : n \in DOMAIN w0.equip.pending} \ {0}
        w1   == [w0 EXCEPT !.equip.pending = <<>>]
        Retire(w, id) ==
            IF InPlay(w, id) /\ E(w, id).kind = "Weapon" /\ id \notin Range(w.equip.active)
            THEN retire_weapon(w, id) ELSE w
    IN  FoldLeft(Retire, w1, ByOrder(w0, olds))

----------------------------------------------------------------------------
(* Auras.  A cache holds the applications a target received at the last    *)
(* refresh, in the providers' order of play.                               *)

aura_matches(sel, w, provider, target) ==
    LET friendly == E(w, provider).ctl = E(w, target).ctl
        k        == E(w, target).kind
        audience == [Friendly |-> friendly, OtherFriendly |-> friendly /\ provider # target,
                     Enemy |-> ~friendly, All |-> TRUE]
        kinds    == [Minions |-> {"Minion"}, Characters |-> {"Hero", "Minion"},
                     Player |-> {"Player"}]
    IN  audience[sel.who] /\ k \in kinds[sel.kinds]

AuraTargets(w) == {id \in Ids(w) : \/ E(w, id).kind = "Player"
                                   \/ InPlay(w, id) /\ HasStats(E(w, id))}

AuraProviders(w) == ByOrder(w, {id \in Ids(w) : InPlay(w, id) /\ ~E(w, id).silenced})

\* discover_aura_applications, for one category and one target.
Discovered(w, providers, cat, target) ==
    LET From(id) ==
            LET as == SelectSeq(E(w, id).card.auras,
                                LAMBDA a : a.cat = cat /\ aura_matches(a, w, id, target))
            IN  [i \in DOMAIN as |-> [provider |-> id, m |-> as[i].m, n |-> as[i].n]]
    IN  FoldLeft(LAMBDA acc, id : acc \o From(id), <<>>, providers)

CacheOf == [Health |-> "hA", Attack |-> "aA", Other |-> "oA"]

set_cache(w, cat, id, apps) ==
    IF E(w, id)[CacheOf[cat]] = apps THEN w
    ELSE IF cat = "Other" THEN Put(w, id, "oA", apps)
    ELSE recalculate_stats(Put(w, id, CacheOf[cat], apps), id)

SortedIds(S) == Sorted(S, LAMBDA a, b : a < b)

replace_category(w0, w, cat) ==
    LET ps == AuraProviders(w0)
        ts == AuraTargets(w0)
    IN  FoldLeft(LAMBDA v, id :
                   set_cache(v, cat, id, IF id \in ts THEN Discovered(w0, ps, cat, id) ELSE <<>>),
                 w, SortedIds(Ids(w0)))

refresh_health_attack_auras(w) == replace_category(w, replace_category(w, w, "Health"), "Attack")

\* Health is not refreshed after Death Creation.
refresh_post_death_auras(w) == replace_category(w, replace_category(w, w, "Attack"), "Other")

refresh_all_auras(w) ==
    replace_category(w, replace_category(w, replace_category(w, w, "Health"), "Attack"), "Other")

\* merge_provider_category for the three categories: only one provider's
\* applications are refreshed, appended after those of the others.
refresh_played_provider(w0, provider) ==
    LET ps == IF InPlay(w0, provider) /\ ~E(w0, provider).silenced THEN <<provider>> ELSE <<>>
        Merge(w, cat, id) ==
            set_cache(w, cat, id,
                SelectSeq(E(w, id)[CacheOf[cat]], LAMBDA a : a.provider # provider)
                \o IF id \in AuraTargets(w0) THEN Discovered(w0, ps, cat, id) ELSE <<>>)
        All(w, cat) == FoldLeft(LAMBDA v, id : Merge(v, cat, id), w, SortedIds(Ids(w0)))
    IN  All(All(All(w0, "Health"), "Attack"), "Other")

\* A continuous effect counts while its source is in Play, unsilenced, and
\* what it is attached to is in Play too.
current_spell_damage(w, p) ==
    LET live == {id \in Ids(w) : /\ InPlay(w, id) /\ ~E(w, id).silenced
                                 /\ E(w, id).att # 0 => InPlay(w, E(w, id).att)}
        For(c, who) == CASE who = "Controller" -> p = c
                         [] who = "Opponent" -> p = opponent(c) [] OTHER -> TRUE
        Of(id) == FoldLeft(LAMBDA n, d : n + IF For(E(w, id).ctl, d.who) THEN d.n ELSE 0,
                           0, E(w, id).card.continuous)
    IN  FoldLeft(LAMBDA n, id : n + Of(id), 0, ByOrder(w, live))

has_keyword(w, id, k) ==
    \/ k \in E(w, id).kws
    \/ k = "Immune" /\ \E i \in DOMAIN E(w, id).oA : E(w, id).oA[i].m = "Immune"

PlayerEntity(w, p) == CHOOSE id \in Ids(w) : E(w, id).kind = "Player" /\ E(w, id).ctl = p

hero_power_damage_bonus(w, p) ==
    FoldLeft(LAMBDA n, a : n + IF a.m = "HeroPowerDamage" THEN a.n ELSE 0,
             0, E(w, PlayerEntity(w, p)).oA)

grants_windfury(w, id) ==
    LET wp == attack_weapon(w, id) IN wp # 0 /\ has_keyword(w, wp, "Windfury")

----------------------------------------------------------------------------
(* Players and spawning.                                                   *)

available_resources(w, p) ==
    LET q == w.players[p] IN q.maximum + q.temporary - q.used - q.locked

hero_id(w, p) == IF OfKind(w, p, "Play", "Hero") = <<>> THEN 0
                 ELSE OfKind(w, p, "Play", "Hero")[1]

check_outcome(w) ==
    IF w.game.outcome # "none" \/ w.defeated = {} THEN w
    ELSE [w EXCEPT !.game.outcome =
            IF w.defeated = PlayerId THEN "draw"
            ELSE opponent(CHOOSE p \in w.defeated : TRUE)]

NoMod == [m |-> "None", rem |-> FALSE]
Permanent == [k |-> "Permanent", p |-> "One"]       \* EnchantmentDuration

\* The components spawn_validated_card gives a fresh card.
FreshEntity(card, p) ==
    [card |-> card, kind |-> card.kind, ctl |-> p, zone |-> "SetAside", po |-> 0,
     atk |-> card.attack, mhp |-> card.health,
     dmg |-> 0, armor |-> 0, doomed |-> FALSE, silenced |-> FALSE,
     kws |-> card.keywords, cost |-> card.cost, attacks |-> 0, blocked |-> TRUE,
     uses |-> 0, exhausted |-> FALSE, dur |-> card.durability,
     hA |-> <<>>, aA |-> <<>>, oA |-> <<>>,
     att |-> 0, mod |-> NoMod, until |-> Permanent]

NextId(w) == Len(w.ents) + 1

\* Add an entity record under the next id, in its zone.
Spawn(w, e, p, z, pos) ==
    insert_into_zone([w EXCEPT !.ents = Append(@, e)], NextId(w), p, z, pos)

CanSpawn(w, p, card, z) ==
    /\ ~(card.kind = "Weapon" /\ card.durability <= 0)
    /\ ~generated_destination_is_full(w, p, z, card.kind, card.def)

\* spawn_card_at: capacity and position are validated before anything is made.
spawn_card_at(w, p, card, z, n) ==
    LET placed == z = "Play" /\ card.kind \in Board /\ n # None
    IN  IF ~CanSpawn(w, p, card, z) THEN Fail(w, "Full")
        ELSE IF placed /\ n > Len(board_entities(w, p)) THEN Fail(w, "InvalidPosition")
        ELSE track_entry(Spawn(w, FreshEntity(card, p), p, z,
                               IF placed THEN board_position_to_zone_position(w, p, n) ELSE None),
                         NextId(w))

spawn_card(w, p, card, z) == spawn_card_at(w, p, card, z, None)

\* spawn_attached_enchantment; the caller fills in the modifier.
spawn_attached_enchantment(w, p, target, card, mod, until) ==
    Spawn([w EXCEPT !.nextOrder = @ + 1],
          [FreshEntity(card, p) EXCEPT !.po = w.nextOrder, !.att = target,
                                       !.mod = mod, !.until = until],
          p, "Play", None)

BlankCard(kind) ==
    [def |-> "system:" \o kind, kind |-> kind, cost |-> 0, attack |-> 0, health |-> 0,
     durability |-> 0, keywords |-> {}, effects |-> <<>>, triggers |-> <<>>, auras |-> <<>>,
     continuous |-> <<>>, targeting |-> [req |-> "None"]]

spawn_player(w, p, power) ==
    LET hero == [FreshEntity([BlankCard("Hero") EXCEPT !.health = StartingHealth], p)
                   EXCEPT !.blocked = FALSE]
        w1   == Spawn(w, FreshEntity(BlankCard("Player"), p), p, "SetAside", None)
        w2   == Spawn(w1, hero, p, "Play", None)
    IN  spawn_card([w2 EXCEPT !.players[p].maximum = IF p = "One" THEN 1 ELSE 0],
                   p, power, "Play")

EmptyWork ==
    [stack |-> <<>>, budget |-> 0, nextRes |-> 0, nextEvent |-> 0, nextSlot |-> 0, nextDraw |-> 0,
     events |-> <<>>, slots |-> <<>>, draws |-> <<>>, scopes |-> <<>>, payers |-> <<>>,
     transformed |-> {}, choice |-> <<>>, active |-> FALSE]

EmptyWorld ==
    [ents |-> <<>>, ix |-> [p \in PlayerId |-> [z \in Zone |-> <<>>]], nextOrder |-> 1,
     players |-> [p \in PlayerId |->
        [maximum |-> 0, used |-> 0, temporary |-> 0, overload |-> 0, locked |-> 0, spent |-> 0,
         fatigue |-> 0]],
     game |-> [active |-> "One", turn |-> 1, outcome |-> "none", status |-> "SettingUp"],
     sched |-> [pending |-> <<>>, series |-> [p \in PlayerId |-> 0],
                after |-> [p \in PlayerId |-> 0], anchor |-> "none", resume |-> "none"],
     dominant |-> "One", equip |-> [active |-> [p \in PlayerId |-> 0], pending |-> <<>>],
     deaths |-> <<>>, pendingDeaths |-> <<>>, defeated |-> {},
     work |-> EmptyWork, pick |-> 0, err |-> ""]

\* setup_game: for each player the player, hero and power, then deck and hand.
setup_game(cfg) ==
    LET Cards(w0, p, z, cs) == FoldLeft(LAMBDA w, c : spawn_card(w, p, c, z), w0, cs)
        Side(w, p) == Cards(Cards(spawn_player(w, p, cfg[p].power), p, "Deck", cfg[p].deck),
                            p, "Hand", cfg[p].hand)
    IN  Side(Side(EmptyWorld, "One"), "Two")
=============================================================================
