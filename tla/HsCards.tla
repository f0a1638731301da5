------------------------------ MODULE HsCards ------------------------------
(***************************************************************************)
(* hearthstone_simulator: how cards are written down.  The records here    *)
(* are the model's form of Effect, Selector, TriggerDefinition, the        *)
(* modifiers and the Card builders of the crate's core.                    *)
(***************************************************************************)
EXTENDS HsWorld

Sel(s) == [s |-> s, random |-> FALSE]
Group(who, kinds) == [s |-> "Group", random |-> FALSE, who |-> who, kinds |-> kinds]
Random(who, kinds) == [Group(who, kinds) EXCEPT !.random = TRUE]
Const(n) == [v |-> "Constant", n |-> n]

Deal(targets, n) == [e |-> "Health", dir |-> "Damage", targets |-> targets, amount |-> Const(n)]
Heal(targets, n) == [e |-> "Health", dir |-> "Healing", targets |-> targets, amount |-> Const(n)]
Draw(p, n) == [e |-> "Draw", player |-> p, count |-> n]
Summon(card) == [e |-> "Summon", player |-> "Controller", card |-> card, index |-> None]
CopyOf(targets) == [e |-> "Copy", targets |-> targets, player |-> "Controller", zone |-> "Play",
                    index |-> None]
Move(targets, p, z) == [e |-> "Move", targets |-> targets, player |-> p, zone |-> z,
                        kind |-> "Normal"]
Turn(k, p) == [k |-> k, p |-> p]
AttachKw(targets, kw, until) ==
    [e |-> "Attach", targets |-> targets, triggers |-> <<>>, continuous |-> <<>>, until |-> until,
     mod |-> [m |-> "Keyword", rem |-> TRUE, kw |-> kw, granted |-> TRUE]]
AttachStat(targets, a, h, until) ==
    [e |-> "Attach", targets |-> targets, triggers |-> <<>>, continuous |-> <<>>, until |-> until,
     mod |-> [m |-> "Stat", rem |-> TRUE, atk |-> a, hp |-> h]]
AttachCost(targets, n) ==
    [e |-> "Attach", targets |-> targets, triggers |-> <<>>, continuous |-> <<>>, until |-> Permanent,
     mod |-> [m |-> "Cost", rem |-> FALSE, f |-> "Add", n |-> n]]
Option(id, effects) == [id |-> id, effects |-> effects]
Choice(options) == [e |-> "Choose", player |-> "Controller", options |-> options]

On(event, c, program) ==
    [event |-> event, zones |-> {"Play"}, conds |-> <<[t |-> "QueueTime", c |-> c]>>,
     policy |-> "MustRemainInEligibleZone", priority |-> 0, program |-> program]
Deathrattle(program) ==
    [On("Death", "EventTargetsSelf", program) EXCEPT !.policy = "CaptureAtQueueTime"]

Aura(who, kinds, cat, n) == [who |-> who, kinds |-> kinds, cat |-> cat, m |-> cat, n |-> n]

\* HeroReplacement; maximum and current are used when set is TRUE.
Replacement(hero, power, armor, weapon) ==
    [hero |-> hero, power |-> power, armor |-> armor, set |-> FALSE, maximum |-> 0, current |-> 0,
     hasWeapon |-> TRUE, weapon |-> weapon]

Minion(def, a, h) == [BlankCard("Minion") EXCEPT !.def = def, !.attack = a, !.health = h]
Spell(def, effects) == [BlankCard("Spell") EXCEPT !.def = def, !.effects = effects]
Weapon(def, a, d) == [BlankCard("Weapon") EXCEPT !.def = def, !.attack = a, !.durability = d]
Targeted(card, kind) ==
    [card EXCEPT !.targeting = [req |-> "Required", filter |-> [audience |-> "Either", kind |-> kind]]]

\* PlayerConfig
Side(power, deck, hand) == [power |-> power, deck |-> deck, hand |-> hand]
=============================================================================
