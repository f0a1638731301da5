---------------------------- MODULE Hearthstone ----------------------------
(***************************************************************************)
(* hearthstone_simulator: a game driven through Simulation's public calls. *)
(* apply and choose run until the next pause; here every operation the     *)
(* driver pops is a step of its own, so the properties also see the worlds *)
(* in between.  Rejected calls change nothing and are left out.            *)
(***************************************************************************)
EXTENDS HsCheckpoint

CONSTANTS
    Games,          \* the fixtures: per player a hero power, a deck and a hand
    MaxActions      \* bound on the actions of one game

VARIABLES
    w,              \* the World
    actions,        \* how many actions were accepted
    last            \* how the last sequence ended: "none", "ok" or its error

vars == <<w, actions, last>>

\* Simulation::with_seed_and_dominant_player
Init ==
    /\ \E g \in Games : w = [setup_game(g) EXCEPT !.game.status = "AwaitingAction",
                                                  !.dominant = g.dominant]
    /\ actions = 0 /\ last = "none"

\* submit_action: process_next_action up to the driver
Submit ==
    /\ actions < MaxActions
    /\ \E a \in legal_actions(w) : \E v \in {apply_action(w, a)} :
         w' = [v EXCEPT !.err = ""] /\ last' = IF v.err = "" THEN "none" ELSE v.err
    /\ actions' = actions + 1

\* The generator's next number matters only to a random selector.
Picks ==
    LET x == Last(w.work.stack).op
    IN  IF x.op = "RunEffect" /\ "targets" \in DOMAIN x.effect /\ x.effect.targets.random
        THEN 0..(Cardinality(Ids(w)) - 1) ELSE {0}

Driving == w.game.status = "Resolving" /\ w.work.active

\* resolve_to_pause: a failure takes the error path at once.
Continue(v, done) ==
    /\ w' = [(IF v.err = "" THEN v ELSE abandon(v)) EXCEPT !.pick = 0]
    /\ last' = IF v.err = "" THEN done ELSE v.err

\* One operation of drive_resolution.
Resolve ==
    /\ Driving /\ w.work.stack # <<>>
    /\ \E n \in Picks : \E v \in {drive_one([w EXCEPT !.pick = n])} : Continue(v, last)
    /\ UNCHANGED actions

Finish ==
    /\ Driving /\ w.work.stack = <<>>
    /\ \E v \in {finish_resolution_if_idle(w)} : Continue(v, "ok")
    /\ UNCHANGED actions

\* submit_choice with an option of the pending request
Choose ==
    /\ w.game.status = "AwaitingChoice"
    /\ \E i \in DOMAIN w.work.choice[1].options : w' = answer_choice(w, i)
    /\ UNCHANGED <<actions, last>>

Next == Submit \/ Resolve \/ Finish \/ Choose

\* A call runs its driver loop to the next pause without being asked again.
\* This is WF_vars(Resolve \/ Finish) with its ENABLED written out: those two
\* actions are enabled when Driving holds, and no other one is then.
DriverRuns == []<>~Driving \/ []<><<Driving>>_vars
Spec == Init /\ [][Next]_vars /\ DriverRuns

----------------------------------------------------------------------------
(* Properties.                                                             *)

Paused == w.game.status \in {"AwaitingAction", "AwaitingChoice", "Complete"}

\* The world with each retained copy carrying the policy its dispatch will use.
WithLivePolicies(v) ==
    LET Refreshed(x) == IF x.op.op = "CopyEntity" THEN [x EXCEPT !.op = WithLivePolicy(v, @)] ELSE x
    IN  [v EXCEPT !.work.stack = [i \in DOMAIN @ |-> Refreshed(@[i])]]

\* restore_checkpoint accepts every state a caller can checkpoint, but for one thing:
\* a copy that waits below a choice and whose source has entered or left Play since
\* its policy was captured.  Dispatch would go by the live zone, restoration compares
\* the captured policy with it and refuses (validate_copy_policy).  The operations,
\* events, slots, scopes and payers a suspended sequence retains refer to each other
\* correctly, whatever moved, died, changed sides or was transformed since they were
\* pushed, and every derived cost is current.
CheckpointRestores ==
    Paused => /\ Restorable(WithLivePolicies(w))
              /\ Restorable(w) <=> WithLivePolicies(w) = w

\* Every entity is in its zone's index exactly once, and no path of moving,
\* summoning, copying or drawing exceeds a zone's capacity.  (The simulator's
\* own check only looks from the index to the entities.)
ZonesConsistent ==
    /\ IndexNamesItsEntities(w)
    /\ \A id \in Ids(w) : LET s == w.ix[E(w, id).ctl][E(w, id).zone]
                          IN  Cardinality({i \in DOMAIN s : s[i] = id}) = 1
    /\ \A p \in PlayerId :
         /\ Len(board_entities(w, p)) <= BoardLimit
         /\ \A z \in DOMAIN zone_limit : Len(InZone(w, p, z)) <= zone_limit[z]

\* A sequence leaves nothing for the next one.  After a failure as after a
\* success its work tables are empty and no replacement scope is open, so the
\* next action can begin (begin_sequence, whose error would leave the status
\* Resolving), and valid cards fail only by exhausting the budget.  After a
\* success no mortally wounded card is in play, a mortally wounded hero has
\* decided the game, no death waits for its triggers, and every aura cache is
\* what a refresh would compute (resolver.rs, simulation_event_resolver.rs).
NothingLeftOver ==
    /\ last \in {"none", "ok", "BudgetExhausted"}
    /\ w.game.status \in {"AwaitingAction", "Complete"} =>
         ~w.work.active /\ IdleWork(w.work) /\ w.equip.pending = <<>>
    /\ (last = "ok" /\ w.game.status \in {"AwaitingAction", "Complete"}) =>
        /\ \A id \in Ids(w) : (InPlay(w, id) /\ is_mortally_wounded(w, id)) =>
             /\ E(w, id).kind \notin Mortal
             /\ E(w, id).kind = "Hero" => w.game.outcome # "none"
        /\ w.pendingDeaths = <<>>
        /\ refresh_all_auras(w) = w

\* Every accepted action reaches a pause: the budget bounds what triggers can
\* set off, and a failure does not leave the simulation resolving.
ResolutionEnds == (w.game.status = "Resolving") ~> Paused

\* A Divine Shield that absorbed damage is gone until the card is reset,
\* replaced or granted another one.
SpentShieldStaysSpent ==
    [][\A id \in Ids(w) :
         ("DivineShield" \notin E(w, id).kws /\ "DivineShield" \in E(w', id).kws) =>
            \/ E(w', id).zone # E(w, id).zone \/ E(w', id).card # E(w, id).card
            \/ \E a \in Ids(w') \ Ids(w) : /\ E(w', a).mod.m = "Keyword"
                                           /\ E(w', a).mod.kw = "DivineShield"]_vars
=============================================================================
