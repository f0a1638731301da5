---------------------------- MODULE Interactions ----------------------------
(***************************************************************************)
(* Discord interactions of one guild, from delivery to the edited reply:   *)
(* the Handler of prediction_bot/lib/src/discord.rs with the guided flows  *)
(* of Panels and the decisions of Domain.                                  *)
(*                                                                         *)
(* An interaction is a slash command, a click on a control of a private    *)
(* message, or a submitted form.  Serenity runs one task per delivery, and *)
(* Discord may deliver an interaction again.  A task acknowledges the      *)
(* interaction, makes its content (reading the view or executing a command *)
(* in the store) and edits the reply; each of the three calls may fail,    *)
(* also after it took effect.  The store is the serial one that EventStore *)
(* shows the real one to be.                                               *)
(***************************************************************************)
EXTENDS Panels

CONSTANTS
    Moderators,         \* members with Administrator or Manage Guild
    Openings,           \* the slash command each scenario starts with
    Commands,           \* the slash commands run during each scenario
    Guilds,             \* the guild, and the time, each scenario starts from
    Amounts,            \* stakes a member may enter
    Evidence,           \* what a membership lookup may answer
    Presses,            \* control operations each scenario may press
    MaxInteractions,    \* bound: interactions of each scenario
    MaxTasks,           \* bound: deliveries being handled at once
    MaxTrouble,         \* bound: failures, redeliveries and foreign presses of each
    LastTime            \* bound: the clock stops here

VARIABLES
    scenario,       \* which slash commands this behaviour uses
    guild,          \* the committed state of the economy
    now,            \* the wall clock
    receipts,       \* command key -> the member whose command it recorded
    interactions,   \* every interaction so far, by number
    acknowledged,   \* interactions Discord counts as answered
    tasks,          \* deliveries being handled
    redelivered,    \* interactions Discord has delivered a second time
    messages,       \* private messages, by the interaction that made them
    forms,          \* forms open on members' screens
    trouble,        \* failures, redeliveries and foreign presses so far
    effects         \* history: commands that changed something

\* The slash commands: those that open a panel, and those that write at once.  The
\* others show a text without controls and are left out.
OpensFlow(request) ==
    /\ request[1] = "open"
    /\ request[2] \in {"bet", "resolve", "add", "remove", "assignments", "positions", "list",
                      "create"}
Writes(request) == request[1] = "write"

ASSUME RequestsAssumption ==
    \A s \in DOMAIN Guilds :
        /\ OpensFlow(Openings[s].request)
        /\ \A command \in Commands[s] : OpensFlow(command.request) \/ Writes(command.request)

\* The histories before the run load, and what is entered is a number.
ASSUME GuildsAssumption ==
    \A s \in DOMAIN Guilds : IsState(Guilds[s].state) /\ Guilds[s].now \in Time
ASSUME AmountsAssumption == Amounts \subseteq Nat

store == <<guild, receipts, effects>>
discord == <<interactions, acknowledged, redelivered, messages, forms>>
vars == <<scenario, guild, now, receipts, interactions, acknowledged, tasks,
          redelivered, messages, forms, trouble, effects>>

Interaction == DOMAIN interactions
Controls(owner, panel) == {[owner |-> owner, control |-> c] : c \in panel}

\* What a reply says: a panel, a form, or how a command ended under a key.
Panel(panel) == [says |-> IF panel = Refused THEN "refused" ELSE "panel", key |-> 0,
                 panel |-> IF panel = Refused THEN {} ELSE panel, form |-> << >>]
Says(what, key) == [says |-> what, key |-> key, panel |-> {}, form |-> << >>]
Opens(form) == [says |-> "form", key |-> 0, panel |-> {}, form |-> form]

-----------------------------------------------------------------------------
(* Discord: commands, clicks, forms, redelivery.                           *)

\* The task of a delivery: interaction, which delivery it is, stage and reply.
Task(i, delivery) == [id |-> i, delivery |-> delivery, stage |-> "received",
                      reply |-> Says("nothing", 0)]

\* Something out of the ordinary happens, as often as the bound allows.
Trouble(happens) ==
    /\ trouble' = IF happens THEN trouble + 1 ELSE trouble
    /\ trouble' <= MaxTrouble[scenario]

Arrive(interaction) ==
    /\ Len(interactions) < MaxInteractions[scenario]
    /\ Cardinality(tasks) < MaxTasks
    /\ interactions' = Append(interactions, interaction)
    /\ tasks' = tasks \cup {Task(Len(interactions) + 1, 1)}

FromCommand(command) ==
    [user |-> command.user, kind |-> "command", request |-> command.request,
     owner |-> command.user, message |-> 0, amount |-> 0, at |-> 0]

\* A member runs a slash command; bound: the same one once.
Command(command) ==
    /\ \A i \in Interaction : interactions[i] # FromCommand(command)
    /\ Arrive(FromCommand(command))
    /\ UNCHANGED trouble
    /\ UNCHANGED <<scenario, store, now, acknowledged, redelivered, messages, forms>>

\* A member presses a control of a message, which may be somebody else's.
Press(user, message, pressed) ==
    /\ Arrive([user |-> user, kind |-> "component", request |-> pressed.control,
               owner |-> pressed.owner, message |-> message, amount |-> 0, at |-> 0])
    /\ Trouble(user # pressed.owner)
    /\ UNCHANGED <<scenario, store, now, acknowledged, redelivered, messages, forms>>

\* A member submits the form on their screen.
Submit(form, amount) ==
    /\ Arrive([user |-> form.owner, kind |-> "form", request |-> form.control,
               owner |-> form.owner, message |-> 0, amount |-> amount, at |-> now])
    /\ forms' = forms \ {form}
    /\ UNCHANGED trouble
    /\ UNCHANGED <<scenario, store, now, acknowledged, redelivered, messages>>

\* Discord delivers an interaction again.
Redeliver(i) ==
    /\ i \notin redelivered
    /\ Cardinality(tasks) < MaxTasks
    /\ redelivered' = redelivered \cup {i}
    /\ tasks' = tasks \cup {Task(i, 2)}
    /\ Trouble(TRUE)
    /\ UNCHANGED <<scenario, store, now, interactions, acknowledged, messages, forms>>

Tick ==
    /\ now < LastTime
    /\ now' = now + 1
    /\ UNCHANGED trouble
    /\ UNCHANGED <<scenario, store, discord, tasks>>

-----------------------------------------------------------------------------
(* What a request is: its scope, its actor, its command.                   *)

\* ui::scope and bet::scope: a control works for the member it was made for.
InScope(i) == interactions[i].owner = interactions[i].user

\* The permissions Discord sent count for commands, resolution and resolvers only.
ActorOf(i) ==
    [user |-> interactions[i].user,
     moderator |-> /\ interactions[i].user \in Moderators
                   /\ \/ interactions[i].kind = "command"
                      \/ interactions[i].request[1] \in {"resolve", "add", "remove"},
     bot |-> FALSE]

Asks(i, flow, operation) ==
    interactions[i].request[1] = flow /\ interactions[i].request[2] = operation

\* Selecting an outcome to bet on, a preset, or a listed market is answered by a
\* form or a new message: it must be the first response and is not deferred.
Immediate(i) ==
    /\ interactions[i].kind = "component"
    /\ \/ Asks(i, "bet", "outcome") /\ InScope(i)
       \/ Asks(i, "create", "preset")
       \/ Asks(i, "markets", "list")

IsCommand(i) ==
    \/ interactions[i].request[1] = "write"
    \/ interactions[i].request[2] = "confirm"
    \/ interactions[i].kind = "form" /\ interactions[i].request[1] = "create"

\* Durations of a new market count from the submission, also on redelivery.
CreateCommand(i) ==
    LET preset == interactions[i].request[3]
    IN  [op |-> "Create", options |-> IF preset = 0 THEN 2 ELSE preset,
         id |-> CHOOSE m \in Markets : m \notin DOMAIN guild.markets,
         closes_at |-> interactions[i].at + interactions[i].amount]

CommandOf(i) ==
    LET r == interactions[i].request
    IN  IF r[2] = "join" THEN [op |-> "Join"]
        ELSE IF r[2] = "cancel" THEN [op |-> "Cancel", id |-> r[3]]
        ELSE IF r[1] = "create" THEN CreateCommand(i)
        ELSE IF "bet" \in {r[1], r[2]}
        THEN [op |-> "Bet", id |-> r[3], outcome |-> r[4], amount |-> r[5]]
        ELSE IF "resolve" \in {r[1], r[2]}
        THEN [op |-> "Resolve", id |-> r[3], outcome |-> r[4]]
        ELSE [op |-> IF r[1] = "add" THEN "AddResolver" ELSE "RemoveResolver",
              id |-> r[3], user |-> r[4]]

\* Mutant: each click on a confirmation is a command of its own.
KeyOfClick(i) == i

\* Clicks on one confirmed stake share the key of the submitted form.
KeyOf(i) == IF Asks(i, "bet", "confirm") THEN interactions[i].request[6] ELSE i

\* A new resolver is looked up; a settlement uses the member who pressed.
EvidenceFor(i) ==
    IF interactions[i].request[1] = "add"
    THEN {v \in Evidence : v.user = interactions[i].request[4]}
    ELSE {[kind |-> "Present", user |-> interactions[i].user, bot |-> FALSE]}

\* A submitted stake shows its preview under the key of the submission.
StakePreview(i) ==
    LET r == interactions[i].request
    IN  BetPreview(guild, interactions[i].user, now, r[3], r[4], interactions[i].amount, i)

\* The panels of each flow's read-only requests.
BetPanel(i, r) ==
    CASE r[2] = "page" -> BetPicker(guild, now, r[3])
      [] r[2] = "market" -> BetMarket(guild, now, r[3])
      [] r[2] = "cancel" -> {}
      [] r[2] = "stake" -> StakePreview(i)

ResolvePanel(actor, r) ==
    CASE r[2] = "page" -> ResolvePicker(guild, actor, now, r[3])
      [] r[2] = "market" -> ResolveMarket(guild, actor, now, r[3], r[4])
      [] r[2] = "outcome" -> ResolveOutcome(guild, actor, now, r[3], r[4], r[5])

AddPanel(actor, r) ==
    CASE r[2] = "page" -> ManagePicker("add", guild, actor, r[3], r[4], Nobody)
      [] r[2] \in {"market", "user"} -> AddStart(guild, actor, r[3], r[4])
      [] r[2] = "people" -> AddPeople(guild, actor, r[3], r[4])
      [] r[2] = "back" -> AddBack(guild, actor, r[3], r[4])

RemovePanel(actor, r) ==
    CASE r[2] = "page" -> ManagePicker("remove", guild, actor, r[3], r[4], Nobody)
      [] r[2] \in {"market", "user"} -> RemoveStart(guild, actor, r[3], r[4])
      [] r[2] = "assignments" -> RemoveAssignments(guild, actor, r[3], r[4], Nobody)
      [] r[2] = "around" -> RemoveAssignments(guild, actor, r[3], 0, r[4])
      [] r[2] = "back" -> ManagePicker("remove", guild, actor, 0, r[4], r[3])

AssignmentsPanel(r) ==
    IF r[2] = "page" THEN AssignmentsPicker(guild, r[3])
    ELSE AssignmentsMarket(guild, r[3], r[4])

PositionsPanel(user, r) ==
    IF r[2] = "page" THEN PositionsPicker(guild, user, r[3])
    ELSE PositionsMarket(guild, user, r[3], r[4])

\* The panel a slash command opens.
OpenPanel(actor, r) ==
    CASE r[2] = "bet" -> BetPicker(guild, now, 0)
      [] r[2] = "resolve" -> ResolvePicker(guild, actor, now, 0)
      [] r[2] = "add" -> AddStart(guild, actor, r[3], r[4])
      [] r[2] = "remove" -> RemoveStart(guild, actor, r[3], r[4])
      [] r[2] = "assignments" -> AssignmentsPicker(guild, 0)
      [] r[2] = "positions" -> PositionsStart(guild, actor.user, r[3])
      [] r[2] = "list" -> MarketList(guild, now)
      [] r[2] = "create" -> CreateForm

\* The panel a read-only request leads to.
PanelOf(i) ==
    LET r == interactions[i].request
        actor == ActorOf(i)
    IN  CASE r[1] = "open" -> OpenPanel(actor, r)
          [] r[1] = "bet" -> BetPanel(i, r)
          [] r[1] = "resolve" -> ResolvePanel(actor, r)
          [] r[1] = "add" -> AddPanel(actor, r)
          [] r[1] = "remove" -> RemovePanel(actor, r)
          [] r[1] = "assignments" -> AssignmentsPanel(r)
          [] r[1] = "positions" -> PositionsPanel(actor.user, r)

\* The first response to an immediate request: a form, or a new message.
ImmediateReply(i) ==
    LET r == interactions[i].request
        user == interactions[i].user
    IN  IF ~InScope(i) THEN Panel(Refused)
        ELSE CASE r[1] = "bet" -> IF MayStake(guild, user, now, r[3], r[4])
                                  THEN Opens(<<"bet", "stake", r[3], r[4]>>)
                                  ELSE Panel(Refused)
               [] r[1] = "create" -> Opens(<<"create", "new", r[3]>>)
               [] r[1] = "markets" -> Panel(IF r[3] \in DOMAIN guild.markets THEN {} ELSE Refused)

\* The first command of the scenario has been answered with its panel.
Init ==
    /\ scenario \in DOMAIN Guilds
    /\ guild = Guilds[scenario].state
    /\ now = Guilds[scenario].now
    /\ receipts = EmptyMap
    /\ interactions = <<FromCommand(Openings[scenario])>>
    /\ acknowledged = {1}
    /\ tasks = {}
    /\ redelivered = {}
    /\ messages = [m \in {1} |-> Controls(Openings[scenario].user, Panel(PanelOf(1)).panel)]
    /\ forms = {}
    /\ trouble = 0
    /\ effects = {}

-----------------------------------------------------------------------------
(* Handling a delivery.                                                    *)

Move(t, stage, reply) ==
    tasks' = (tasks \ {t}) \cup {[t EXCEPT !.stage = stage, !.reply = reply]}

\* Mutant: the content is made although the deferral failed.
ContinueAnyway(t, answered, recorded) == TRUE

\* A deferral that Discord accepts, or that it already has (code 40060), lets
\* the task go on; any other failure ends it.
MayContinue(t, answered, recorded) == t.id \in acknowledged \/ (answered /\ recorded)

Acknowledge(t, answered, recorded) ==
    /\ t.stage = "received"
    /\ ~Immediate(t.id)
    /\ answered => recorded
    /\ acknowledged' = IF recorded THEN acknowledged \cup {t.id} ELSE acknowledged
    /\ IF MayContinue(t, answered, recorded)
       THEN Move(t, "content", t.reply)
       ELSE tasks' = tasks \ {t}
    /\ t.id \in acknowledged => answered
    /\ Trouble(~answered)
    /\ UNCHANGED <<scenario, store, now, interactions, redelivered, messages, forms>>

\* A read-only request, or one that does not parse for this member.
Navigate(t) ==
    /\ t.stage = "content"
    /\ InScope(t.id) => ~IsCommand(t.id)
    /\ Move(t, "deliver", Panel(IF InScope(t.id) THEN PanelOf(t.id) ELSE Refused))
    /\ UNCHANGED trouble
    /\ UNCHANGED <<scenario, store, now, discord>>

\* The view cannot be read; the bounded read of an immediate request may time out.
ReadFails(t) ==
    /\ ~IsCommand(t.id)
    /\ InScope(t.id) \/ Immediate(t.id)
    /\ t.stage = (IF Immediate(t.id) THEN "received" ELSE "content")
    /\ Move(t, "deliver", Says("unavailable", 0))
    /\ Trouble(TRUE)
    /\ UNCHANGED <<scenario, store, now, discord>>

RespondFirst(t) ==
    /\ t.stage = "received"
    /\ Immediate(t.id)
    /\ Move(t, "deliver", ImmediateReply(t.id))
    /\ UNCHANGED trouble
    /\ UNCHANGED <<scenario, store, now, discord>>

\* Mutant: a settlement is checked against the view before the store is asked.
ExecuteEligible(i, evidence) ==
    IF interactions[i].request[1] = "resolve"
       /\ interactions[i].request[3] \notin ResolvableMarkets(guild, ActorOf(i), now)
    THEN {}
    ELSE IF KeyOf(i) \in DOMAIN receipts
    THEN IF receipts[KeyOf(i)] = interactions[i].user THEN {<< >>} ELSE {}
    ELSE Decide(guild, ActorOf(i), CommandOf(i), now, guild.policy, evidence)

\* Store::execute: a recorded command is recovered for its member, another one
\* is decided on the committed state.
Execute(i, evidence) ==
    IF KeyOf(i) \in DOMAIN receipts
    THEN IF receipts[KeyOf(i)] = interactions[i].user THEN {<< >>} ELSE {}
    ELSE Decide(guild, ActorOf(i), CommandOf(i), now, guild.policy, evidence)

ExecuteRequest(t) ==
    /\ t.stage = "content"
    /\ InScope(t.id) /\ IsCommand(t.id)
    /\ CommandOf(t.id).op = "Create" => DOMAIN guild.markets # Markets  \* bound: identifiers
    /\ \E evidence \in EvidenceFor(t.id) :
         LET decisions == Execute(t.id, evidence)
         IN  IF decisions = {}
             THEN /\ Move(t, "deliver", Says("rejected", KeyOf(t.id)))
                  /\ UNCHANGED <<store, trouble>>
             ELSE \E decision \in decisions, refreshed \in BOOLEAN :
                  /\ Trouble(~refreshed)
                  /\ guild' = ApplyDecision(guild, decision)
                  /\ receipts' = Insert(receipts, KeyOf(t.id), interactions[t.id].user)
                  /\ effects' = IF decision = << >> THEN effects
                                ELSE effects \cup {[id |-> t.id, user |-> interactions[t.id].user,
                                                    request |-> interactions[t.id].request]}
                  /\ Move(t, "deliver", Says(IF refreshed THEN "accepted" ELSE "unavailable",
                                             KeyOf(t.id)))
    /\ UNCHANGED <<scenario, now, discord>>

\* The database is out of reach: nothing is recorded.
ExecuteFails(t) ==
    /\ t.stage = "content"
    /\ InScope(t.id) /\ IsCommand(t.id)
    /\ Move(t, "deliver", Says("unavailable", KeyOf(t.id)))
    /\ Trouble(TRUE)
    /\ UNCHANGED <<scenario, store, now, discord>>

\* A control that parsed edits the message it is on (ComponentUpdate); a command,
\* a form and a control of somebody else get a message of their own.
TargetMessage(i) ==
    IF interactions[i].kind = "component" /\ InScope(i) /\ ~Immediate(i)
    THEN interactions[i].message
    ELSE i

\* The edit, or the first response, reaches Discord; its answer may be lost.
Deliver(t) ==
    /\ t.stage = "deliver"
    /\ Immediate(t.id) => t.id \notin acknowledged
    /\ acknowledged' = acknowledged \cup {t.id}
    /\ tasks' = tasks \ {t}
    /\ forms' = IF t.reply.says = "form"
                THEN forms \cup {[owner |-> interactions[t.id].user, control |-> t.reply.form]}
                ELSE forms
    /\ messages' = IF t.reply.says = "form" THEN messages
                   ELSE Insert(messages, TargetMessage(t.id),
                               Controls(interactions[t.id].user, t.reply.panel))
    /\ UNCHANGED trouble
    /\ UNCHANGED <<scenario, store, now, interactions, redelivered>>

\* The edit fails, or Discord refuses a second first response: it is only audited.
DeliveryFails(t) ==
    /\ t.stage = "deliver"
    /\ tasks' = tasks \ {t}
    /\ Trouble(TRUE)
    /\ UNCHANGED <<scenario, store, now, discord>>

Handle(t) ==
    \/ \E answered, recorded \in BOOLEAN : Acknowledge(t, answered, recorded)
    \/ Navigate(t) \/ ReadFails(t) \/ RespondFirst(t)
    \/ ExecuteRequest(t) \/ ExecuteFails(t)
    \/ Deliver(t) \/ DeliveryFails(t)

Next ==
    \/ \E command \in Commands[scenario] : Command(command)
    \/ \E message \in DOMAIN messages : \E pressed \in messages[message], user \in Users :
            pressed.control[2] \in Presses[scenario] /\ Press(user, message, pressed)
    \/ \E form \in forms, amount \in Amounts : Submit(form, amount)
    \/ \E i \in Interaction : Redeliver(i)
    \/ Tick
    \/ \E t \in tasks : Handle(t)

Spec == Init /\ [][Next]_vars

-----------------------------------------------------------------------------
(* Properties.                                                             *)

\* One submitted stake moves points once, however often its confirmation is
\* pressed or redelivered, whichever replies are lost and whatever the market has
\* become meanwhile (handle_bet_component shares the submission's key).
StakeTakenOnce ==
    \A e, f \in effects :
        /\ e.request[1] = "bet" /\ f.request[1] = "bet"
        /\ e.request[6] = f.request[6]
        => e = f

\* A command takes effect only for an interaction that Discord counts as
\* answered: after a deferral that failed nothing is executed, so that a member
\* who sees "interaction failed" has staked and settled nothing.
NoEffectUnacknowledged == \A e \in effects : e.id \in acknowledged

\* Once a command is recorded, no delivery of it makes a rejection its content: a
\* redelivered settlement or a second click on a stake recovers the receipt, also
\* after the market closed (comments at discord/bet/handler.rs:52, resolve.rs:86).
RecordedIsNeverRejected ==
    [][\A t \in tasks' \ tasks :
            t.reply.says = "rejected" => t.reply.key \notin DOMAIN receipts]_vars

\* The markets a picker offers, and the pages its buttons lead to.
Offered(panel) == {c[3] : c \in {d \in panel : d[2] = "market"}}
Turning(panel) == {c[3] : c \in {d \in panel : d[2] = "page"}}

\* The pages asked for: as many as there are markets are more than enough.
Asked == 0 .. Cardinality(DOMAIN guild.markets)

Reaches(picker, S) ==
    S # {} => /\ \A p \in DOMAIN picker : Cardinality(Offered(picker[p])) \in 1 .. PageSize
              /\ UNION {Offered(picker[p]) : p \in DOMAIN picker} = S
              /\ \A p \in 1 .. LastPage(S) :
                    p \in Turning(picker[p - 1]) /\ p - 1 \in Turning(picker[p])

\* Turning pages from the first one meets every market a member may bet on,
\* settle or manage, whatever page an old button asks for shows some of them, and
\* no menu is empty or longer than a page (Discord refuses both).
PickersReachEverything ==
    /\ Reaches([p \in Asked |-> BetPicker(guild, now, p)], BettingMarkets(guild, now))
    /\ \A u \in Users :
          LET actor == [user |-> u, moderator |-> u \in Moderators, bot |-> FALSE]
          IN  /\ Reaches([p \in Asked |-> ResolvePicker(guild, actor, now, p)],
                         ResolvableMarkets(guild, actor, now))
              /\ Reaches([p \in Asked |-> ManagePicker("add", guild, actor, p, u, Nobody)],
                         ManageableMarkets(guild, actor))
    /\ Reaches([p \in Asked |-> AssignmentsPicker(guild, p)], DOMAIN guild.markets)
=============================================================================
