------------------------ MODULE InteractionsProofs ------------------------
(***************************************************************************)
(* The interactions of a guild, for any members, markets, commands, faults *)
(* and number of deliveries.                                               *)
(*                                                                         *)
(* A confirmed stake is one command however many clicks and deliveries ask *)
(* for it, because its control carries the number of the form that was     *)
(* submitted.  That a recorded command is then recovered, and never        *)
(* rejected, rests on a fact about all panels: only the preview of a       *)
(* submitted stake offers a control with a key, to its own member.  What   *)
(* the pickers reach is a fact about the ranks in a finite ordered set.    *)
(***************************************************************************)
EXTENDS Interactions, DomainProofs

-----------------------------------------------------------------------------
(* The inductive invariant.                                                *)

\* A sequence of anything.
IsSeq(s) == s \in Seq({s[i] : i \in DOMAIN s})

\* A control some handler reads.
KnownControl(c) ==
    \/ c[1] = "bet" /\ c[2] \in {"page", "market", "outcome", "cancel", "confirm"}
    \/ c[1] = "resolve" /\ c[2] \in {"page", "market", "outcome", "confirm"}
    \/ c[1] = "add" /\ c[2] \in {"page", "market", "user", "people", "back", "confirm"}
    \/ c[1] = "remove" /\ c[2] \in {"page", "market", "user", "assignments", "around", "back",
                                    "confirm"}
    \/ c[1] \in {"assignments", "positions"} /\ c[2] \in {"page", "market"}
    \/ c[1] = "markets" /\ c[2] = "list"
    \/ c[1] = "create" /\ c[2] = "preset"

ConfirmsStake(c) == c[1] = "bet" /\ c[2] = "confirm"

\* The key of a stake's confirmation is a form of the member it was made for.
OwnKey(c, owner, log) ==
    ConfirmsStake(c) => c[6] \in 1 .. Len(log) /\ log[c[6]].user = owner

KnownForm(c) ==
    \/ c[1] = "bet" /\ c[2] = "stake"
    \/ c[1] = "create" /\ c[2] = "new"

\* An interaction is one that Discord can send.
Sendable(x, log) ==
    \/ x.kind = "command" /\ (OpensFlow(x.request) \/ Writes(x.request))
    \/ x.kind = "component" /\ KnownControl(x.request) /\ OwnKey(x.request, x.owner, log)
    \/ x.kind = "form" /\ KnownForm(x.request)

\* A reply to a member: the controls of its panel, its form.
ReplySound(reply, user, log) ==
    /\ \A c \in reply.panel : KnownControl(c) /\ OwnKey(c, user, log)
    /\ reply.says = "form" => KnownForm(reply.form)

TaskSound(t, log, acks) ==
    /\ t \in [id : {t.id}, delivery : {t.delivery}, stage : {t.stage}, reply : {t.reply}]
    /\ t.id \in 1 .. Len(log)
    /\ t.stage = "received" => t.reply.says = "nothing"
    /\ t.stage = "content" => t.id \in acks
    /\ ReplySound(t.reply, log[t.id].user, log)

Typing ==
    /\ scenario \in DOMAIN Guilds
    /\ IsSeq(interactions)

Controlled ==
    /\ \A i \in 1 .. Len(interactions) : Sendable(interactions[i], interactions)
    /\ \A m \in DOMAIN messages : \A pressed \in messages[m] :
            KnownControl(pressed.control) /\ OwnKey(pressed.control, pressed.owner, interactions)
    /\ \A form \in forms : KnownForm(form.control)

Handled ==
    \A t \in tasks : /\ TaskSound(t, interactions, acknowledged)
                     /\ t.stage = "content" => ~Immediate(t.id)

\* A receipt is its member's; a stake that took effect has one.
Recorded ==
    /\ \A k \in DOMAIN receipts :
            k \in 1 .. Len(interactions) /\ receipts[k] = interactions[k].user
    /\ \A e \in effects :
            /\ e.id \in acknowledged
            /\ e.request[1] = "bet" => e.request[6] \in DOMAIN receipts

IInv == Typing /\ Controlled /\ Handled /\ Recorded

-----------------------------------------------------------------------------
(* The log of interactions grows at the end.                               *)

LEMMA SeqFacts ==
  ASSUME NEW s, IsSeq(s)
  PROVE  Len(s) \in Nat /\ DOMAIN s = 1 .. Len(s)
  BY DEF IsSeq

LEMMA SeqAppend ==
  ASSUME NEW s, IsSeq(s), NEW e
  PROVE  /\ IsSeq(Append(s, e)) /\ Len(Append(s, e)) = Len(s) + 1
         /\ \A i \in 1 .. Len(s) : Append(s, e)[i] = s[i]
         /\ Append(s, e)[Len(s) + 1] = e
<1> DEFINE S == {s[i] : i \in DOMAIN s} \cup {e}
           c == Append(s, e)
<1>1. s \in Seq(S) /\ e \in S
  BY DEF IsSeq
<1>2. /\ c \in Seq(S) /\ Len(c) = Len(s) + 1
      /\ \A i \in 1 .. Len(s) : c[i] = s[i]
      /\ c[Len(s) + 1] = e
  BY <1>1
<1> HIDE DEF c, S
<1>3. c \in Seq({c[i] : i \in DOMAIN c})
  <2>1. DOMAIN c = 1 .. Len(c) /\ Len(c) \in Nat /\ c = [i \in 1 .. Len(c) |-> c[i]]
    BY <1>2
  <2>2. c \in [1 .. Len(c) -> {c[i] : i \in DOMAIN c}]
    BY <2>1
  <2> QED
    BY <2>1, <2>2
<1> QED
  BY <1>2, <1>3 DEF IsSeq, c

-----------------------------------------------------------------------------
(* The controls of the panels.                                             *)

\* A refusal, or controls that handlers read and that carry no key.
Plain(panel) ==
    \/ panel = Refused
    \/ \A c \in panel : KnownControl(c) /\ ~ConfirmsStake(c)

LEMMA BetPanels ==
  ASSUME NEW s, NEW now0, NEW a
  PROVE  Plain(BetPicker(s, now0, a)) /\ Plain(BetMarket(s, now0, a)) /\ Plain({})
<1>1. Plain(BetPicker(s, now0, a))
  BY DEF Plain, BetPicker, Turns, Optional, OnPage, KnownControl, ConfirmsStake
<1>2. Plain(BetMarket(s, now0, a))
  BY DEF Plain, BetMarket, KnownControl, ConfirmsStake
<1>3. Plain({})
  BY DEF Plain
<1> QED
  BY <1>1, <1>2, <1>3

LEMMA ResolvePanels ==
  ASSUME NEW s, NEW actor, NEW now0, NEW a, NEW b, NEW c
  PROVE  /\ Plain(ResolvePicker(s, actor, now0, a)) /\ Plain(ResolveMarket(s, actor, now0, a, b))
         /\ Plain(ResolveOutcome(s, actor, now0, a, b, c))
<1>1. Plain(ResolvePicker(s, actor, now0, a))
  BY DEF Plain, ResolvePicker, Turns, Optional, OnPage, KnownControl, ConfirmsStake
<1>2. Plain(ResolveMarket(s, actor, now0, a, b))
  BY DEF Plain, ResolveMarket, KnownControl, ConfirmsStake
<1>3. Plain(ResolveOutcome(s, actor, now0, a, b, c))
  BY DEF Plain, ResolveOutcome, KnownControl, ConfirmsStake
<1> QED
  BY <1>1, <1>2, <1>3

LEMMA ManagePanels ==
  ASSUME NEW flow \in {"add", "remove"}, NEW s, NEW actor, NEW a, NEW b, NEW c
  PROVE  Plain(ManagePicker(flow, s, actor, a, b, c))
  BY DEF Plain, ManagePicker, Turns, Optional, OnPage, KnownControl, ConfirmsStake

LEMMA AddPanels ==
  ASSUME NEW s, NEW actor, NEW a, NEW b
  PROVE  /\ Plain(AddStart(s, actor, a, b)) /\ Plain(AddPeople(s, actor, a, b))
         /\ Plain(AddBack(s, actor, a, b))
<1>1. \A u : Plain(AddPeople(s, actor, a, u))
  BY DEF Plain, AddPeople, KnownControl, ConfirmsStake
<1>2. Plain(AddConfirmation(s, actor, a, b))
  BY DEF Plain, AddConfirmation, KnownControl, ConfirmsStake
<1>3. \A n, c : Plain(ManagePicker("add", s, actor, n, b, c))
  BY ManagePanels
<1>4. Plain(AddStart(s, actor, a, b))
  BY <1>1, <1>2, <1>3 DEF AddStart
<1>5. Plain(AddBack(s, actor, a, b))
  <2>1. Plain(Refused)
    BY DEF Plain
  <2> QED
    BY <1>3, <2>1 DEF AddBack
<1> QED
  BY <1>1, <1>4, <1>5

LEMMA RemovePanels ==
  ASSUME NEW s, NEW actor, NEW a, NEW b, NEW c
  PROVE  Plain(RemoveStart(s, actor, a, b)) /\ Plain(RemoveAssignments(s, actor, a, b, c))
<1>1. \A n, u : Plain(RemoveAssignments(s, actor, a, n, u))
  BY DEF Plain, RemoveAssignments, Turns, Optional, OnPage, KnownControl, ConfirmsStake
<1>2. Plain(RemoveConfirmation(s, actor, a, b))
  BY DEF Plain, RemoveConfirmation, KnownControl, ConfirmsStake
<1>3. Plain(ManagePicker("remove", s, actor, 0, b, Nobody))
  BY ManagePanels
<1> QED
  BY <1>1, <1>2, <1>3 DEF RemoveStart

LEMMA InspectionPanels ==
  ASSUME NEW s, NEW user, NEW now0, NEW a, NEW b
  PROVE  /\ Plain(AssignmentsPicker(s, a)) /\ Plain(AssignmentsMarket(s, a, b))
         /\ Plain(PositionsPicker(s, user, a)) /\ Plain(PositionsMarket(s, user, a, b))
         /\ Plain(PositionsStart(s, user, a)) /\ Plain(MarketList(s, now0)) /\ Plain(CreateForm)
<1>1. Plain(AssignmentsPicker(s, a))
  BY DEF Plain, AssignmentsPicker, Turns, Optional, OnPage, KnownControl, ConfirmsStake
<1>2. Plain(AssignmentsMarket(s, a, b))
  BY DEF Plain, AssignmentsMarket, Turns, Optional, KnownControl, ConfirmsStake
<1>3. \A n : Plain(PositionsPicker(s, user, n))
  BY DEF Plain, PositionsPicker, Turns, Optional, OnPage, KnownControl, ConfirmsStake
<1>4. \A n : Plain(PositionsMarket(s, user, a, n))
  BY DEF Plain, PositionsMarket, Turns, Optional, KnownControl, ConfirmsStake
<1>5. Plain(PositionsStart(s, user, a))
  BY <1>3, <1>4 DEF PositionsStart
<1>6. Plain(MarketList(s, now0))
  <2>1. \A c \in MarketList(s, now0) : \E m : c = <<"markets", "list", m>>
    BY DEF MarketList
  <2> QED
    BY <2>1 DEF Plain, KnownControl, ConfirmsStake
<1>7. Plain(CreateForm)
  BY DEF Plain, CreateForm, KnownControl, ConfirmsStake
<1> QED
  BY <1>1, <1>2, <1>3, <1>4, <1>5, <1>6, <1>7

\* What a slash command opens has no key.
LEMMA OpenedPlain ==
  ASSUME NEW actor, NEW r, OpensFlow(r)
  PROVE  Plain(OpenPanel(actor, r))
<1>1. r[2] \in {"bet", "resolve", "add", "remove", "assignments", "positions", "list", "create"}
  BY DEF OpensFlow
<1>2. CASE r[2] = "bet"
  BY <1>2, BetPanels DEF OpenPanel
<1>3. CASE r[2] = "resolve"
  BY <1>3, ResolvePanels DEF OpenPanel
<1>4. CASE r[2] = "add"
  BY <1>4, AddPanels DEF OpenPanel
<1>5. CASE r[2] = "remove"
  BY <1>5, RemovePanels DEF OpenPanel
<1>6. CASE r[2] = "assignments"
  BY <1>6, InspectionPanels DEF OpenPanel
<1>7. CASE r[2] = "positions"
  BY <1>7, InspectionPanels DEF OpenPanel
<1>8. CASE r[2] = "list"
  BY <1>8, InspectionPanels DEF OpenPanel
<1>9. CASE r[2] = "create"
  BY <1>9, InspectionPanels DEF OpenPanel
<1> QED
  BY <1>1, <1>2, <1>3, <1>4, <1>5, <1>6, <1>7, <1>8, <1>9

\* A panel that is a refusal, or made of controls for this member.
Offers(panel, user, log) ==
    panel = Refused \/ \A c \in panel : KnownControl(c) /\ OwnKey(c, user, log)

LEMMA PlainOffers ==
  ASSUME NEW panel, Plain(panel), NEW user, NEW log
  PROVE  Offers(panel, user, log)
  BY DEF Plain, Offers, OwnKey

\* Only the preview of a stake has a key: the form its member submitted.
LEMMA PreviewOffers ==
  ASSUME NEW i \in 1 .. Len(interactions)
  PROVE  Offers(StakePreview(i), interactions[i].user, interactions)
<1> DEFINE r == interactions[i].request
           p == <<"bet", "confirm", r[3], r[4], interactions[i].amount, i>>
<1>1. \/ StakePreview(i) = Refused
      \/ StakePreview(i) = {p, <<"bet", "market", r[3]>>, <<"bet", "cancel">>}
  BY DEF StakePreview, BetPreview
<1>2. KnownControl(p) /\ OwnKey(p, interactions[i].user, interactions)
  BY DEF KnownControl, OwnKey, ConfirmsStake
<1>3. ASSUME NEW c \in {<<"bet", "market", r[3]>>, <<"bet", "cancel">>}
      PROVE  KnownControl(c) /\ ~ConfirmsStake(c)
  BY DEF KnownControl, ConfirmsStake
<1> HIDE DEF p, r
<1> QED
  BY <1>1, <1>2, <1>3 DEF Offers, OwnKey

\* The panel of every request that reaches its handler.
LEMMA PanelOffers ==
  ASSUME NEW i \in 1 .. Len(interactions), Sendable(interactions[i], interactions),
         ~IsCommand(i), ~Immediate(i), InScope(i)
  PROVE  Offers(PanelOf(i), interactions[i].user, interactions)
<1> DEFINE r == interactions[i].request
           actor == ActorOf(i)
           user == interactions[i].user
<1>1. CASE interactions[i].kind = "command"
  <2>1. OpensFlow(r)
    BY <1>1 DEF Sendable, IsCommand, Writes
  <2>2. PanelOf(i) = OpenPanel(actor, r)
    BY <2>1 DEF PanelOf, OpensFlow
  <2>3. Plain(OpenPanel(actor, r))
    BY <2>1, OpenedPlain
  <2> QED
    BY <2>2, <2>3, PlainOffers
<1>2. CASE interactions[i].kind = "form"
  <2>1. r[1] = "bet" /\ r[2] = "stake"
    BY <1>2 DEF Sendable, IsCommand, KnownForm
  <2>2. PanelOf(i) = StakePreview(i)
    BY <2>1 DEF PanelOf, BetPanel
  <2> QED
    BY <2>2, PreviewOffers
<1>3. CASE interactions[i].kind = "component"
  <2>1. KnownControl(r) /\ r[2] # "confirm"
    BY <1>3 DEF Sendable, IsCommand
  <2>2. ~(r[1] = "bet" /\ r[2] = "outcome") /\ r[1] \notin {"markets", "create"}
    BY <1>3, <2>1 DEF Immediate, Asks, KnownControl
  <2>3. CASE r[1] = "bet"
    <3>1. PanelOf(i) = BetPanel(i, r) /\ r[2] \in {"page", "market", "cancel"}
      BY <2>1, <2>2, <2>3 DEF PanelOf, KnownControl
    <3>2. Plain(BetPanel(i, r))
      BY <3>1, BetPanels DEF BetPanel
    <3> QED
      BY <3>1, <3>2, PlainOffers
  <2>4. CASE r[1] = "resolve"
    <3>1. PanelOf(i) = ResolvePanel(actor, r) /\ r[2] \in {"page", "market", "outcome"}
      BY <2>1, <2>4 DEF PanelOf, KnownControl
    <3>2. Plain(ResolvePanel(actor, r))
      BY <3>1, ResolvePanels DEF ResolvePanel
    <3> QED
      BY <3>1, <3>2, PlainOffers
  <2>5. CASE r[1] = "add"
    <3>1. PanelOf(i) = AddPanel(actor, r) /\ r[2] \in {"page", "market", "user", "people", "back"}
      BY <2>1, <2>5 DEF PanelOf, KnownControl
    <3>2. Plain(AddPanel(actor, r))
      <4>1. \A a, b : /\ Plain(ManagePicker("add", guild, actor, a, b, Nobody))
                      /\ Plain(AddStart(guild, actor, a, b)) /\ Plain(AddPeople(guild, actor, a, b))
                      /\ Plain(AddBack(guild, actor, a, b))
        BY AddPanels, ManagePanels
      <4> QED
        BY <3>1, <4>1 DEF AddPanel
    <3> QED
      BY <3>1, <3>2, PlainOffers
  <2>6. CASE r[1] = "remove"
    <3>1. /\ PanelOf(i) = RemovePanel(actor, r)
          /\ r[2] \in {"page", "market", "user", "assignments", "around", "back"}
      BY <2>1, <2>6 DEF PanelOf, KnownControl
    <3>2. Plain(RemovePanel(actor, r))
      <4>1. \A a, b, c : /\ Plain(ManagePicker("remove", guild, actor, a, b, c))
                         /\ Plain(RemoveStart(guild, actor, a, b))
                         /\ Plain(RemoveAssignments(guild, actor, a, b, c))
        BY RemovePanels, ManagePanels
      <4> QED
        BY <3>1, <4>1 DEF RemovePanel
    <3> QED
      BY <3>1, <3>2, PlainOffers
  <2>7. CASE r[1] = "assignments"
    <3>1. PanelOf(i) = AssignmentsPanel(r)
      BY <2>7 DEF PanelOf
    <3>2. Plain(AssignmentsPanel(r))
      BY InspectionPanels DEF AssignmentsPanel
    <3> QED
      BY <3>1, <3>2, PlainOffers
  <2>8. CASE r[1] = "positions"
    <3>1. PanelOf(i) = PositionsPanel(actor.user, r)
      BY <2>8 DEF PanelOf
    <3>2. Plain(PositionsPanel(actor.user, r))
      BY InspectionPanels DEF PositionsPanel
    <3> QED
      BY <3>1, <3>2, PlainOffers
  <2> QED
    BY <2>1, <2>2, <2>3, <2>4, <2>5, <2>6, <2>7, <2>8 DEF KnownControl
<1> QED
  BY <1>1, <1>2, <1>3 DEF Sendable

\* The replies a handler makes.
LEMMA PanelReply ==
  ASSUME NEW panel, NEW user, NEW log, Offers(panel, user, log)
  PROVE  ReplySound(Panel(panel), user, log) /\ Panel(panel).says \in {"refused", "panel"}
<1>1. /\ Panel(panel).says = IF panel = Refused THEN "refused" ELSE "panel"
      /\ Panel(panel).panel = IF panel = Refused THEN {} ELSE panel
  BY DEF Panel
<1> QED
  BY <1>1 DEF ReplySound, Offers

LEMMA SaysReply ==
  ASSUME NEW what, what # "form", NEW key, NEW user, NEW log
  PROVE  /\ ReplySound(Says(what, key), user, log)
         /\ Says(what, key).says = what /\ Says(what, key).key = key
  BY DEF ReplySound, Says

LEMMA ImmediateReplySound ==
  ASSUME NEW i \in 1 .. Len(interactions), Sendable(interactions[i], interactions), Immediate(i)
  PROVE  /\ ReplySound(ImmediateReply(i), interactions[i].user, interactions)
         /\ ImmediateReply(i).says # "rejected"
<1> DEFINE r == interactions[i].request
           user == interactions[i].user
<1>1. /\ Offers(Refused, user, interactions) /\ Offers({}, user, interactions)
      /\ \A x : Offers(IF x THEN {} ELSE Refused, user, interactions)
  BY DEF Offers
<1>2. \A form : KnownForm(form) => /\ ReplySound(Opens(form), user, interactions)
                                   /\ Opens(form).says = "form"
  BY DEF ReplySound, Opens
<1>3. /\ KnownForm(<<"bet", "stake", r[3], r[4]>>) /\ KnownForm(<<"create", "new", r[3]>>)
  BY DEF KnownForm
<1>4. r[1] \in {"bet", "create", "markets"}
  BY DEF Immediate, Asks
<1>5. \/ ImmediateReply(i) = Panel(Refused) \/ ImmediateReply(i) = Panel({})
      \/ ImmediateReply(i) = Opens(<<"bet", "stake", r[3], r[4]>>)
      \/ ImmediateReply(i) = Opens(<<"create", "new", r[3]>>)
  BY <1>4 DEF ImmediateReply
<1> HIDE DEF r
<1> QED
  BY <1>1, <1>2, <1>3, <1>5, PanelReply

-----------------------------------------------------------------------------
(* Steps.                                                                  *)

\* What is known of controls, interactions, replies and tasks stays known.
LEMMA LogGrows ==
  ASSUME NEW log, IsSeq(log), NEW x
  PROVE  /\ \A c, owner : OwnKey(c, owner, log) => OwnKey(c, owner, Append(log, x))
         /\ \A y : Sendable(y, log) => Sendable(y, Append(log, x))
         /\ \A t, acks : TaskSound(t, log, acks) => TaskSound(t, Append(log, x), acks)
<1> DEFINE new == Append(log, x)
<1>1. /\ Len(log) \in Nat /\ Len(new) = Len(log) + 1
      /\ \A i \in 1 .. Len(log) : new[i] = log[i]
  BY SeqFacts, SeqAppend
<1> HIDE DEF new
<1>2. 1 .. Len(log) \subseteq 1 .. Len(new)
  BY <1>1
<1>3. \A c, owner : OwnKey(c, owner, log) => OwnKey(c, owner, new)
  BY <1>1, <1>2 DEF OwnKey
<1>4. \A y : Sendable(y, log) => Sendable(y, new)
  BY <1>3 DEF Sendable
<1>5. \A reply, user : ReplySound(reply, user, log) => ReplySound(reply, user, new)
  BY <1>3 DEF ReplySound
<1>6. \A t, acks : TaskSound(t, log, acks) => TaskSound(t, new, acks)
  BY <1>1, <1>2, <1>5 DEF TaskSound
<1> QED
  BY <1>3, <1>4, <1>6 DEF new

\* A delivery begins.
LEMMA NewTask ==
  ASSUME NEW log, NEW i \in 1 .. Len(log), NEW n, NEW acks
  PROVE  /\ TaskSound(Task(i, n), log, acks) /\ Task(i, n).stage = "received"
         /\ Task(i, n).reply.says = "nothing"
<1> DEFINE t == Task(i, n)
<1>1. /\ t \in [id : {t.id}, delivery : {t.delivery}, stage : {t.stage}, reply : {t.reply}]
      /\ t.id = i /\ t.stage = "received" /\ t.reply = Says("nothing", 0)
  BY DEF Task
<1>2. ReplySound(t.reply, log[i].user, log) /\ t.reply.says = "nothing"
  BY <1>1, SaysReply
<1> HIDE DEF t
<1>3. TaskSound(t, log, acks)
  BY <1>1, <1>2 DEF TaskSound
<1> QED
  BY <1>1, <1>2, <1>3 DEF t

\* An interaction arrives.
LEMMA ArriveInv ==
  ASSUME IInv, NEW x, Arrive(x), Sendable(x, interactions),
         \A form \in forms' : form \in forms,
         UNCHANGED <<scenario, receipts, effects, acknowledged, messages>>
  PROVE  IInv'
<1> DEFINE log == interactions
           new == Append(log, x)
           t0 == Task(Len(log) + 1, 1)
<1>1. IsSeq(log) /\ interactions' = new /\ tasks' = tasks \cup {t0}
  BY DEF IInv, Typing, Arrive
<1>2. /\ IsSeq(new) /\ Len(log) \in Nat /\ Len(new) = Len(log) + 1 /\ new[Len(log) + 1] = x
      /\ \A i \in 1 .. Len(log) : new[i] = log[i]
  BY <1>1, SeqFacts, SeqAppend
<1>3. /\ \A c, owner : OwnKey(c, owner, log) => OwnKey(c, owner, new)
      /\ \A y : Sendable(y, log) => Sendable(y, new)
      /\ \A t, acks : TaskSound(t, log, acks) => TaskSound(t, new, acks)
  BY <1>1, LogGrows
<1> HIDE DEF new
<1>4. /\ 1 .. Len(log) \subseteq 1 .. Len(new) /\ Len(log) + 1 \in 1 .. Len(new)
      /\ \A i \in 1 .. Len(new) : i \in 1 .. Len(log) \/ i = Len(log) + 1
  BY <1>2
<1>5. Typing'
  BY <1>1, <1>2 DEF IInv, Typing
<1>6. Controlled'
  <2>1. \A i \in 1 .. Len(new) : Sendable(new[i], new)
    BY <1>2, <1>3, <1>4 DEF IInv, Controlled
  <2> QED
    BY <1>1, <1>3, <2>1 DEF IInv, Controlled
<1>7. Handled'
  <2>1. TaskSound(t0, new, acknowledged) /\ t0.stage = "received"
    BY <1>4, NewTask
  <2> HIDE DEF t0
  <2>2. ASSUME NEW t \in tasks
        PROVE  TaskSound(t, new, acknowledged) /\ (t.stage = "content" => ~Immediate(t.id)')
    <3>1. TaskSound(t, log, acknowledged) /\ (t.stage = "content" => ~Immediate(t.id))
      BY DEF IInv, Handled
    <3>2. t.id \in 1 .. Len(log)
      BY <3>1 DEF TaskSound
    <3>3. new[t.id] = log[t.id]
      BY <1>2, <3>2
    <3>4. Immediate(t.id)' <=> Immediate(t.id)
      BY <1>1, <3>3 DEF Immediate, Asks, InScope
    <3> QED
      BY <1>3, <3>1, <3>4
  <2> QED
    BY <1>1, <2>1, <2>2 DEF Handled
<1>8. Recorded'
  BY <1>1, <1>2, <1>4 DEF IInv, Recorded
<1> QED
  BY <1>5, <1>6, <1>7, <1>8 DEF IInv

\* A task moves on or ends: the log and what is recorded stay.
LEMMA Quiet ==
  ASSUME IInv, UNCHANGED <<scenario, interactions>>, acknowledged \subseteq acknowledged',
         \A t \in tasks' : \/ t \in tasks
                           \/ /\ TaskSound(t, interactions, acknowledged')
                              /\ t.stage = "content" => ~Immediate(t.id),
         \A m \in DOMAIN messages' : \A pressed \in messages'[m] :
            KnownControl(pressed.control) /\ OwnKey(pressed.control, pressed.owner, interactions),
         \A form \in forms' : KnownForm(form.control),
         Recorded'
  PROVE  IInv'
<1>1. Typing'
  BY DEF IInv, Typing
<1>2. Controlled'
  BY DEF IInv, Controlled
<1>3. ASSUME NEW t \in tasks'
      PROVE  TaskSound(t, interactions, acknowledged') /\ (t.stage = "content" => ~Immediate(t.id))
  <2>1. CASE t \in tasks
    <3>1. TaskSound(t, interactions, acknowledged) /\ (t.stage = "content" => ~Immediate(t.id))
      BY <2>1 DEF IInv, Handled
    <3> QED
      BY <3>1 DEF TaskSound
  <2> QED
    BY <2>1
<1>4. \A i : Immediate(i)' <=> Immediate(i)
  BY DEF Immediate, Asks, InScope
<1>5. Handled'
  BY <1>3, <1>4 DEF Handled
<1> QED
  BY <1>1, <1>2, <1>5 DEF IInv

\* What is recorded stays when the store is left alone.
LEMMA RecordedKept ==
  ASSUME Recorded, UNCHANGED <<interactions, receipts, effects>>, acknowledged \subseteq acknowledged'
  PROVE  Recorded'
  BY DEF Recorded

\* A task moves on, and only tasks change.
LEMMA OnlyTasks ==
  ASSUME IInv, NEW t \in tasks, NEW stage \in {"content", "deliver"}, NEW reply,
         Move(t, stage, reply), ReplySound(reply, interactions[t.id].user, interactions),
         stage = "content" => t.id \in acknowledged' /\ ~Immediate(t.id),
         UNCHANGED <<scenario, interactions, messages, forms>>,
         acknowledged \subseteq acknowledged', Recorded'
  PROVE  IInv'
<1> DEFINE u == [t EXCEPT !.stage = stage, !.reply = reply]
<1>1. tasks' = (tasks \ {t}) \cup {u}
  BY DEF Move
<1>2. TaskSound(t, interactions, acknowledged)
  BY DEF IInv, Handled
<1>u. u = [t EXCEPT !.stage = stage, !.reply = reply]
  OBVIOUS
<1> HIDE DEF u
<1>3. TaskSound(u, interactions, acknowledged') /\ u.id = t.id /\ u.stage = stage
  <2>1. /\ t \in [id : {t.id}, delivery : {t.delivery}, stage : {t.stage}, reply : {t.reply}]
        /\ t.id \in 1 .. Len(interactions)
    BY <1>2 DEF TaskSound
  <2>2. /\ u \in [id : {t.id}, delivery : {t.delivery}, stage : {stage}, reply : {reply}]
        /\ u.id = t.id /\ u.stage = stage /\ u.reply = reply /\ u.delivery = t.delivery
    BY <2>1, <1>u
  <2>3. stage = "content" => t.id \in acknowledged'
    OBVIOUS
  <2> QED
    BY <2>1, <2>2, <2>3 DEF TaskSound
<1>4. \A v \in tasks' : \/ v \in tasks
                        \/ /\ TaskSound(v, interactions, acknowledged')
                           /\ v.stage = "content" => ~Immediate(v.id)
  BY <1>1, <1>3
<1>5. /\ \A m \in DOMAIN messages' : \A pressed \in messages'[m] :
            KnownControl(pressed.control) /\ OwnKey(pressed.control, pressed.owner, interactions)
      /\ \A form \in forms' : KnownForm(form.control)
  BY DEF IInv, Controlled
<1> QED
  BY <1>4, <1>5, Quiet

\* A task ends, and only tasks change.
LEMMA TaskEnds ==
  ASSUME IInv, NEW t \in tasks, tasks' = tasks \ {t},
         UNCHANGED <<scenario, interactions, messages, forms, receipts, effects>>,
         acknowledged \subseteq acknowledged'
  PROVE  IInv'
<1>1. Recorded'
  BY RecordedKept DEF IInv
<1>2. /\ \A m \in DOMAIN messages' : \A pressed \in messages'[m] :
            KnownControl(pressed.control) /\ OwnKey(pressed.control, pressed.owner, interactions)
      /\ \A form \in forms' : KnownForm(form.control)
  BY DEF IInv, Controlled
<1> QED
  BY <1>1, <1>2, Quiet

LEMMA CommandInv ==
  ASSUME IInv, NEW command \in Commands[scenario], Command(command) PROVE IInv'
<1> DEFINE x == FromCommand(command)
<1>1. OpensFlow(command.request) \/ Writes(command.request)
  BY RequestsAssumption DEF IInv, Typing
<1>2. x.kind = "command" /\ x.request = command.request
  BY DEF FromCommand
<1>3. Arrive(x) /\ UNCHANGED <<scenario, receipts, effects, acknowledged, messages, forms>>
  BY DEF Command, store
<1> HIDE DEF x
<1>4. Sendable(x, interactions)
  BY <1>1, <1>2 DEF Sendable
<1> QED
  BY <1>3, <1>4, ArriveInv

LEMMA PressInv ==
  ASSUME IInv, NEW user, NEW message \in DOMAIN messages, NEW pressed \in messages[message],
         Press(user, message, pressed)
  PROVE  IInv'
<1> DEFINE x == [user |-> user, kind |-> "component", request |-> pressed.control,
                 owner |-> pressed.owner, message |-> message, amount |-> 0, at |-> 0]
<1>1. KnownControl(pressed.control) /\ OwnKey(pressed.control, pressed.owner, interactions)
  BY DEF IInv, Controlled
<1>2. x.kind = "component" /\ x.request = pressed.control /\ x.owner = pressed.owner
  OBVIOUS
<1>3. Arrive(x) /\ UNCHANGED <<scenario, receipts, effects, acknowledged, messages, forms>>
  BY DEF Press, store
<1> HIDE DEF x
<1>4. Sendable(x, interactions)
  BY <1>1, <1>2 DEF Sendable
<1> QED
  BY <1>3, <1>4, ArriveInv

LEMMA SubmitInv ==
  ASSUME IInv, NEW form \in forms, NEW amount, Submit(form, amount) PROVE IInv'
<1> DEFINE x == [user |-> form.owner, kind |-> "form", request |-> form.control,
                 owner |-> form.owner, message |-> 0, amount |-> amount, at |-> now]
<1>1. KnownForm(form.control)
  BY DEF IInv, Controlled
<1>2. x.kind = "form" /\ x.request = form.control
  OBVIOUS
<1>3. /\ Arrive(x) /\ UNCHANGED <<scenario, receipts, effects, acknowledged, messages>>
      /\ forms' = forms \ {form}
  BY DEF Submit, store
<1> HIDE DEF x
<1>4. Sendable(x, interactions)
  BY <1>1, <1>2 DEF Sendable
<1> QED
  BY <1>3, <1>4, ArriveInv

LEMMA RedeliverInv ==
  ASSUME IInv, NEW i \in Interaction, Redeliver(i) PROVE IInv'
<1> DEFINE t == Task(i, 2)
<1>1. i \in 1 .. Len(interactions)
  BY SeqFacts DEF IInv, Typing, Interaction
<1>2. /\ tasks' = tasks \cup {t}
      /\ UNCHANGED <<scenario, interactions, receipts, effects, acknowledged, messages, forms>>
  BY DEF Redeliver, store
<1>3. TaskSound(t, interactions, acknowledged) /\ t.stage = "received"
  BY <1>1, NewTask
<1> HIDE DEF t
<1>4. Recorded'
  BY <1>2, RecordedKept DEF IInv
<1>5. /\ \A m \in DOMAIN messages' : \A pressed \in messages'[m] :
            KnownControl(pressed.control) /\ OwnKey(pressed.control, pressed.owner, interactions)
      /\ \A form \in forms' : KnownForm(form.control)
  BY <1>2 DEF IInv, Controlled
<1> QED
  BY <1>2, <1>3, <1>4, <1>5, Quiet

\* A task and its interaction.
LEMMA TaskFacts ==
  ASSUME IInv, NEW t \in tasks
  PROVE  /\ TaskSound(t, interactions, acknowledged)
         /\ t.id \in 1 .. Len(interactions)
         /\ Sendable(interactions[t.id], interactions)
         /\ t.stage = "content" => t.id \in acknowledged /\ ~Immediate(t.id)
         /\ t.stage = "received" => t.reply.says = "nothing"
         /\ ReplySound(t.reply, interactions[t.id].user, interactions)
<1>1. TaskSound(t, interactions, acknowledged) /\ (t.stage = "content" => ~Immediate(t.id))
  BY DEF IInv, Handled
<1>2. t.id \in 1 .. Len(interactions)
  BY <1>1 DEF TaskSound
<1>3. Sendable(interactions[t.id], interactions)
  BY <1>2 DEF IInv, Controlled
<1> QED
  BY <1>1, <1>2, <1>3 DEF TaskSound

LEMMA AcknowledgeInv ==
  ASSUME IInv, NEW t \in tasks, NEW answered \in BOOLEAN, NEW recorded \in BOOLEAN,
         Acknowledge(t, answered, recorded)
  PROVE  IInv'
<1>1. /\ ~Immediate(t.id) /\ acknowledged \subseteq acknowledged'
      /\ UNCHANGED <<scenario, interactions, messages, forms, receipts, effects>>
  BY DEF Acknowledge, store
<1>2. ReplySound(t.reply, interactions[t.id].user, interactions)
  BY TaskFacts
<1>3. Recorded'
  BY <1>1, RecordedKept DEF IInv
<1>4. CASE MayContinue(t, answered, recorded)
  <2>1. Move(t, "content", t.reply)
    BY <1>4 DEF Acknowledge
  <2>2. t.id \in acknowledged'
    BY <1>4 DEF Acknowledge, MayContinue
  <2> QED
    BY <1>1, <1>2, <1>3, <2>1, <2>2, OnlyTasks
<1>5. CASE ~MayContinue(t, answered, recorded)
  <2>1. tasks' = tasks \ {t}
    BY <1>5 DEF Acknowledge
  <2> QED
    BY <1>1, <2>1, TaskEnds
<1> QED
  BY <1>4, <1>5

\* A task makes its content without the store.
LEMMA ContentInv ==
  ASSUME IInv, NEW t \in tasks, NEW reply, Move(t, "deliver", reply),
         ReplySound(reply, interactions[t.id].user, interactions),
         UNCHANGED <<scenario, interactions, messages, forms, receipts, effects, acknowledged>>
  PROVE  IInv'
<1>1. Recorded'
  BY RecordedKept DEF IInv
<1> QED
  BY <1>1, OnlyTasks

LEMMA NavigateInv ==
  ASSUME IInv, NEW t \in tasks, Navigate(t) PROVE IInv'
<1> DEFINE panel == IF InScope(t.id) THEN PanelOf(t.id) ELSE Refused
           user == interactions[t.id].user
<1>1. /\ t.stage = "content" /\ (InScope(t.id) => ~IsCommand(t.id))
      /\ Move(t, "deliver", Panel(panel))
      /\ UNCHANGED <<scenario, interactions, messages, forms, receipts, effects, acknowledged>>
  BY DEF Navigate, store, discord
<1>2. Offers(panel, user, interactions)
  <2>1. Offers(Refused, user, interactions)
    BY DEF Offers
  <2>2. CASE InScope(t.id)
    BY <1>1, <2>2, TaskFacts, PanelOffers
  <2> QED
    BY <2>1, <2>2
<1> HIDE DEF panel
<1>3. ReplySound(Panel(panel), user, interactions)
  BY <1>2, PanelReply
<1> QED
  BY <1>1, <1>3, ContentInv

LEMMA ReadFailsInv ==
  ASSUME IInv, NEW t \in tasks, ReadFails(t) PROVE IInv'
<1>1. /\ Move(t, "deliver", Says("unavailable", 0))
      /\ UNCHANGED <<scenario, interactions, messages, forms, receipts, effects, acknowledged>>
  BY DEF ReadFails, store, discord
<1>2. ReplySound(Says("unavailable", 0), interactions[t.id].user, interactions)
  BY SaysReply
<1> QED
  BY <1>1, <1>2, ContentInv

LEMMA RespondFirstInv ==
  ASSUME IInv, NEW t \in tasks, RespondFirst(t) PROVE IInv'
<1>1. /\ Move(t, "deliver", ImmediateReply(t.id)) /\ Immediate(t.id)
      /\ UNCHANGED <<scenario, interactions, messages, forms, receipts, effects, acknowledged>>
  BY DEF RespondFirst, store, discord
<1>2. ReplySound(ImmediateReply(t.id), interactions[t.id].user, interactions)
  BY <1>1, TaskFacts, ImmediateReplySound
<1> QED
  BY <1>1, <1>2, ContentInv

LEMMA ExecuteFailsInv ==
  ASSUME IInv, NEW t \in tasks, ExecuteFails(t) PROVE IInv'
<1>1. /\ Move(t, "deliver", Says("unavailable", KeyOf(t.id)))
      /\ UNCHANGED <<scenario, interactions, messages, forms, receipts, effects, acknowledged>>
  BY DEF ExecuteFails, store, discord
<1>2. ReplySound(Says("unavailable", KeyOf(t.id)), interactions[t.id].user, interactions)
  BY SaysReply
<1> QED
  BY <1>1, <1>2, ContentInv

\* The key of a command is an interaction of the member who sends it.
LEMMA KeyIsOwn ==
  ASSUME NEW i \in 1 .. Len(interactions), Sendable(interactions[i], interactions), InScope(i)
  PROVE  /\ KeyOf(i) \in 1 .. Len(interactions)
         /\ interactions[KeyOf(i)].user = interactions[i].user
         /\ IsCommand(i) /\ interactions[i].request[1] = "bet" =>
                KeyOf(i) = interactions[i].request[6]
<1> DEFINE x == interactions[i]
           r == x.request
<1>1. CASE r[1] = "bet" /\ r[2] = "confirm"
  <2>1. x.kind = "component" /\ OwnKey(r, x.owner, interactions)
    BY <1>1 DEF Sendable, OpensFlow, Writes, KnownForm
  <2>2. r[6] \in 1 .. Len(interactions) /\ interactions[r[6]].user = x.owner
    BY <1>1, <2>1 DEF OwnKey, ConfirmsStake
  <2>3. KeyOf(i) = r[6]
    BY <1>1 DEF KeyOf, Asks
  <2> QED
    BY <2>2, <2>3 DEF InScope
<1>2. CASE ~(r[1] = "bet" /\ r[2] = "confirm")
  <2>1. KeyOf(i) = i
    BY <1>2 DEF KeyOf, Asks
  <2>2. ~(IsCommand(i) /\ r[1] = "bet")
    BY <1>2 DEF IsCommand
  <2> QED
    BY <2>1, <2>2
<1> QED
  BY <1>1, <1>2

\* A receipt is found by its member, so a command is rejected only without one.
LEMMA RejectedFresh ==
  ASSUME IInv, NEW t \in tasks, InScope(t.id), NEW evidence, Execute(t.id, evidence) = {}
  PROVE  KeyOf(t.id) \notin DOMAIN receipts
<1>1. interactions[KeyOf(t.id)].user = interactions[t.id].user
  BY TaskFacts, KeyIsOwn
<1>2. SUFFICES ASSUME KeyOf(t.id) \in DOMAIN receipts PROVE FALSE
  OBVIOUS
<1>3. receipts[KeyOf(t.id)] = interactions[t.id].user
  BY <1>1, <1>2 DEF IInv, Recorded
<1>4. Execute(t.id, evidence) = {<< >>}
  BY <1>2, <1>3 DEF Execute
<1> QED
  BY <1>4


\* A decision of the store: it is recorded under the command's key.
LEMMA AcceptedRecorded ==
  ASSUME IInv, NEW t \in tasks, t.stage = "content", InScope(t.id), IsCommand(t.id),
         UNCHANGED <<interactions, acknowledged>>, NEW decision,
         receipts' = Insert(receipts, KeyOf(t.id), interactions[t.id].user),
         effects' = IF decision = << >> THEN effects
                    ELSE effects \cup {[id |-> t.id, user |-> interactions[t.id].user,
                                        request |-> interactions[t.id].request]}
  PROVE  Recorded'
<1> DEFINE key == KeyOf(t.id)
           user == interactions[t.id].user
           e0 == [id |-> t.id, user |-> user, request |-> interactions[t.id].request]
<1>1. /\ key \in 1 .. Len(interactions) /\ interactions[key].user = user
      /\ interactions[t.id].request[1] = "bet" => key = interactions[t.id].request[6]
  BY TaskFacts, KeyIsOwn
<1>2. t.id \in acknowledged
  BY TaskFacts
<1>3. /\ e0.id = t.id /\ e0.request = interactions[t.id].request
      /\ \A e \in effects' : e \in effects \/ e = e0
  BY Zenon
<1> HIDE DEF key, user, e0
<1>4. receipts' = Insert(receipts, key, user)
  BY DEF key, user
<1>5. DOMAIN receipts' = DOMAIN receipts \cup {key}
  BY <1>4 DEF Insert
<1>6. ASSUME NEW k \in DOMAIN receipts'
      PROVE  k \in 1 .. Len(interactions) /\ receipts'[k] = interactions[k].user
  <2>1. receipts'[k] = IF k = key THEN user ELSE receipts[k]
    BY <1>4, <1>5 DEF Insert
  <2>2. k = key \/ k \in DOMAIN receipts
    BY <1>5
  <2> QED
    BY <1>1, <2>1, <2>2 DEF IInv, Recorded
<1>7. ASSUME NEW e \in effects'
      PROVE  e.id \in acknowledged /\ (e.request[1] = "bet" => e.request[6] \in DOMAIN receipts')
  <2>1. CASE e \in effects
    BY <1>5, <2>1 DEF IInv, Recorded
  <2>2. CASE e = e0
    BY <1>1, <1>2, <1>3, <1>5, <2>2
  <2> QED
    BY <1>3, <2>1, <2>2
<1> QED
  BY <1>6, <1>7 DEF Recorded

\* A new effect of a stake is the first one of its form.
LEMMA FirstEffect ==
  ASSUME IInv, StakeTakenOnce, NEW t \in tasks, InScope(t.id), IsCommand(t.id),
         NEW evidence, NEW decision \in Execute(t.id, evidence),
         effects' = IF decision = << >> THEN effects
                    ELSE effects \cup {[id |-> t.id, user |-> interactions[t.id].user,
                                        request |-> interactions[t.id].request]}
  PROVE  StakeTakenOnce'
<1> DEFINE r == interactions[t.id].request
           e0 == [id |-> t.id, user |-> interactions[t.id].user, request |-> r]
<1>1. CASE decision = << >>
  BY <1>1 DEF StakeTakenOnce
<1>2. CASE decision # << >>
  <2>1. effects' = effects \cup {e0} /\ e0.request = r
    BY <1>2
  <2>2. r[1] = "bet" => r[6] = KeyOf(t.id)
    BY TaskFacts, KeyIsOwn
  <2>3. KeyOf(t.id) \notin DOMAIN receipts
    BY <1>2 DEF Execute
  <2> HIDE DEF e0, r
  <2>4. \A e \in effects : e.request[1] = "bet" /\ r[1] = "bet" => e.request[6] # r[6]
    BY <2>2, <2>3 DEF IInv, Recorded
  <2> QED
    BY <2>1, <2>4 DEF StakeTakenOnce
<1> QED
  BY <1>1, <1>2

\* What a step of the store does with a task.
Accepts(t, decision, refreshed) ==
    /\ receipts' = Insert(receipts, KeyOf(t.id), interactions[t.id].user)
    /\ effects' = IF decision = << >> THEN effects
                  ELSE effects \cup {[id |-> t.id, user |-> interactions[t.id].user,
                                      request |-> interactions[t.id].request]}
    /\ Move(t, "deliver", Says(IF refreshed THEN "accepted" ELSE "unavailable", KeyOf(t.id)))

Refuses(t, evidence) ==
    /\ Execute(t.id, evidence) = {}
    /\ Move(t, "deliver", Says("rejected", KeyOf(t.id)))
    /\ UNCHANGED <<receipts, effects>>

LEMMA ExecuteCases ==
  ASSUME NEW t, ExecuteRequest(t)
  PROVE  /\ t.stage = "content" /\ InScope(t.id) /\ IsCommand(t.id)
         /\ UNCHANGED <<scenario, interactions, acknowledged, messages, forms>>
         /\ \E evidence \in EvidenceFor(t.id) :
              \/ Refuses(t, evidence)
              \/ \E decision \in Execute(t.id, evidence), refreshed \in BOOLEAN :
                    Accepts(t, decision, refreshed)
<1>1. /\ t.stage = "content" /\ InScope(t.id) /\ IsCommand(t.id)
      /\ UNCHANGED <<scenario, interactions, acknowledged, messages, forms>>
  BY DEF ExecuteRequest, discord
<1>2. PICK evidence \in EvidenceFor(t.id) :
         IF Execute(t.id, evidence) = {}
         THEN /\ Move(t, "deliver", Says("rejected", KeyOf(t.id)))
              /\ UNCHANGED <<store, trouble>>
         ELSE \E decision \in Execute(t.id, evidence), refreshed \in BOOLEAN :
                 /\ Trouble(~refreshed)
                 /\ guild' = ApplyDecision(guild, decision)
                 /\ Accepts(t, decision, refreshed)
  BY DEF ExecuteRequest, Accepts
<1>3. CASE Execute(t.id, evidence) = {}
  <2>1. Refuses(t, evidence)
    BY <1>2, <1>3 DEF Refuses, store
  <2> QED
    BY <1>1, <2>1
<1>4. CASE Execute(t.id, evidence) # {}
  <2>1. \E decision \in Execute(t.id, evidence), refreshed \in BOOLEAN :
            Accepts(t, decision, refreshed)
    BY <1>2, <1>4
  <2> QED
    BY <1>1, <2>1
<1> QED
  BY <1>3, <1>4

LEMMA ExecuteRequestInv ==
  ASSUME IInv, StakeTakenOnce, NEW t \in tasks, ExecuteRequest(t) PROVE IInv' /\ StakeTakenOnce'
<1>1. /\ t.stage = "content" /\ InScope(t.id) /\ IsCommand(t.id)
      /\ UNCHANGED <<scenario, interactions, acknowledged, messages, forms>>
  BY ExecuteCases
<1>2. PICK evidence \in EvidenceFor(t.id) :
         \/ Refuses(t, evidence)
         \/ \E decision \in Execute(t.id, evidence), refreshed \in BOOLEAN :
               Accepts(t, decision, refreshed)
  BY ExecuteCases
<1>3. \A what, key : ReplySound(Says(what, key), interactions[t.id].user, interactions)
                     \/ what = "form"
  BY SaysReply
<1>4. ASSUME Refuses(t, evidence) PROVE IInv' /\ StakeTakenOnce'
  <2>1. /\ Move(t, "deliver", Says("rejected", KeyOf(t.id))) /\ UNCHANGED <<receipts, effects>>
    BY <1>4 DEF Refuses
  <2>2. IInv'
    BY <1>1, <1>3, <2>1, ContentInv
  <2> QED
    BY <2>1, <2>2 DEF StakeTakenOnce
<1>5. ASSUME NEW decision \in Execute(t.id, evidence), NEW refreshed \in BOOLEAN,
             Accepts(t, decision, refreshed)
      PROVE  IInv' /\ StakeTakenOnce'
  <2> DEFINE what == IF refreshed THEN "accepted" ELSE "unavailable"
  <2>1. what # "form"
    OBVIOUS
  <2>2. Move(t, "deliver", Says(what, KeyOf(t.id)))
    BY <1>5 DEF Accepts
  <2> HIDE DEF what
  <2>3. Recorded'
    BY <1>1, <1>5, AcceptedRecorded DEF Accepts
  <2>4. StakeTakenOnce'
    BY <1>1, <1>5, FirstEffect DEF Accepts
  <2>5. ReplySound(Says(what, KeyOf(t.id)), interactions[t.id].user, interactions)
    BY <1>3, <2>1
  <2>6. IInv'
    BY <1>1, <2>2, <2>3, <2>5, OnlyTasks
  <2> QED
    BY <2>4, <2>6
<1> QED
  BY <1>2, <1>4, <1>5

LEMMA DeliverInv ==
  ASSUME IInv, NEW t \in tasks, Deliver(t) PROVE IInv'
<1> DEFINE user == interactions[t.id].user
           target == TargetMessage(t.id)
           shown == Controls(user, t.reply.panel)
           form0 == [owner |-> user, control |-> t.reply.form]
<1>1. /\ acknowledged \subseteq acknowledged' /\ tasks' = tasks \ {t}
      /\ UNCHANGED <<scenario, interactions, receipts, effects>>
      /\ t.reply.says = "form" => messages' = messages /\ forms' = forms \cup {form0}
      /\ t.reply.says # "form" => messages' = Insert(messages, target, shown) /\ forms' = forms
  BY DEF Deliver, store
<1>2. ReplySound(t.reply, user, interactions)
  BY TaskFacts
<1>3. \A pressed \in shown :
        KnownControl(pressed.control) /\ OwnKey(pressed.control, pressed.owner, interactions)
  BY <1>2 DEF ReplySound, Controls
<1>4. t.reply.says = "form" => KnownForm(form0.control)
  BY <1>2 DEF ReplySound
<1>5. Recorded'
  BY <1>1, RecordedKept DEF IInv
<1> HIDE DEF user, target, shown, form0
<1>6. ASSUME NEW m \in DOMAIN messages', NEW pressed \in messages'[m]
      PROVE  KnownControl(pressed.control) /\ OwnKey(pressed.control, pressed.owner, interactions)
  <2>1. CASE t.reply.says = "form"
    BY <1>1, <1>6, <2>1 DEF IInv, Controlled
  <2>2. CASE t.reply.says # "form"
    <3>1. messages' = Insert(messages, target, shown)
      BY <1>1, <2>2
    <3>2. m \in DOMAIN messages \cup {target}
          /\ messages'[m] = IF m = target THEN shown ELSE messages[m]
      BY <3>1, <1>6 DEF Insert
    <3> QED
      BY <1>3, <1>6, <3>2 DEF IInv, Controlled
  <2> QED
    BY <2>1, <2>2
<1>7. \A form \in forms' : KnownForm(form.control)
  BY <1>1, <1>4 DEF IInv, Controlled
<1> QED
  BY <1>1, <1>5, <1>6, <1>7, Quiet

LEMMA DeliveryFailsInv ==
  ASSUME IInv, NEW t \in tasks, DeliveryFails(t) PROVE IInv'
<1>1. /\ tasks' = tasks \ {t}
      /\ UNCHANGED <<scenario, interactions, messages, forms, receipts, effects, acknowledged>>
  BY DEF DeliveryFails, store, discord
<1> QED
  BY <1>1, TaskEnds

LEMMA StutterInv ==
  ASSUME IInv, UNCHANGED <<scenario, interactions, acknowledged, tasks, messages, forms, receipts,
                           effects>>
  PROVE  IInv'
<1>1. Recorded'
  BY RecordedKept DEF IInv
<1>2. /\ \A m \in DOMAIN messages' : \A pressed \in messages'[m] :
            KnownControl(pressed.control) /\ OwnKey(pressed.control, pressed.owner, interactions)
      /\ \A form \in forms' : KnownForm(form.control)
  BY DEF IInv, Controlled
<1> QED
  BY <1>1, <1>2, Quiet

\* The guild starts with one command, answered by its panel.
LEMMA InitInv ==
  ASSUME Init PROVE IInv /\ StakeTakenOnce
<1> DEFINE x == FromCommand(Openings[scenario])
<1>1. /\ scenario \in DOMAIN Guilds /\ interactions = <<x>> /\ tasks = {} /\ forms = {}
      /\ receipts = EmptyMap /\ effects = {}
      /\ messages = [m \in {1} |-> Controls(Openings[scenario].user, Panel(PanelOf(1)).panel)]
  BY DEF Init
<1>2. x.kind = "command" /\ x.request = Openings[scenario].request /\ OpensFlow(x.request)
      /\ x.user = Openings[scenario].user
  BY <1>1, RequestsAssumption DEF FromCommand
<1> HIDE DEF x
<1>3. Len(interactions) = 1 /\ interactions[1] = x /\ IsSeq(interactions)
  BY <1>1 DEF IsSeq
<1>4. 1 .. Len(interactions) = {1}
  BY <1>3
<1>5. Sendable(x, interactions)
  BY <1>2 DEF Sendable
<1>6. ReplySound(Panel(PanelOf(1)), x.user, interactions)
  <2>1. PanelOf(1) = OpenPanel(ActorOf(1), x.request)
    BY <1>2, <1>3 DEF PanelOf, OpensFlow
  <2>2. Plain(PanelOf(1))
    BY <1>2, <2>1, OpenedPlain
  <2> QED
    BY <2>2, PlainOffers, PanelReply
<1>7. Controlled
  <2>1. \A pressed \in Controls(x.user, Panel(PanelOf(1)).panel) :
          KnownControl(pressed.control) /\ OwnKey(pressed.control, pressed.owner, interactions)
    BY <1>6 DEF ReplySound, Controls
  <2> QED
    BY <1>1, <1>2, <1>3, <1>4, <1>5, <2>1 DEF Controlled
<1>8. Typing /\ Handled /\ Recorded /\ StakeTakenOnce
  BY <1>1, <1>3 DEF Typing, Handled, Recorded, StakeTakenOnce, EmptyMap
<1> QED
  BY <1>7, <1>8 DEF IInv

LEMMA NextInv ==
  ASSUME IInv, StakeTakenOnce, [Next]_vars PROVE IInv' /\ StakeTakenOnce'
<1>1. ASSUME UNCHANGED effects PROVE StakeTakenOnce'
  BY <1>1 DEF StakeTakenOnce
<1>2. ASSUME NEW command \in Commands[scenario], Command(command) PROVE IInv' /\ StakeTakenOnce'
  BY <1>1, <1>2, CommandInv DEF Command, store
<1>3. ASSUME NEW message \in DOMAIN messages, NEW pressed \in messages[message], NEW user,
             Press(user, message, pressed)
      PROVE  IInv' /\ StakeTakenOnce'
  BY <1>1, <1>3, PressInv DEF Press, store
<1>4. ASSUME NEW form \in forms, NEW amount \in Amounts, Submit(form, amount)
      PROVE  IInv' /\ StakeTakenOnce'
  BY <1>1, <1>4, SubmitInv DEF Submit, store
<1>5. ASSUME NEW i \in Interaction, Redeliver(i) PROVE IInv' /\ StakeTakenOnce'
  BY <1>1, <1>5, RedeliverInv DEF Redeliver, store
<1>6. ASSUME Tick \/ UNCHANGED vars PROVE IInv' /\ StakeTakenOnce'
  BY <1>1, <1>6, StutterInv DEF Tick, vars, store, discord
<1>7. ASSUME NEW t \in tasks, Handle(t) PROVE IInv' /\ StakeTakenOnce'
  <2>1. ASSUME NEW answered \in BOOLEAN, NEW recorded \in BOOLEAN,
               Acknowledge(t, answered, recorded)
        PROVE  IInv' /\ StakeTakenOnce'
    BY <1>1, <2>1, AcknowledgeInv DEF Acknowledge, store
  <2>2. ASSUME Navigate(t) PROVE IInv' /\ StakeTakenOnce'
    BY <1>1, <2>2, NavigateInv DEF Navigate, store
  <2>3. ASSUME ReadFails(t) PROVE IInv' /\ StakeTakenOnce'
    BY <1>1, <2>3, ReadFailsInv DEF ReadFails, store
  <2>4. ASSUME RespondFirst(t) PROVE IInv' /\ StakeTakenOnce'
    BY <1>1, <2>4, RespondFirstInv DEF RespondFirst, store
  <2>5. ASSUME ExecuteRequest(t) PROVE IInv' /\ StakeTakenOnce'
    BY <2>5, ExecuteRequestInv
  <2>6. ASSUME ExecuteFails(t) PROVE IInv' /\ StakeTakenOnce'
    BY <1>1, <2>6, ExecuteFailsInv DEF ExecuteFails, store
  <2>7. ASSUME Deliver(t) PROVE IInv' /\ StakeTakenOnce'
    BY <1>1, <2>7, DeliverInv DEF Deliver, store
  <2>8. ASSUME DeliveryFails(t) PROVE IInv' /\ StakeTakenOnce'
    BY <1>1, <2>8, DeliveryFailsInv DEF DeliveryFails, store
  <2> QED
    BY <1>7, <2>1, <2>2, <2>3, <2>4, <2>5, <2>6, <2>7, <2>8 DEF Handle
<1> QED
  BY <1>2, <1>3, <1>4, <1>5, <1>6, <1>7 DEF Next

-----------------------------------------------------------------------------
(* Rejections.                                                             *)

\* What every step has to show: a new rejection is of a command without a receipt.
RejectsFresh ==
    \A u \in tasks' \ tasks : u.reply.says = "rejected" => u.reply.key \notin DOMAIN receipts

\* A task that moves on carries its new reply.
LEMMA MovedReply ==
  ASSUME IInv, NEW t \in tasks, NEW stage, NEW reply, Move(t, stage, reply),
         reply.says = "rejected" => reply.key \notin DOMAIN receipts
  PROVE  RejectsFresh
<1> DEFINE u == [t EXCEPT !.stage = stage, !.reply = reply]
<1>1. t \in [id : {t.id}, delivery : {t.delivery}, stage : {t.stage}, reply : {t.reply}]
  BY TaskFacts DEF TaskSound
<1>2. u.reply = reply
  BY <1>1
<1>3. tasks' = (tasks \ {t}) \cup {u}
  BY DEF Move
<1> HIDE DEF u
<1> QED
  BY <1>2, <1>3 DEF RejectsFresh

\* A delivery that begins says nothing yet.
LEMMA BegunReply ==
  ASSUME NEW i, NEW n, tasks' = tasks \cup {Task(i, n)} PROVE RejectsFresh
<1>1. Task(i, n).reply.says = "nothing"
  BY DEF Task, Says
<1> QED
  BY <1>1 DEF RejectsFresh

LEMMA NextRejectsFresh ==
  ASSUME IInv, Next PROVE RejectsFresh
<1>1. ASSUME tasks' \subseteq tasks PROVE RejectsFresh
  BY <1>1 DEF RejectsFresh
<1>2. ASSUME NEW x, Arrive(x) PROVE RejectsFresh
  BY <1>2, BegunReply DEF Arrive
<1>3. ASSUME NEW command \in Commands[scenario], Command(command) PROVE RejectsFresh
  BY <1>2, <1>3 DEF Command
<1>4. ASSUME NEW message, NEW pressed, NEW user, Press(user, message, pressed) PROVE RejectsFresh
  BY <1>2, <1>4 DEF Press
<1>5. ASSUME NEW form, NEW amount, Submit(form, amount) PROVE RejectsFresh
  BY <1>2, <1>5 DEF Submit
<1>6. ASSUME NEW i, Redeliver(i) PROVE RejectsFresh
  BY <1>6, BegunReply DEF Redeliver
<1>7. ASSUME Tick PROVE RejectsFresh
  BY <1>1, <1>7 DEF Tick
<1>8. ASSUME NEW t \in tasks, Handle(t) PROVE RejectsFresh
  <2>1. ASSUME NEW answered \in BOOLEAN, NEW recorded \in BOOLEAN,
               Acknowledge(t, answered, recorded)
        PROVE  RejectsFresh
    <3>1. t.reply.says = "nothing" /\ (tasks' = tasks \ {t} \/ Move(t, "content", t.reply))
      BY <2>1, TaskFacts DEF Acknowledge
    <3> QED
      BY <1>1, <3>1, MovedReply
  <2>2. ASSUME Navigate(t) PROVE RejectsFresh
    <3>1. \A panel : Panel(panel).says # "rejected"
      BY DEF Panel
    <3> QED
      BY <2>2, <3>1, MovedReply DEF Navigate
  <2>3. ASSUME ReadFails(t) \/ ExecuteFails(t) PROVE RejectsFresh
    <3>1. \A key : Says("unavailable", key).says # "rejected"
      BY DEF Says
    <3> QED
      BY <2>3, <3>1, MovedReply DEF ReadFails, ExecuteFails
  <2>4. ASSUME RespondFirst(t) PROVE RejectsFresh
    <3>1. ImmediateReply(t.id).says # "rejected" /\ Move(t, "deliver", ImmediateReply(t.id))
      BY <2>4, TaskFacts, ImmediateReplySound DEF RespondFirst
    <3> QED
      BY <3>1, MovedReply
  <2>5. ASSUME ExecuteRequest(t) PROVE RejectsFresh
    <3>1. PICK evidence \in EvidenceFor(t.id) :
             \/ Refuses(t, evidence)
             \/ \E decision \in Execute(t.id, evidence), refreshed \in BOOLEAN :
                   Accepts(t, decision, refreshed)
      BY <2>5, ExecuteCases
    <3>2. ASSUME Refuses(t, evidence) PROVE RejectsFresh
      <4>1. /\ Move(t, "deliver", Says("rejected", KeyOf(t.id)))
            /\ KeyOf(t.id) \notin DOMAIN receipts
        BY <2>5, <3>2, ExecuteCases, RejectedFresh DEF Refuses
      <4>2. Says("rejected", KeyOf(t.id)).key = KeyOf(t.id)
        BY SaysReply
      <4> QED
        BY <4>1, <4>2, MovedReply
    <3>3. ASSUME NEW decision \in Execute(t.id, evidence), NEW refreshed \in BOOLEAN,
                 Accepts(t, decision, refreshed)
          PROVE  RejectsFresh
      <4> DEFINE reply == Says(IF refreshed THEN "accepted" ELSE "unavailable", KeyOf(t.id))
      <4>1. reply.says # "rejected"
        BY DEF Says
      <4>2. Move(t, "deliver", reply)
        BY <3>3 DEF Accepts
      <4> HIDE DEF reply
      <4> QED
        BY <4>1, <4>2, MovedReply
    <3> QED
      BY <3>1, <3>2, <3>3
  <2>6. ASSUME Deliver(t) \/ DeliveryFails(t) PROVE RejectsFresh
    BY <1>1, <2>6 DEF Deliver, DeliveryFails
  <2> QED
    BY <1>8, <2>1, <2>2, <2>3, <2>4, <2>5, <2>6 DEF Handle
<1> QED
  BY <1>3, <1>4, <1>5, <1>6, <1>7, <1>8 DEF Next

-----------------------------------------------------------------------------
(* Pages: a page of a finite, ordered set holds the ranks between two      *)
(* multiples of its size.                                                  *)

\* A rank is on a page when it lies between the page's first and the next one's.
LEMMA OnItsPage ==
  ASSUME NEW a \in Nat, NEW b \in Nat \ {0}, NEW p \in Nat
  PROVE  a \div b = p <=> b * p <= a /\ a < b * (p + 1)
<1> DEFINE q == a \div b
<1>1. q \in Nat /\ b * q <= a /\ a < b * q + b
  BY DivisionBounds
<1> HIDE DEF q
<1>2. b * (p + 1) = b * p + b /\ b * (q + 1) = b * q + b
  BY <1>1
<1>3. ASSUME b * p <= a, a < b * (p + 1) PROVE q = p
  <2>1. b * p < b * (q + 1) /\ b * q < b * (p + 1)
    BY <1>1, <1>2, <1>3
  <2>2. p < q + 1
    <3>1. ~(q + 1 <= p)
      <4>1. q + 1 <= p => b * (q + 1) <= b * p
        BY <1>1, CancelFactor
      <4> QED
        BY <1>1, <2>1, <4>1
    <3> QED
      BY <1>1, <3>1
  <2>3. q < p + 1
    <3>1. ~(p + 1 <= q)
      <4>1. p + 1 <= q => b * (p + 1) <= b * q
        BY <1>1, CancelFactor
      <4> QED
        BY <1>1, <2>1, <4>1
    <3> QED
      BY <1>1, <3>1
  <2> QED
    BY <1>1, <2>2, <2>3
<1>4. q = p => b * p <= a /\ a < b * (p + 1)
  BY <1>1, <1>2
<1> QED
  BY <1>3, <1>4 DEF q

\* The last page is the one of the last rank.
LEMMA LastPageIs ==
  ASSUME NEW S, IsFiniteSet(S), S # {}
  PROVE  /\ Cardinality(S) \in Nat \ {0} /\ LastPage(S) \in Nat /\ LastPage(S) <= Cardinality(S)
         /\ PageSize * LastPage(S) < Cardinality(S)
         /\ Cardinality(S) <= PageSize * (LastPage(S) + 1)
<1> DEFINE n == Cardinality(S)
           q == (n - 1) \div PageSize
<1>1. n \in Nat \ {0}
  BY FS_CardinalityType, FS_EmptySet
<1>2. PageSize \in Nat \ {0}
  BY PageSizeAssumption
<1> HIDE DEF n
<1>3. q \in Nat /\ PageSize * q <= n - 1 /\ n - 1 < PageSize * q + PageSize
  <2>1. n - 1 \in Nat
    BY <1>1
  <2> QED
    BY <1>2, <2>1, DivisionBounds
<1>4. LastPage(S) = q
  BY DEF LastPage, n
<1> HIDE DEF q
<1>5. PageSize * (q + 1) = PageSize * q + PageSize /\ PageSize * q \in Nat
  BY <1>2, <1>3
<1>6. q <= PageSize * q
  <2>1. 1 * q <= PageSize * q
    <3>1. q * 1 <= q * PageSize
      <4>1. CASE q = 0
        BY <1>2, <4>1
      <4>2. CASE q # 0
        BY <1>2, <1>3, <4>2, CancelFactor
      <4> QED
        BY <4>1, <4>2
    <3> QED
      BY <1>2, <1>3, <3>1
  <2> QED
    BY <1>3, <2>1
<1> QED
  BY <1>1, <1>2, <1>3, <1>4, <1>5, <1>6 DEF n

\* The entries of a page, of a set in the order `before`.
Page(before, S, p) == {x \in S : Cardinality(Ahead(before, S, x)) \div PageSize = p}

\* Every page up to the last has an entry and room for its entries, and every entry a page.
LEMMA PagesPartition ==
  ASSUME NEW S, IsFiniteSet(S), S # {}, NEW before, Orders(before, S)
  PROVE  /\ \A p \in 0 .. LastPage(S) : Cardinality(Page(before, S, p)) \in 1 .. PageSize
         /\ \A x \in S : \E p \in 0 .. LastPage(S) : x \in Page(before, S, p)
<1> DEFINE n == Cardinality(S)
           last == LastPage(S)
           rank(x) == Cardinality(Ahead(before, S, x))
           First(k) == {x \in S : rank(x) < k}
<1>1. /\ n \in Nat \ {0} /\ last \in Nat
      /\ PageSize * last < n /\ n <= PageSize * (last + 1)
  BY LastPageIs
<1>2. PageSize \in Nat \ {0}
  BY PageSizeAssumption
<1>3. \A x \in S : rank(x) \in Nat
  <2>1. \A x : Ahead(before, S, x) \in SUBSET S
    BY DEF Ahead
  <2>2. \A x : IsFiniteSet(Ahead(before, S, x))
    BY <2>1, FS_Subset
  <2> QED
    BY <2>2, FS_CardinalityType
<1>4. ASSUME NEW k \in Nat, k <= n
      PROVE  /\ First(k) \in SUBSET S /\ IsFiniteSet(First(k)) /\ Cardinality(First(k)) = k
  <2>1. First(k) \in SUBSET S
    OBVIOUS
  <2>2. IsFiniteSet(First(k))
    BY <2>1, FS_Subset
  <2>3. Cardinality({x \in S : Cardinality(Ahead(before, S, x)) < k}) = k
    BY <1>4, FirstOnes
  <2> QED
    BY <2>1, <2>2, <2>3
<1> HIDE DEF First
<1> HIDE DEF n, rank
<1>5. \A x \in S : rank(x) < n
  <2>1. First(n) \in SUBSET S /\ Cardinality(First(n)) = n
    <3>1. n \in Nat /\ n <= n
      BY <1>1
    <3> QED
      BY <1>4, <3>1
  <2>2. First(n) = S
    BY <2>1, FS_Subset DEF n
  <2> QED
    BY <2>2 DEF First
<1> HIDE DEF last
<1>6. ASSUME NEW x \in S, NEW p \in Nat
      PROVE  x \in Page(before, S, p) <=> PageSize * p <= rank(x) /\ rank(x) < PageSize * (p + 1)
  BY <1>2, <1>3, OnItsPage DEF Page, rank
<1>7. ASSUME NEW p \in 0 .. last
      PROVE  Cardinality(Page(before, S, p)) \in 1 .. PageSize
  <2> DEFINE low == PageSize * p
             above == PageSize * (p + 1)
             high == IF above <= n THEN above ELSE n
  <2>1. p \in Nat /\ low \in Nat /\ above = low + PageSize
    BY <1>1, <1>2
  <2>2. low < n
    <3>1. PageSize * p <= PageSize * last
      BY <1>1, <1>2, <2>1, CancelFactor
    <3>2. PageSize * last \in Nat
      BY <1>1, <1>2
    <3> QED
      BY <1>1, <2>1, <3>1, <3>2
  <2> HIDE DEF low, above
  <2>3. high \in Nat /\ high <= n /\ low < high /\ high - low \in 1 .. PageSize
    BY <1>1, <1>2, <2>1, <2>2
  <2>4. \A x \in S : rank(x) < above <=> rank(x) < high
    BY <1>1, <1>2, <1>3, <1>5, <2>1
  <2> HIDE DEF high
  <2>5. Page(before, S, p) = First(high) \ First(low)
    <3>1. ASSUME NEW x \in S
          PROVE  x \in Page(before, S, p) <=> ~(rank(x) < low) /\ rank(x) < high
      <4>1. x \in Page(before, S, p) <=> low <= rank(x) /\ rank(x) < above
        BY <1>6, <2>1, <3>1 DEF low, above
      <4>2. low <= rank(x) <=> ~(rank(x) < low)
        BY <1>3, <2>1
      <4> QED
        BY <2>4, <4>1, <4>2
    <3>2. Page(before, S, p) \subseteq S
      BY DEF Page
    <3> QED
      BY <3>1, <3>2 DEF First
  <2>6. First(low) \subseteq First(high)
    BY <1>3, <2>1, <2>3 DEF First
  <2>7. /\ IsFiniteSet(First(high)) /\ Cardinality(First(high)) = high
        /\ IsFiniteSet(First(low)) /\ Cardinality(First(low)) = low
    <3>1. low <= n
      BY <1>1, <2>1, <2>2
    <3> QED
      BY <1>4, <2>1, <2>3, <3>1
  <2>8. Cardinality(First(high) \ First(low)) = high - Cardinality(First(high) \cap First(low))
    BY <2>7, FS_Difference
  <2>9. First(high) \cap First(low) = First(low)
    BY <2>6
  <2> QED
    BY <2>3, <2>5, <2>7, <2>8, <2>9
<1>8. ASSUME NEW x \in S PROVE \E p \in 0 .. last : x \in Page(before, S, p)
  <2> DEFINE p == rank(x) \div PageSize
  <2>1. p \in Nat /\ PageSize * p <= rank(x) /\ rank(x) \in Nat /\ rank(x) < n
    BY <1>2, <1>3, <1>5, DivisionBounds
  <2>2. x \in Page(before, S, p)
    BY DEF Page, rank
  <2> HIDE DEF p
  <2>3. p < last + 1
    <3>1. ~(last + 1 <= p)
      <4>1. last + 1 <= p => PageSize * (last + 1) <= PageSize * p
        BY <1>1, <1>2, <2>1, CancelFactor
      <4>2. PageSize * (last + 1) \in Nat /\ PageSize * p \in Nat
        BY <1>1, <1>2, <2>1
      <4> QED
        BY <1>1, <2>1, <4>1, <4>2
    <3> QED
      BY <1>1, <2>1, <3>1
  <2> QED
    BY <1>1, <2>1, <2>2, <2>3
<1> QED
  BY <1>7, <1>8 DEF last

\* What a picker must show for its pages to reach every entry.
Shows(panel, before, S, p) ==
    /\ Offered(panel) = Page(before, S, Clamp(S, p))
    /\ 0 < p /\ p <= LastPage(S) => p - 1 \in Turning(panel)
    /\ p < LastPage(S) => p + 1 \in Turning(panel)

LEMMA PagesReach ==
  ASSUME NEW S, IsFiniteSet(S), NEW before, Orders(before, S),
         NEW N \in Nat, Cardinality(S) <= N, NEW picker, DOMAIN picker = 0 .. N,
         S # {} => \A p \in 0 .. N : Shows(picker[p], before, S, p)
  PROVE  Reaches(picker, S)
<1> SUFFICES ASSUME S # {}
             PROVE  /\ \A p \in DOMAIN picker : Cardinality(Offered(picker[p])) \in 1 .. PageSize
                    /\ UNION {Offered(picker[p]) : p \in DOMAIN picker} = S
                    /\ \A p \in 1 .. LastPage(S) :
                          p \in Turning(picker[p - 1]) /\ p - 1 \in Turning(picker[p])
  BY DEF Reaches
<1> DEFINE last == LastPage(S)
<1>1. last \in Nat /\ last <= N
  <2>1. last \in Nat /\ last <= Cardinality(S) /\ Cardinality(S) \in Nat
    BY LastPageIs
  <2> QED
    BY <2>1
<1>2. \A p \in 0 .. last : Cardinality(Page(before, S, p)) \in 1 .. PageSize
  BY PagesPartition
<1>3. \A x \in S : \E p \in 0 .. last : x \in Page(before, S, p)
  BY PagesPartition
<1>4. \A p \in 0 .. N : Clamp(S, p) \in 0 .. last /\ (p <= last => Clamp(S, p) = p)
  BY <1>1 DEF Clamp
<1>5. \A p \in 0 .. N : Offered(picker[p]) = Page(before, S, Clamp(S, p))
  BY DEF Shows
<1>6. \A p \in 1 .. last : p \in Turning(picker[p - 1]) /\ p - 1 \in Turning(picker[p])
  <2> TAKE p \in 1 .. last
  <2>1. p \in 0 .. N /\ p - 1 \in 0 .. N /\ 0 < p /\ p - 1 < last /\ p <= last /\ (p - 1) + 1 = p
    BY <1>1
  <2>2. Shows(picker[p], before, S, p) /\ Shows(picker[p - 1], before, S, p - 1)
    BY <2>1
  <2>3. p - 1 \in Turning(picker[p])
    BY <2>1, <2>2 DEF Shows
  <2>4. (p - 1) + 1 \in Turning(picker[p - 1])
    BY <2>1, <2>2 DEF Shows
  <2> QED
    BY <2>1, <2>3, <2>4
<1>7. \A p \in DOMAIN picker : Cardinality(Offered(picker[p])) \in 1 .. PageSize
  BY <1>2, <1>4, <1>5
<1>8. UNION {Offered(picker[p]) : p \in DOMAIN picker} = S
  <2>1. \A p \in DOMAIN picker : Offered(picker[p]) \subseteq S
    BY <1>5 DEF Page
  <2>2. ASSUME NEW x \in S PROVE \E p \in DOMAIN picker : x \in Offered(picker[p])
    <3>1. PICK p \in 0 .. last : x \in Page(before, S, p)
      BY <1>3
    <3>2. p \in 0 .. N /\ Clamp(S, p) = p
      BY <1>1, <1>4, <3>1
    <3> QED
      BY <1>5, <3>1, <3>2
  <2> QED
    BY <2>1, <2>2
<1> QED
  BY <1>6, <1>7, <1>8

\* The two orders of the menus.
ByIds(S) == {e \in S \X S : e[1] < e[2]}
ByClosings(s, S) ==
    LET closes(m) == s.markets[m].closes_at
    IN  {e \in S \X S : \/ closes(e[1]) < closes(e[2])
                        \/ closes(e[1]) = closes(e[2]) /\ e[1] < e[2]}

LEMMA OrdersById ==
  ASSUME NEW S \in SUBSET Nat
  PROVE  /\ Orders(ByIds(S), S)
         /\ \A s, p : OnPage(s, S, p, ById) = Page(ByIds(S), S, p)
<1>1. \A y, x \in S : <<y, x>> \in ByIds(S) <=> y < x
  BY DEF ByIds
<1>2. Orders(ByIds(S), S)
  BY <1>1 DEF Orders
<1>3. \A s : \A x \in S : Cardinality(Ahead(ByIds(S), S, x)) = ById(s, S, x)
  BY <1>1 DEF Ahead, ById
<1> QED
  BY <1>2, <1>3 DEF OnPage, Page

LEMMA OrdersByClosing ==
  ASSUME NEW S \in SUBSET Nat, NEW s, \A m \in S : s.markets[m].closes_at \in Int
  PROVE  /\ Orders(ByClosings(s, S), S)
         /\ \A p : OnPage(s, S, p, ByClosing) = Page(ByClosings(s, S), S, p)
<1> DEFINE closes(m) == s.markets[m].closes_at
<1>1. \A y, x \in S : <<y, x>> \in ByClosings(s, S) <=>
          closes(y) < closes(x) \/ (closes(y) = closes(x) /\ y < x)
  BY DEF ByClosings
<1>2. \A m \in S : closes(m) \in Int /\ m \in Nat
  OBVIOUS
<1>3. \A x \in S : Cardinality(Ahead(ByClosings(s, S), S, x)) = ByClosing(s, S, x)
  BY <1>1 DEF Ahead, ByClosing
<1> HIDE DEF closes
<1> DEFINE before == ByClosings(s, S)
<1>4. \A y, x \in S : <<y, x>> \in before <=> closes(y) < closes(x) \/ (closes(y) = closes(x) /\ y < x)
  BY <1>1
<1> HIDE DEF before
<1>5. \A x \in S : <<x, x>> \notin before
  BY <1>2, <1>4
<1>6. \A x, y \in S : x # y => <<x, y>> \in before \/ <<y, x>> \in before
  BY <1>2, <1>4
<1>7. \A x, y, z \in S : <<x, y>> \in before /\ <<y, z>> \in before => <<x, z>> \in before
  BY <1>2, <1>4
<1>8. Orders(ByClosings(s, S), S)
  BY <1>5, <1>6, <1>7 DEF Orders, before
<1> QED
  BY <1>3, <1>8 DEF OnPage, Page

\* What a menu with its buttons offers and turns to.
LEMMA MenuShows ==
  ASSUME NEW S, IsFiniteSet(S), S # {}, NEW before, NEW p \in Nat, NEW panel,
         \A m \in Page(before, S, Clamp(S, p)) : \E c \in panel : c[2] = "market" /\ c[3] = m,
         \A c \in panel : c[2] = "market" => c[3] \in Page(before, S, Clamp(S, p)),
         Clamp(S, p) > 0 => \E c \in panel : c[2] = "page" /\ c[3] = Clamp(S, p) - 1,
         Clamp(S, p) < LastPage(S) => \E c \in panel : c[2] = "page" /\ c[3] = Clamp(S, p) + 1
  PROVE  Shows(panel, before, S, p)
<1>1. LastPage(S) \in Nat
  BY LastPageIs
<1>2. p <= LastPage(S) => Clamp(S, p) = p
  BY <1>1 DEF Clamp
<1>3. Offered(panel) = Page(before, S, Clamp(S, p))
  BY DEF Offered
<1>4. 0 < p /\ p <= LastPage(S) => p - 1 \in Turning(panel)
  BY <1>2 DEF Turning
<1>5. p < LastPage(S) => p + 1 \in Turning(panel)
  BY <1>1, <1>2 DEF Turning
<1> QED
  BY <1>3, <1>4, <1>5 DEF Shows

LEMMA BetPickerShows ==
  ASSUME NEW s, NEW now0, NEW before, NEW p \in Nat,
         IsFiniteSet(BettingMarkets(s, now0)), BettingMarkets(s, now0) # {},
         \A q : OnPage(s, BettingMarkets(s, now0), q, ByClosing)
                    = Page(before, BettingMarkets(s, now0), q)
  PROVE  Shows(BetPicker(s, now0, p), before, BettingMarkets(s, now0), p)
<1> DEFINE S == BettingMarkets(s, now0)
           page == Clamp(S, p)
           panel == BetPicker(s, now0, p)
<1>1. panel = {<<"bet", "market", m>> : m \in Page(before, S, page)}
               \cup Optional(page > 0, <<"bet", "page", page - 1>>)
               \cup Optional(page < LastPage(S), <<"bet", "page", page + 1>>) \cup {<<"bet", "cancel">>}
  BY DEF BetPicker, Turns
<1> HIDE DEF S, page, panel
<1>2. \A m \in Page(before, S, page) : \E c \in panel : c[2] = "market" /\ c[3] = m
  <2>1. \A m \in Page(before, S, page) : <<"bet", "market", m>> \in panel
    BY <1>1
  <2> QED
    BY <2>1
<1>3. \A c \in panel : c[2] = "market" => c[3] \in Page(before, S, page)
  BY <1>1 DEF Optional
<1>4. page > 0 => \E c \in panel : c[2] = "page" /\ c[3] = page - 1
  <2>1. page > 0 => <<"bet", "page", page - 1>> \in panel
    BY <1>1 DEF Optional
  <2> QED
    BY <2>1
<1>5. page < LastPage(S) => \E c \in panel : c[2] = "page" /\ c[3] = page + 1
  <2>1. page < LastPage(S) => <<"bet", "page", page + 1>> \in panel
    BY <1>1 DEF Optional
  <2> QED
    BY <2>1
<1> QED
  BY <1>2, <1>3, <1>4, <1>5, MenuShows DEF S, page, panel

LEMMA ResolvePickerShows ==
  ASSUME NEW s, NEW actor, NEW now0, NEW before, NEW p \in Nat,
         IsFiniteSet(ResolvableMarkets(s, actor, now0)), ResolvableMarkets(s, actor, now0) # {},
         \A q : OnPage(s, ResolvableMarkets(s, actor, now0), q, ByClosing)
                    = Page(before, ResolvableMarkets(s, actor, now0), q)
  PROVE  Shows(ResolvePicker(s, actor, now0, p), before, ResolvableMarkets(s, actor, now0), p)
<1> DEFINE S == ResolvableMarkets(s, actor, now0)
           page == Clamp(S, p)
           panel == ResolvePicker(s, actor, now0, p)
<1>1. panel = {<<"resolve", "market", m, page>> : m \in Page(before, S, page)}
               \cup Optional(page > 0, <<"resolve", "page", page - 1>>)
               \cup Optional(page < LastPage(S), <<"resolve", "page", page + 1>>)
  BY DEF ResolvePicker, Turns
<1> HIDE DEF S, page, panel
<1>2. \A m \in Page(before, S, page) : \E c \in panel : c[2] = "market" /\ c[3] = m
  <2>1. \A m \in Page(before, S, page) : <<"resolve", "market", m, page>> \in panel
    BY <1>1
  <2> QED
    BY <2>1
<1>3. \A c \in panel : c[2] = "market" => c[3] \in Page(before, S, page)
  BY <1>1 DEF Optional
<1>4. page > 0 => \E c \in panel : c[2] = "page" /\ c[3] = page - 1
  <2>1. page > 0 => <<"resolve", "page", page - 1>> \in panel
    BY <1>1 DEF Optional
  <2> QED
    BY <2>1
<1>5. page < LastPage(S) => \E c \in panel : c[2] = "page" /\ c[3] = page + 1
  <2>1. page < LastPage(S) => <<"resolve", "page", page + 1>> \in panel
    BY <1>1 DEF Optional
  <2> QED
    BY <2>1
<1> QED
  BY <1>2, <1>3, <1>4, <1>5, MenuShows DEF S, page, panel

\* Before a member is selected, the menu of markets starts where it was asked to.
LEMMA ManagePickerShows ==
  ASSUME NEW s, NEW actor, NEW user, NEW before, NEW p \in Nat,
         IsFiniteSet(ManageableMarkets(s, actor)), ManageableMarkets(s, actor) # {},
         Nobody \notin ManageableMarkets(s, actor),
         \A q : OnPage(s, ManageableMarkets(s, actor), q, ById)
                    = Page(before, ManageableMarkets(s, actor), q)
  PROVE  Shows(ManagePicker("add", s, actor, p, user, Nobody), before,
               ManageableMarkets(s, actor), p)
<1> DEFINE S == ManageableMarkets(s, actor)
           page == Clamp(S, p)
           panel == ManagePicker("add", s, actor, p, user, Nobody)
<1>1. panel = {<<"add", "market", m, user>> : m \in Page(before, S, page)}
               \cup Optional(page > 0, <<"add", "page", page - 1, user>>)
               \cup Optional(page < LastPage(S), <<"add", "page", page + 1, user>>)
  BY DEF ManagePicker, PageAround, Turns
<1> HIDE DEF S, page, panel
<1>2. \A m \in Page(before, S, page) : \E c \in panel : c[2] = "market" /\ c[3] = m
  <2>1. \A m \in Page(before, S, page) : <<"add", "market", m, user>> \in panel
    BY <1>1
  <2> QED
    BY <2>1
<1>3. \A c \in panel : c[2] = "market" => c[3] \in Page(before, S, page)
  BY <1>1 DEF Optional
<1>4. page > 0 => \E c \in panel : c[2] = "page" /\ c[3] = page - 1
  <2>1. page > 0 => <<"add", "page", page - 1, user>> \in panel
    BY <1>1 DEF Optional
  <2> QED
    BY <2>1
<1>5. page < LastPage(S) => \E c \in panel : c[2] = "page" /\ c[3] = page + 1
  <2>1. page < LastPage(S) => <<"add", "page", page + 1, user>> \in panel
    BY <1>1 DEF Optional
  <2> QED
    BY <2>1
<1> QED
  BY <1>2, <1>3, <1>4, <1>5, MenuShows DEF S, page, panel

LEMMA AssignmentsPickerShows ==
  ASSUME NEW s, NEW before, NEW p \in Nat,
         IsFiniteSet(DOMAIN s.markets), DOMAIN s.markets # {},
         \A q : OnPage(s, DOMAIN s.markets, q, ById) = Page(before, DOMAIN s.markets, q)
  PROVE  Shows(AssignmentsPicker(s, p), before, DOMAIN s.markets, p)
<1> DEFINE S == DOMAIN s.markets
           page == Clamp(S, p)
           panel == AssignmentsPicker(s, p)
<1>1. panel = {<<"assignments", "market", m, 0>> : m \in Page(before, S, page)}
               \cup Optional(page > 0, <<"assignments", "page", page - 1>>)
               \cup Optional(page < LastPage(S), <<"assignments", "page", page + 1>>)
  BY DEF AssignmentsPicker, Turns
<1> HIDE DEF S, page, panel
<1>2. \A m \in Page(before, S, page) : \E c \in panel : c[2] = "market" /\ c[3] = m
  <2>1. \A m \in Page(before, S, page) : <<"assignments", "market", m, 0>> \in panel
    BY <1>1
  <2> QED
    BY <2>1
<1>3. \A c \in panel : c[2] = "market" => c[3] \in Page(before, S, page)
  BY <1>1 DEF Optional
<1>4. page > 0 => \E c \in panel : c[2] = "page" /\ c[3] = page - 1
  <2>1. page > 0 => <<"assignments", "page", page - 1>> \in panel
    BY <1>1 DEF Optional
  <2> QED
    BY <2>1
<1>5. page < LastPage(S) => \E c \in panel : c[2] = "page" /\ c[3] = page + 1
  <2>1. page < LastPage(S) => <<"assignments", "page", page + 1>> \in panel
    BY <1>1 DEF Optional
  <2> QED
    BY <2>1
<1> QED
  BY <1>2, <1>3, <1>4, <1>5, MenuShows DEF S, page, panel

-----------------------------------------------------------------------------
(* The markets a picker can list: numbers with a closing time.  This much  *)
(* of IsState needs nothing of what members enter.                         *)

Timed(market) == "closes_at" \in DOMAIN market /\ market.closes_at \in Int

Listing(s) ==
    /\ s = [policy |-> s.policy, accounts |-> s.accounts, markets |-> s.markets]
    /\ s.markets = [m \in DOMAIN s.markets |-> s.markets[m]]
    /\ DOMAIN s.markets \subseteq Markets
    /\ \A m \in DOMAIN s.markets : Timed(s.markets[m])

LEMMA StateLists ==
  ASSUME NEW s, IsState(s) PROVE Listing(s)
<1>1. /\ s = [policy |-> s.policy, accounts |-> s.accounts, markets |-> s.markets]
      /\ DOMAIN s.markets \subseteq Markets /\ s.markets \in [DOMAIN s.markets -> Market]
  BY DEF IsState, IsMap
<1>2. \A market \in Market : Timed(market)
  BY I64MaxAssumption DEF Market, Timed, Time
<1> QED
  BY <1>1, <1>2 DEF Listing

\* A state whose accounts or policy change keeps its markets.
LEMMA SameMarkets ==
  ASSUME NEW s, Listing(s), NEW r,
         r = [policy |-> r.policy, accounts |-> r.accounts, markets |-> s.markets]
  PROVE  Listing(r)
<1>1. r.markets = s.markets
  OBVIOUS
<1> QED
  BY <1>1 DEF Listing

\* Neither does a market that is new or that keeps its closing time disturb them.
LEMMA OneMarket ==
  ASSUME NEW s, Listing(s), NEW id \in Markets, NEW market, Timed(market), NEW r,
         r = [policy |-> s.policy, accounts |-> r.accounts,
              markets |-> [m \in DOMAIN s.markets \cup {id} |->
                              IF m = id THEN market ELSE s.markets[m]]]
  PROVE  Listing(r)
<1> DEFINE markets == [m \in DOMAIN s.markets \cup {id} |-> IF m = id THEN market ELSE s.markets[m]]
<1>1. /\ DOMAIN markets = DOMAIN s.markets \cup {id}
      /\ markets = [m \in DOMAIN markets |-> markets[m]]
      /\ \A m \in DOMAIN markets : Timed(markets[m])
  BY DEF Listing
<1> HIDE DEF markets
<1>2. r.markets = markets /\ r.policy = s.policy
  BY DEF markets
<1>3. r = [policy |-> r.policy, accounts |-> r.accounts, markets |-> r.markets]
  BY <1>2 DEF markets
<1> QED
  BY <1>1, <1>2, <1>3 DEF Listing

\* EXCEPT on one market, written as the insertion OneMarket is about.
LEMMA ExceptMarket ==
  ASSUME NEW s, Listing(s), NEW id \in DOMAIN s.markets, NEW market
  PROVE  [s.markets EXCEPT ![id] = market]
             = [m \in DOMAIN s.markets \cup {id} |-> IF m = id THEN market ELSE s.markets[m]]
  BY DEF Listing

EventTypes ==
    {"AnnouncementsEnabled", "GuildEconomyInitialized", "MemberEnrolled", "PointsGranted",
     "MarketCreated", "BetPlaced", "MarketResolved", "MarketResolverAdded",
     "MarketResolverRemoved", "MarketCancelled"}

\* A market's stakes, settlement and resolvers leave its closing time alone.
LEMMA TimedKept ==
  ASSUME NEW market, Timed(market), NEW e
  PROVE  /\ Timed(Staked(market, e))
         /\ Timed([market EXCEPT !.status = "Resolved", !.outcome = e.outcome,
                                 !.refunded = e.refunded, !.payouts = e.payouts])
         /\ \A v : Timed([market EXCEPT !.resolvers = v])
         /\ \A v : Timed([market EXCEPT !.status = v])
<1>1. Timed(Staked(market, e))
  BY DEF Timed, Staked
<1>2. Timed([market EXCEPT !.status = "Resolved", !.outcome = e.outcome,
                           !.refunded = e.refunded, !.payouts = e.payouts])
  BY DEF Timed
<1>3. \A v : Timed([market EXCEPT !.resolvers = v])
  BY DEF Timed
<1>4. \A v : Timed([market EXCEPT !.status = v])
  BY DEF Timed
<1> QED
  BY <1>1, <1>2, <1>3, <1>4

LEMMA EffectLists ==
  ASSUME NEW s, Listing(s), NEW e, e.type \in EventTypes, Applicable(s, e),
         e.type = "MarketCreated" => e.id \in Markets /\ e.closes_at \in Int
  PROVE  Listing(Effect(s, e))
<1>1. s = [policy |-> s.policy, accounts |-> s.accounts, markets |-> s.markets]
  BY DEF Listing
<1>2. \A id \in DOMAIN s.markets : id \in Markets /\ Timed(s.markets[id])
  BY DEF Listing
<1>3. CASE e.type = "AnnouncementsEnabled"
  BY <1>3 DEF Effect
<1>4. CASE e.type = "GuildEconomyInitialized"
  <2>1. Effect(s, e) = [policy |-> e.policy, accounts |-> s.accounts, markets |-> s.markets]
    BY <1>1, <1>4 DEF Effect
  <2> QED
    BY <2>1, SameMarkets
<1>5. CASE e.type = "MemberEnrolled"
  <2>1. Effect(s, e) = ApplyEnrollment(s, e)
    BY <1>5 DEF Effect
  <2>2. ApplyEnrollment(s, e)
            = [policy |-> s.policy, markets |-> s.markets,
               accounts |-> Insert(s.accounts, e.user, [balance |-> 0, next_grant |-> e.enrolled_at])]
    BY <1>1 DEF ApplyEnrollment
  <2> QED
    BY <2>1, <2>2, SameMarkets
<1>6. CASE e.type = "PointsGranted"
  <2>1. Effect(s, e) = ApplyGrant(s, e)
    BY <1>6 DEF Effect
  <2>2. ApplyGrant(s, e)
            = [policy |-> s.policy, markets |-> s.markets,
               accounts |-> [s.accounts EXCEPT ![e.user] =
                   [balance |-> @.balance + e.amount, next_grant |-> e.next_grant]]]
    BY <1>1 DEF ApplyGrant
  <2> QED
    BY <2>1, <2>2, SameMarkets
<1>7. CASE e.type = "MarketCreated"
  <2>1. Effect(s, e) = [s EXCEPT !.markets = Insert(@, e.id, NewMarket(e))]
    BY <1>7 DEF Effect
  <2>2. Effect(s, e) = [policy |-> s.policy, accounts |-> s.accounts,
                        markets |-> Insert(s.markets, e.id, NewMarket(e))]
    BY <1>1, <2>1
  <2>3. Timed(NewMarket(e)) /\ e.id \in Markets
    BY <1>7 DEF Timed, NewMarket
  <2> QED
    BY <2>2, <2>3, OneMarket DEF Insert
<1>8. CASE e.type = "BetPlaced"
  <2>1. Effect(s, e) = ApplyBet(s, e) /\ e.id \in DOMAIN s.markets
    BY <1>8 DEF Effect, Applicable, CanBet
  <2>2. ApplyBet(s, e)
            = [policy |-> s.policy,
               accounts |-> [s.accounts EXCEPT ![e.user] = Debited(@, e)],
               markets |-> [s.markets EXCEPT ![e.id] = Staked(s.markets[e.id], e)]]
    BY <1>1, <2>1 DEF ApplyBet, Listing
  <2>3. Timed(Staked(s.markets[e.id], e)) /\ e.id \in Markets
    BY <1>2, <2>1, TimedKept
  <2> QED
    BY <2>1, <2>2, <2>3, OneMarket, ExceptMarket
<1>9. CASE e.type = "MarketResolved"
  <2> DEFINE after == [s.markets[e.id] EXCEPT !.status = "Resolved", !.outcome = e.outcome,
                                              !.refunded = e.refunded, !.payouts = e.payouts]
  <2>1. Effect(s, e) = ApplyResolution(s, e) /\ e.id \in DOMAIN s.markets
    BY <1>9 DEF Effect, Applicable, CanResolve
  <2>2. ApplyResolution(s, e)
            = [policy |-> s.policy, accounts |-> Credit(s.accounts, e.payouts),
               markets |-> [s.markets EXCEPT ![e.id] = after]]
    BY <1>1, <2>1 DEF ApplyResolution, Listing
  <2>3. Timed(after) /\ e.id \in Markets
    BY <1>2, <2>1, TimedKept
  <2> HIDE DEF after
  <2> QED
    BY <2>1, <2>2, <2>3, OneMarket, ExceptMarket
<1>10. CASE e.type \in {"MarketResolverAdded", "MarketResolverRemoved"}
  <2>1. Effect(s, e) = ApplyResolverChange(s, e) /\ e.id \in DOMAIN s.markets
    BY <1>10 DEF Effect, Applicable, CanChangeResolver
  <2>2. \E v : ApplyResolverChange(s, e)
                 = [policy |-> s.policy, accounts |-> s.accounts,
                    markets |-> [s.markets EXCEPT ![e.id] =
                                    [s.markets[e.id] EXCEPT !.resolvers = v]]]
    <3> DEFINE old == s.markets[e.id].resolvers
               v == IF e.type = "MarketResolverAdded" THEN old \cup {e.user} ELSE old \ {e.user}
    <3>1. ApplyResolverChange(s, e)
              = [s EXCEPT !.markets = [s.markets EXCEPT ![e.id] =
                                          [s.markets[e.id] EXCEPT !.resolvers = v]]]
      BY DEF ApplyResolverChange
    <3> HIDE DEF v
    <3> QED
      BY <1>1, <3>1
  <2>3. e.id \in Markets /\ \A v : Timed([s.markets[e.id] EXCEPT !.resolvers = v])
    BY <1>2, <2>1, TimedKept
  <2> QED
    BY <2>1, <2>2, <2>3, OneMarket, ExceptMarket
<1>11. CASE e.type = "MarketCancelled"
  <2>1. Effect(s, e) = ApplyCancellation(s, e) /\ e.id \in DOMAIN s.markets
    BY <1>11 DEF Effect, Applicable, CanCancel
  <2>2. ApplyCancellation(s, e)
            = [policy |-> s.policy, accounts |-> Credit(s.accounts, e.refunds),
               markets |-> [s.markets EXCEPT ![e.id] =
                               [s.markets[e.id] EXCEPT !.status = "Cancelled"]]]
    BY <1>1, <2>1 DEF ApplyCancellation, Listing
  <2>3. Timed([s.markets[e.id] EXCEPT !.status = "Cancelled"]) /\ e.id \in Markets
    BY <1>2, <2>1, TimedKept
  <2> QED
    BY <2>1, <2>2, <2>3, OneMarket, ExceptMarket
<1> QED
  BY <1>3, <1>4, <1>5, <1>6, <1>7, <1>8, <1>9, <1>10, <1>11 DEF EventTypes

\* An accepted decision keeps the markets listable, whatever a command names.
CommandOps ==
    {"Join", "Grant", "Create", "Bet", "Resolve", "AddResolver", "RemoveResolver", "Cancel"}

LEMMA FinishLists ==
  ASSUME NEW s, Listing(s), NEW e, e.type \in EventTypes, NEW events \in Finish(s, <<e>>),
         e.type = "MarketCreated" => e.id \in Markets /\ e.closes_at \in Int
  PROVE  Listing(ApplyDecision(s, events))
  BY FinishOne, EffectLists

LEMMA JoinLists ==
  ASSUME NEW s, Listing(s), NEW actor, NEW now0, NEW defaults,
         NEW events \in DecideJoin(s, actor, now0, defaults)
  PROVE  Listing(ApplyDecision(s, events))
<1> DEFINE policy == IF s.policy = NoPolicy THEN defaults ELSE s.policy
           initialized == [type |-> "GuildEconomyInitialized", policy |-> policy]
           enrolled == [type |-> "MemberEnrolled", user |-> actor.user, enrolled_at |-> now0]
           granted == [type |-> "PointsGranted", user |-> actor.user, reason |-> "Initial",
                       amount |-> policy.amount, from_due |-> now0, through_due |-> now0,
                       next_grant |-> now0 + policy.interval]
<1>1. \/ events \in Finish(s, << >>)
      \/ events \in Finish(s, <<initialized, enrolled, granted>>)
      \/ events \in Finish(s, <<enrolled, granted>>)
  BY DEF DecideJoin
<1>2. /\ initialized.type = "GuildEconomyInitialized" /\ enrolled.type = "MemberEnrolled"
      /\ granted.type = "PointsGranted"
  OBVIOUS
<1> HIDE DEF initialized, enrolled, granted
<1>3. \A r, e : Listing(r) /\ e \in {initialized, enrolled, granted} /\ Applicable(r, e)
                    => Listing(Effect(r, e))
  BY <1>2, EffectLists DEF EventTypes
<1>4. CASE events \in Finish(s, << >>)
  BY <1>4, FinishNone
<1>5. CASE events \in Finish(s, <<initialized, enrolled, granted>>)
  BY <1>3, <1>5, FinishThree
<1>6. CASE events \in Finish(s, <<enrolled, granted>>)
  BY <1>3, <1>6, FinishTwo
<1> QED
  BY <1>1, <1>4, <1>5, <1>6

LEMMA GrantLists ==
  ASSUME NEW s, Listing(s), NEW actor, NEW user, NEW now0,
         NEW events \in DecideGrant(s, actor, user, now0)
  PROVE  Listing(ApplyDecision(s, events))
<1> DEFINE e == DueGrant(s, user, now0)
<1>1. e.type = "PointsGranted"
  BY DEF DueGrant
<1>2. events \in Finish(s, << >>) \/ events \in Finish(s, <<e>>)
  BY DEF DecideGrant
<1> HIDE DEF e
<1> QED
  BY <1>1, <1>2, FinishNone, FinishLists DEF EventTypes

LEMMA CreateLists ==
  ASSUME NEW s, Listing(s), NEW actor, NEW id \in Markets, NEW options, NEW closes_at \in Int,
         NEW now0, NEW events \in DecideCreate(s, actor, id, options, closes_at, now0)
  PROVE  Listing(ApplyDecision(s, events))
<1> DEFINE e == [type |-> "MarketCreated", id |-> id, creator |-> actor.user,
                 options |-> options, created_at |-> now0, closes_at |-> closes_at]
<1>1. e.type = "MarketCreated" /\ e.id = id /\ e.closes_at = closes_at
  OBVIOUS
<1>2. events \in Finish(s, <<e>>)
  BY DEF DecideCreate
<1> HIDE DEF e
<1> QED
  BY <1>1, <1>2, FinishLists DEF EventTypes

LEMMA BetLists ==
  ASSUME NEW s, Listing(s), NEW actor, NEW id, NEW outcome, NEW amount, NEW now0,
         NEW events \in DecideBet(s, actor, id, outcome, amount, now0)
  PROVE  Listing(ApplyDecision(s, events))
<1> DEFINE e == [type |-> "BetPlaced", id |-> id, user |-> actor.user,
                 outcome |-> outcome, amount |-> amount, accepted_at |-> now0]
<1>1. e.type = "BetPlaced"
  OBVIOUS
<1>2. events \in Finish(s, <<e>>)
  BY DEF DecideBet
<1> HIDE DEF e
<1> QED
  BY <1>1, <1>2, FinishLists DEF EventTypes

LEMMA ResolveLists ==
  ASSUME NEW s, Listing(s), NEW actor, NEW id, NEW outcome, NEW now0, NEW membership,
         NEW events \in DecideResolve(s, actor, id, outcome, now0, membership)
  PROVE  Listing(ApplyDecision(s, events))
<1> DEFINE e == [type |-> "MarketResolved", id |-> id, outcome |-> outcome,
                 resolver |-> actor.user, settled_at |-> now0,
                 payouts |-> Payouts(s.markets[id], outcome),
                 refunded |-> NoWinners(s.markets[id], outcome)]
<1>1. e.type = "MarketResolved"
  OBVIOUS
<1>2. events \in Finish(s, <<e>>)
  BY DEF DecideResolve
<1> HIDE DEF e
<1> QED
  BY <1>1, <1>2, FinishLists DEF EventTypes

LEMMA ResolverLists ==
  ASSUME NEW s, Listing(s), NEW actor, NEW id, NEW user, NEW now0, NEW membership, NEW events,
         \/ events \in DecideAddResolver(s, actor, id, user, now0, membership)
         \/ events \in DecideRemoveResolver(s, actor, id, user, now0)
  PROVE  Listing(ApplyDecision(s, events))
<1> DEFINE added == [type |-> "MarketResolverAdded", id |-> id, user |-> user,
                     by |-> actor.user, at |-> now0]
           removed == [type |-> "MarketResolverRemoved", id |-> id, user |-> user,
                       by |-> actor.user, at |-> now0]
<1>1. added.type = "MarketResolverAdded" /\ removed.type = "MarketResolverRemoved"
  OBVIOUS
<1>2. \/ events \in Finish(s, << >>) \/ events \in Finish(s, <<added>>)
      \/ events \in Finish(s, <<removed>>)
  BY DEF DecideAddResolver, DecideRemoveResolver
<1> HIDE DEF added, removed
<1> QED
  BY <1>1, <1>2, FinishNone, FinishLists DEF EventTypes

LEMMA CancelLists ==
  ASSUME NEW s, Listing(s), NEW actor, NEW id, NEW now0,
         NEW events \in DecideCancel(s, actor, id, now0)
  PROVE  Listing(ApplyDecision(s, events))
<1> DEFINE e == [type |-> "MarketCancelled", id |-> id, moderator |-> actor.user,
                 cancelled_at |-> now0, refunds |-> AllStakes(s.markets[id])]
<1>1. e.type = "MarketCancelled"
  OBVIOUS
<1>2. events \in Finish(s, <<e>>)
  BY DEF DecideCancel
<1> HIDE DEF e
<1> QED
  BY <1>1, <1>2, FinishLists DEF EventTypes

LEMMA DecisionLists ==
  ASSUME NEW s, Listing(s), NEW actor, NEW command, command.op \in CommandOps,
         command.op = "Create" => command.id \in Markets /\ command.closes_at \in Int,
         NEW now0, NEW defaults, NEW membership,
         NEW events \in Decide(s, actor, command, now0, defaults, membership)
  PROVE  Listing(ApplyDecision(s, events))
<1>1. CASE command.op = "Join"
  BY <1>1, JoinLists DEF Decide
<1>2. CASE command.op = "Grant"
  BY <1>2, GrantLists DEF Decide
<1>3. CASE command.op = "Create"
  BY <1>3, CreateLists DEF Decide
<1>4. CASE command.op = "Bet"
  BY <1>4, BetLists DEF Decide
<1>5. CASE command.op = "Resolve"
  BY <1>5, ResolveLists DEF Decide
<1>6. CASE command.op = "AddResolver"
  BY <1>6, ResolverLists DEF Decide
<1>7. CASE command.op = "RemoveResolver"
  BY <1>7, ResolverLists DEF Decide
<1>8. CASE command.op = "Cancel"
  BY <1>8, CancelLists DEF Decide
<1> QED
  BY <1>1, <1>2, <1>3, <1>4, <1>5, <1>6, <1>7, <1>8 DEF CommandOps

\* The committed markets can be listed; times and stakes are numbers.
Listable ==
    /\ Listing(guild)
    /\ now \in Int
    /\ \A i \in 1 .. Len(interactions) :
            interactions[i].at \in Int /\ interactions[i].amount \in Int

\* A new market gets an identifier that is free, and a closing time.
LEMMA CommandKnown ==
  ASSUME IInv, Listable, NEW i \in 1 .. Len(interactions),
         CommandOf(i).op = "Create" => DOMAIN guild.markets # Markets
  PROVE  /\ CommandOf(i).op \in CommandOps
         /\ CommandOf(i).op = "Create"
                => CommandOf(i).id \in Markets /\ CommandOf(i).closes_at \in Int
<1> DEFINE r == interactions[i].request
           command == CommandOf(i)
<1>1. command.op \in CommandOps
  BY DEF CommandOf, CreateCommand, CommandOps
<1>2. command.op = "Create" => command = CreateCommand(i)
  BY DEF CommandOf
<1>3. CreateCommand(i).closes_at \in Int
  BY DEF CreateCommand, Listable
<1>4. DOMAIN guild.markets # Markets => CreateCommand(i).id \in Markets
  <2>1. DOMAIN guild.markets # Markets => \E m \in Markets : m \notin DOMAIN guild.markets
    BY DEF Listable, Listing
  <2>2. CreateCommand(i).id = CHOOSE m \in Markets : m \notin DOMAIN guild.markets
    BY DEF CreateCommand
  <2> QED
    BY <2>1, <2>2
<1> QED
  BY <1>1, <1>2, <1>3, <1>4

LEMMA ExecuteLists ==
  ASSUME IInv, Listable, NEW t \in tasks, ExecuteRequest(t)
  PROVE  Listing(guild')
<1>1. CommandOf(t.id).op = "Create" => DOMAIN guild.markets # Markets
  BY DEF ExecuteRequest
<1>2. PICK evidence \in EvidenceFor(t.id) :
         \/ guild' = guild
         \/ \E decision \in Execute(t.id, evidence) : guild' = ApplyDecision(guild, decision)
  BY DEF ExecuteRequest, store
<1>3. Listing(guild)
  BY DEF Listable
<1>4. ASSUME NEW decision \in Execute(t.id, evidence)
      PROVE  Listing(ApplyDecision(guild, decision))
  <2>1. CASE KeyOf(t.id) \in DOMAIN receipts
    <3>1. decision = << >>
      BY <1>4, <2>1 DEF Execute
    <3>2. ApplyDecision(guild, << >>) = guild
      BY DEF ApplyDecision, ApplyNth
    <3> QED
      BY <1>3, <3>1, <3>2
  <2>2. CASE KeyOf(t.id) \notin DOMAIN receipts
    <3>1. decision \in Decide(guild, ActorOf(t.id), CommandOf(t.id), now, guild.policy, evidence)
      BY <1>4, <2>2 DEF Execute
    <3>2. t.id \in 1 .. Len(interactions)
      BY TaskFacts
    <3>3. /\ CommandOf(t.id).op \in CommandOps
          /\ CommandOf(t.id).op = "Create"
                => CommandOf(t.id).id \in Markets /\ CommandOf(t.id).closes_at \in Int
      BY <1>1, <3>2, CommandKnown
    <3> QED
      BY <1>3, <3>1, <3>3, DecisionLists
  <2> QED
    BY <2>1, <2>2
<1> QED
  BY <1>2, <1>3, <1>4

\* An interaction that arrives carries numbers.
LEMMA ArriveLists ==
  ASSUME IInv, Listable, NEW x, Arrive(x), x.at \in Int, x.amount \in Int, UNCHANGED <<guild, now>>
  PROVE  Listable'
<1> DEFINE log == interactions
           new == Append(log, x)
<1>1. interactions' = new
  BY DEF Arrive
<1>2. /\ Len(log) \in Nat /\ Len(new) = Len(log) + 1 /\ new[Len(log) + 1] = x
      /\ \A i \in 1 .. Len(log) : new[i] = log[i]
  BY SeqFacts, SeqAppend DEF IInv, Typing
<1> HIDE DEF new
<1>3. \A i \in 1 .. Len(new) : new[i].at \in Int /\ new[i].amount \in Int
  <2> TAKE i \in 1 .. Len(new)
  <2>1. CASE i = Len(log) + 1
    BY <1>2, <2>1
  <2>2. CASE i \in 1 .. Len(log)
    BY <1>2, <2>2 DEF Listable
  <2> QED
    BY <1>2, <2>1, <2>2
<1> QED
  BY <1>1, <1>3 DEF Listable

LEMMA InitLists ==
  ASSUME Init PROVE Listable
<1> DEFINE x == FromCommand(Openings[scenario])
<1>1. /\ scenario \in DOMAIN Guilds /\ interactions = <<x>>
      /\ guild = Guilds[scenario].state /\ now = Guilds[scenario].now
  BY DEF Init
<1>2. x.at = 0 /\ x.amount = 0
  BY DEF FromCommand
<1> HIDE DEF x
<1>3. Len(interactions) = 1 /\ interactions[1] = x
  BY <1>1
<1>4. \A i \in 1 .. Len(interactions) : interactions[i].at \in Int /\ interactions[i].amount \in Int
  BY <1>2, <1>3
<1>5. IsState(guild) /\ now \in Int
  BY <1>1, GuildsAssumption, I64MaxAssumption DEF Time
<1> QED
  BY <1>4, <1>5, StateLists DEF Listable

LEMMA NextLists ==
  ASSUME IInv, Listable, [Next]_vars PROVE Listable'
<1>1. ASSUME UNCHANGED <<guild, now, interactions>> PROVE Listable'
  BY <1>1 DEF Listable
<1>2. ASSUME NEW command \in Commands[scenario], Command(command) PROVE Listable'
  <2>1. FromCommand(command).at = 0 /\ FromCommand(command).amount = 0
    BY DEF FromCommand
  <2> QED
    BY <1>2, <2>1, ArriveLists DEF Command, store
<1>3. ASSUME NEW message, NEW pressed, NEW user, Press(user, message, pressed) PROVE Listable'
  <2> DEFINE x == [user |-> user, kind |-> "component", request |-> pressed.control,
                   owner |-> pressed.owner, message |-> message, amount |-> 0, at |-> 0]
  <2>1. Arrive(x) /\ UNCHANGED <<guild, now>>
    BY <1>3 DEF Press, store
  <2>2. x.at = 0 /\ x.amount = 0
    OBVIOUS
  <2> HIDE DEF x
  <2> QED
    BY <2>1, <2>2, ArriveLists
<1>4. ASSUME NEW form, NEW amount \in Amounts, Submit(form, amount) PROVE Listable'
  <2> DEFINE x == [user |-> form.owner, kind |-> "form", request |-> form.control,
                   owner |-> form.owner, message |-> 0, amount |-> amount, at |-> now]
  <2>1. Arrive(x) /\ UNCHANGED <<guild, now>>
    BY <1>4 DEF Submit, store
  <2>2. x.at \in Int /\ x.amount \in Int
    BY AmountsAssumption DEF Listable
  <2> HIDE DEF x
  <2> QED
    BY <2>1, <2>2, ArriveLists
<1>5. ASSUME NEW i, Redeliver(i) PROVE Listable'
  BY <1>1, <1>5 DEF Redeliver, store
<1>6. CASE Tick
  <2>1. UNCHANGED <<guild, interactions>> /\ now' = now + 1
    BY <1>6 DEF Tick, store, discord
  <2> QED
    BY <2>1 DEF Listable
<1>7. CASE UNCHANGED vars
  BY <1>1, <1>7 DEF vars
<1>8. ASSUME NEW t \in tasks, Handle(t) PROVE Listable'
  <2>1. ASSUME ExecuteRequest(t) PROVE Listable'
    <3>1. UNCHANGED <<now, interactions>>
      BY <2>1 DEF ExecuteRequest, discord
    <3>2. Listing(guild')
      BY <2>1, ExecuteLists
    <3> QED
      BY <3>1, <3>2 DEF Listable
  <2>2. ASSUME NEW answered, NEW recorded, Acknowledge(t, answered, recorded) PROVE Listable'
    BY <1>1, <2>2 DEF Acknowledge, store
  <2>3. ASSUME \/ Navigate(t) \/ ReadFails(t) \/ RespondFirst(t) \/ ExecuteFails(t)
               \/ Deliver(t) \/ DeliveryFails(t)
        PROVE  Listable'
    BY <1>1, <2>3 DEF Navigate, ReadFails, RespondFirst, ExecuteFails, Deliver, DeliveryFails,
                      store, discord
  <2> QED
    BY <1>8, <2>1, <2>2, <2>3 DEF Handle
<1> QED
  BY <1>2, <1>3, <1>4, <1>5, <1>6, <1>7, <1>8 DEF Next

\* Whatever markets can be listed, the pages of a picker reach them.
LEMMA ListedReached ==
  ASSUME Listable PROVE PickersReachEverything
<1> DEFINE N == Cardinality(DOMAIN guild.markets)
<1>1. /\ DOMAIN guild.markets \in SUBSET Markets /\ IsFiniteSet(Markets)
      /\ Markets \subseteq Nat \ {0}
      /\ \A m \in DOMAIN guild.markets : guild.markets[m].closes_at \in Int
  BY MarketsAssumption DEF Listable, Listing, Timed
<1>2. IsFiniteSet(DOMAIN guild.markets)
  BY <1>1, FS_Subset
<1>3. N \in Nat
  BY <1>2, FS_CardinalityType
<1>4. ASSUME NEW S \in SUBSET DOMAIN guild.markets
      PROVE  /\ IsFiniteSet(S) /\ Cardinality(S) <= N /\ S \in SUBSET Nat /\ Nobody \notin S
             /\ \A m \in S : guild.markets[m].closes_at \in Int
  BY <1>1, <1>2, <1>4, FS_Subset DEF Nobody
<1>5. Asked = 0 .. N
  BY DEF Asked
<1> HIDE DEF N
<1>6. Reaches([p \in Asked |-> BetPicker(guild, now, p)], BettingMarkets(guild, now))
  <2> DEFINE S == BettingMarkets(guild, now)
             before == ByClosings(guild, S)
             picker == [p \in Asked |-> BetPicker(guild, now, p)]
  <2>1. S \in SUBSET DOMAIN guild.markets
    BY DEF BettingMarkets
  <2>2. /\ Orders(before, S)
        /\ \A p : OnPage(guild, S, p, ByClosing) = Page(before, S, p)
    BY <1>4, <2>1, OrdersByClosing
  <2>3. S # {} => \A p \in 0 .. N : Shows(picker[p], before, S, p)
    <3> HIDE DEF before
    <3>1. \A p \in 0 .. N : picker[p] = BetPicker(guild, now, p) /\ p \in Nat
      BY <1>3, <1>5
    <3> QED
      BY <1>4, <2>1, <2>2, <3>1, BetPickerShows
  <2>4. DOMAIN picker = 0 .. N
    BY <1>5
  <2> HIDE DEF picker, before, S
  <2>5. IsFiniteSet(S) /\ Cardinality(S) <= N
    BY <1>4, <2>1
  <2>6. Reaches(picker, S)
    BY <1>3, <2>2, <2>3, <2>4, <2>5, PagesReach
  <2> QED
    BY <2>6 DEF picker, S
<1>7. ASSUME NEW actor
      PROVE  Reaches([p \in Asked |-> ResolvePicker(guild, actor, now, p)],
                     ResolvableMarkets(guild, actor, now))
  <2> DEFINE S == ResolvableMarkets(guild, actor, now)
             before == ByClosings(guild, S)
             picker == [p \in Asked |-> ResolvePicker(guild, actor, now, p)]
  <2>1. S \in SUBSET DOMAIN guild.markets
    BY DEF ResolvableMarkets
  <2>2. /\ Orders(before, S)
        /\ \A p : OnPage(guild, S, p, ByClosing) = Page(before, S, p)
    BY <1>4, <2>1, OrdersByClosing
  <2>3. S # {} => \A p \in 0 .. N : Shows(picker[p], before, S, p)
    <3> HIDE DEF before
    <3>1. \A p \in 0 .. N : picker[p] = ResolvePicker(guild, actor, now, p) /\ p \in Nat
      BY <1>3, <1>5
    <3> QED
      BY <1>4, <2>1, <2>2, <3>1, ResolvePickerShows
  <2>4. DOMAIN picker = 0 .. N
    BY <1>5
  <2> HIDE DEF picker, before, S
  <2>5. IsFiniteSet(S) /\ Cardinality(S) <= N
    BY <1>4, <2>1
  <2>6. Reaches(picker, S)
    BY <1>3, <2>2, <2>3, <2>4, <2>5, PagesReach
  <2> QED
    BY <2>6 DEF picker, S
<1>8. ASSUME NEW u \in Users, NEW actor
      PROVE  Reaches([p \in Asked |-> ManagePicker("add", guild, actor, p, u, Nobody)],
                     ManageableMarkets(guild, actor))
  <2> DEFINE S == ManageableMarkets(guild, actor)
             before == ByIds(S)
             picker == [p \in Asked |-> ManagePicker("add", guild, actor, p, u, Nobody)]
  <2>1. S \in SUBSET DOMAIN guild.markets
    BY DEF ManageableMarkets
  <2>2. Orders(before, S) /\ \A p : OnPage(guild, S, p, ById) = Page(before, S, p)
    BY <1>4, <2>1, OrdersById
  <2>3. S # {} => \A p \in 0 .. N : Shows(picker[p], before, S, p)
    <3> HIDE DEF before
    <3>1. \A p \in 0 .. N :
             picker[p] = ManagePicker("add", guild, actor, p, u, Nobody) /\ p \in Nat
      BY <1>3, <1>5
    <3> QED
      BY <1>4, <2>1, <2>2, <3>1, ManagePickerShows
  <2>4. DOMAIN picker = 0 .. N
    BY <1>5
  <2> HIDE DEF picker, before, S
  <2>5. IsFiniteSet(S) /\ Cardinality(S) <= N
    BY <1>4, <2>1
  <2>6. Reaches(picker, S)
    BY <1>3, <2>2, <2>3, <2>4, <2>5, PagesReach
  <2> QED
    BY <2>6 DEF picker, S
<1>9. Reaches([p \in Asked |-> AssignmentsPicker(guild, p)], DOMAIN guild.markets)
  <2> DEFINE S == DOMAIN guild.markets
             before == ByIds(S)
             picker == [p \in Asked |-> AssignmentsPicker(guild, p)]
  <2>1. Orders(before, S) /\ \A p : OnPage(guild, S, p, ById) = Page(before, S, p)
    BY <1>4, OrdersById
  <2>2. S # {} => \A p \in 0 .. N : Shows(picker[p], before, S, p)
    <3> HIDE DEF before
    <3>1. \A p \in 0 .. N : picker[p] = AssignmentsPicker(guild, p) /\ p \in Nat
      BY <1>3, <1>5
    <3> QED
      BY <1>2, <2>1, <3>1, AssignmentsPickerShows
  <2>3. DOMAIN picker = 0 .. N
    BY <1>5
  <2> HIDE DEF picker, before
  <2>4. IsFiniteSet(S) /\ Cardinality(S) <= N
    BY <1>4
  <2> HIDE DEF S
  <2>5. Reaches(picker, S)
    BY <1>3, <2>1, <2>2, <2>3, <2>4, PagesReach
  <2> QED
    BY <2>5 DEF picker, S
<1> QED
  BY <1>6, <1>7, <1>8, <1>9 DEF PickersReachEverything

-----------------------------------------------------------------------------
(* Theorems.                                                               *)

\* The bookkeeping of a guild's interactions: every control on a member's screen
\* is one its handler reads, the key of a stake's confirmation is a form its
\* member submitted, and a receipt belongs to the member of its interaction.
THEOREM InteractionInvariant == Spec => [](IInv /\ StakeTakenOnce)
<1>1. Init => IInv /\ StakeTakenOnce
  BY InitInv
<1>2. IInv /\ StakeTakenOnce /\ [Next]_vars => (IInv /\ StakeTakenOnce)'
  BY NextInv
<1> QED
  BY <1>1, <1>2, PTL DEF Spec

\* One submitted stake moves points once, for any number of clicks, deliveries
\* and failures (handle_bet_component shares the submission's key).
THEOREM StakesTakenOnce == Spec => []StakeTakenOnce
  BY InteractionInvariant, PTL

\* A command takes effect only for an interaction Discord counts as answered:
\* after a deferral that failed nothing is executed.
THEOREM EffectsAcknowledged == Spec => []NoEffectUnacknowledged
<1>1. IInv => NoEffectUnacknowledged
  BY DEF IInv, Recorded, NoEffectUnacknowledged
<1> QED
  BY <1>1, InteractionInvariant, PTL

\* A delivery of a recorded command recovers its receipt and never tells its
\* member that the command was rejected, whatever the market has become.
THEOREM RecordedNeverRejected == Spec => RecordedIsNeverRejected
<1>1. IInv /\ [Next]_vars
        => [\A t \in tasks' \ tasks :
                t.reply.says = "rejected" => t.reply.key \notin DOMAIN receipts]_vars
  BY NextRejectsFresh DEF RejectsFresh
<1> QED
  BY <1>1, InteractionInvariant, PTL DEF Spec, RecordedIsNeverRejected

\* Turning pages from the first one meets every market a member may bet on, settle,
\* manage or inspect, for any number of markets and any size of a page; no menu is
\* empty or too long, whatever page an old button asks for.
THEOREM PickersAlwaysReach == Spec => []PickersReachEverything
<1>1. Init => Listable
  BY InitLists
<1>2. IInv /\ Listable /\ [Next]_vars => Listable'
  BY NextLists
<1>3. Listable => PickersReachEverything
  BY ListedReached
<1> QED
  BY <1>1, <1>2, <1>3, InteractionInvariant, PTL DEF Spec
=============================================================================
