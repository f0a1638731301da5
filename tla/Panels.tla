------------------------------- MODULE Panels -------------------------------
(***************************************************************************)
(* The private panels of prediction_bot's guided flows and the controls    *)
(* they show: prediction_bot/lib/src/discord_ui.rs and discord/*.rs.       *)
(*                                                                         *)
(* A control is the custom id of a button, or of a menu together with the  *)
(* value chosen from it.  It is a tuple <<flow, operation, arguments>>     *)
(* under the scope of its owner (ui::prefix); 0 stands for "no member      *)
(* selected".  A panel is the set of controls on it; wording, embeds and   *)
(* the compact spelling of identifiers are left out.  A refusal is the     *)
(* value Refused.  Markets are numbers, so that BTreeMap order is their    *)
(* order.                                                                  *)
(***************************************************************************)
EXTENDS Domain

CONSTANTS
    PageSize    \* entries on one page of a menu: 25 in the code

ASSUME PageSizeAssumption == PageSize \in Nat \ {0}
ASSUME MarketsAssumption == Markets \subseteq Nat \ {0} /\ IsFiniteSet(Markets)

Nobody == 0
Refused == {<<"refused">>}

Optional(condition, control) == IF condition THEN {control} ELSE {}

-----------------------------------------------------------------------------
(* Pages of a menu.                                                        *)

ById(s, S, x) == Cardinality({y \in S : y < x})

\* Betting and resolution list markets by closing time, then by identifier.
ByClosing(s, S, x) ==
    LET closes(m) == s.markets[m].closes_at
    IN  Cardinality({y \in S : \/ closes(y) < closes(x)
                               \/ closes(y) = closes(x) /\ y < x})

\* Mutant: a full last page is followed by an empty one.
LastPageIfFull(S) == Cardinality(S) \div PageSize

LastPage(S) == (IF S = {} THEN 0 ELSE Cardinality(S) - 1) \div PageSize

Clamp(S, page) == IF page > LastPage(S) THEN LastPage(S) ELSE page

\* The page that holds an entry, if it is still listed.
PageAround(S, x, page) ==
    Clamp(S, IF x \in S THEN ById(<< >>, S, x) \div PageSize ELSE page)

OnPage(s, S, page, Rank(_, _, _)) == {x \in S : Rank(s, S, x) \div PageSize = page}

\* The buttons to the previous and to the next page.
Turns(S, page, To(_)) ==
    Optional(page > 0, To(page - 1)) \cup Optional(page < LastPage(S), To(page + 1))

-----------------------------------------------------------------------------
(* Placing a bet.                                                          *)

BettingMarkets(s, now) ==
    {m \in DOMAIN s.markets : s.markets[m].status = "Open" /\ now < s.markets[m].closes_at}

BetPicker(s, now, requested) ==
    LET markets == BettingMarkets(s, now)
        page == Clamp(markets, requested)
    IN  IF markets = {} THEN {}
        ELSE {<<"bet", "market", m>> : m \in OnPage(s, markets, page, ByClosing)}
             \cup Turns(markets, page, LAMBDA p : <<"bet", "page", p>>)
             \cup {<<"bet", "cancel">>}

BetMarket(s, now, id) ==
    IF id \notin BettingMarkets(s, now) THEN Refused
    ELSE {<<"bet", "outcome", id, o>> : o \in {n \in Outcomes : n < s.markets[id].options}}
         \cup {<<"bet", "page", 0>>, <<"bet", "cancel">>}

\* A stake may be entered for an outcome of an open market by a member.
MayStake(s, user, now, id, outcome) ==
    /\ id \in BettingMarkets(s, now)
    /\ outcome < s.markets[id].options
    /\ user \in DOMAIN s.accounts

\* The preview of a stake submitted as the interaction `submission`.
BetPreview(s, user, now, id, outcome, amount, submission) ==
    IF /\ amount > 0
       /\ MayStake(s, user, now, id, outcome)
       /\ amount <= s.accounts[user].balance
    THEN {<<"bet", "confirm", id, outcome, amount, submission>>,
          <<"bet", "market", id>>, <<"bet", "cancel">>}
    ELSE Refused

-----------------------------------------------------------------------------
(* Resolving a market.                                                     *)

ResolvableMarkets(s, actor, now) ==
    {m \in DOMAIN s.markets :
        /\ Human(actor)
        /\ \/ actor.moderator
           \/ actor.user = s.markets[m].creator
           \/ actor.user \in s.markets[m].resolvers /\ actor.user \in DOMAIN s.accounts
        /\ ReadyToResolve(s.markets[m], now)}

ResolvePicker(s, actor, now, requested) ==
    LET markets == ResolvableMarkets(s, actor, now)
        page == Clamp(markets, requested)
    IN  IF markets = {} THEN {}
        ELSE {<<"resolve", "market", m, page>> : m \in OnPage(s, markets, page, ByClosing)}
             \cup Turns(markets, page, LAMBDA p : <<"resolve", "page", p>>)

ResolveMarket(s, actor, now, id, requested) ==
    LET markets == ResolvableMarkets(s, actor, now)
        page == Clamp(markets, requested)
    IN  IF id \notin markets THEN Refused
        ELSE {<<"resolve", "outcome", id, page, o>> :
                    o \in {n \in Outcomes : n < s.markets[id].options}}
             \cup {<<"resolve", "page", page>>}

ResolveOutcome(s, actor, now, id, requested, outcome) ==
    LET markets == ResolvableMarkets(s, actor, now)
    IN  IF id \notin markets \/ outcome >= s.markets[id].options THEN Refused
        ELSE {<<"resolve", "confirm", id, outcome>>,
              <<"resolve", "market", id, Clamp(markets, requested)>>}

-----------------------------------------------------------------------------
(* Adding and removing resolvers.                                          *)

ManageableMarkets(s, actor) == {m \in DOMAIN s.markets : MayManageResolvers(s, actor, m)}

\* Markets to choose from for flow "add" or "remove", around a current one.
ManagePicker(flow, s, actor, requested, user, current) ==
    LET markets == ManageableMarkets(s, actor)
        page == PageAround(markets, current, requested)
    IN  IF markets = {} THEN {}
        ELSE {<<flow, "market", m, user>> : m \in OnPage(s, markets, page, ById)}
             \cup Turns(markets, page, LAMBDA p : <<flow, "page", p, user>>)

AddPeople(s, actor, id, user) ==
    IF ~MayManageResolvers(s, actor, id) THEN Refused
    ELSE {<<"add", "user", id, u>> : u \in Users} \cup {<<"add", "back", id, user>>}

AddConfirmation(s, actor, id, user) ==
    IF ~MayManageResolvers(s, actor, id) \/ user = Nobody THEN Refused
    ELSE {<<"add", "confirm", id, user>>, <<"add", "people", id, user>>}

\* start, and the choice of a market or of a person, go to the first missing part.
AddStart(s, actor, id, user) ==
    IF id = Nobody THEN ManagePicker("add", s, actor, 0, user, Nobody)
    ELSE IF user = Nobody THEN AddPeople(s, actor, id, Nobody)
    ELSE AddConfirmation(s, actor, id, user)

AddBack(s, actor, id, user) ==
    IF ~MayManageResolvers(s, actor, id) THEN Refused
    ELSE ManagePicker("add", s, actor, 0, user, id)

\* The explicit assignments of a market, around a selected one.
RemoveAssignments(s, actor, id, requested, user) ==
    IF ~MayManageResolvers(s, actor, id) THEN Refused
    ELSE LET resolvers == s.markets[id].resolvers
             page == PageAround(resolvers, user, requested)
         IN  {<<"remove", "user", id, u>> : u \in OnPage(s, resolvers, page, ById)}
             \cup Turns(resolvers, page, LAMBDA p : <<"remove", "assignments", id, p>>)
             \cup {<<"remove", "back", id, user>>}

RemoveConfirmation(s, actor, id, user) ==
    IF ~MayManageResolvers(s, actor, id) \/ user = Nobody THEN Refused
    ELSE {<<"remove", "confirm", id, user>>, <<"remove", "around", id, user>>}

RemoveStart(s, actor, id, user) ==
    IF id = Nobody THEN ManagePicker("remove", s, actor, 0, user, Nobody)
    ELSE IF user = Nobody THEN RemoveAssignments(s, actor, id, 0, Nobody)
    ELSE RemoveConfirmation(s, actor, id, user)

-----------------------------------------------------------------------------
(* Read-only inspection: resolver assignments, recorded positions, markets. *)

AssignmentsPicker(s, requested) ==
    LET markets == DOMAIN s.markets
        page == Clamp(markets, requested)
    IN  IF markets = {} THEN {}
        ELSE {<<"assignments", "market", m, 0>> : m \in OnPage(s, markets, page, ById)}
             \cup Turns(markets, page, LAMBDA p : <<"assignments", "page", p>>)

AssignmentsMarket(s, id, requested) ==
    IF id \notin DOMAIN s.markets THEN Refused
    ELSE LET resolvers == s.markets[id].resolvers
         IN  Turns(resolvers, Clamp(resolvers, requested),
                   LAMBDA p : <<"assignments", "market", id, p>>)
             \cup {<<"assignments", "page", PageAround(DOMAIN s.markets, id, 0)>>}

ResolvedMarkets(s) == {m \in DOMAIN s.markets : s.markets[m].status = "Resolved"}

PositionsPicker(s, user, requested) ==
    LET markets == ResolvedMarkets(s)
        page == Clamp(markets, requested)
    IN  IF user \notin DOMAIN s.accounts THEN Refused
        ELSE IF markets = {} THEN {}
        ELSE {<<"positions", "market", m, 0>> : m \in OnPage(s, markets, page, ById)}
             \cup Turns(markets, page, LAMBDA p : <<"positions", "page", p>>)

\* One block for each bettor, a page of blocks at a time.
PositionsMarket(s, user, id, requested) ==
    IF user \notin DOMAIN s.accounts \/ id \notin ResolvedMarkets(s) THEN Refused
    ELSE LET bettors == Recipients(AllStakes(s.markets[id]))
         IN  Turns(bettors, Clamp(bettors, requested),
                   LAMBDA p : <<"positions", "market", id, p>>)
             \cup {<<"positions", "page", PageAround(ResolvedMarkets(s), id, 0)>>}

\* /market positions answers a refusal as a plain message.
PositionsStart(s, user, id) ==
    IF id = Nobody THEN PositionsPicker(s, user, 0) ELSE PositionsMarket(s, user, id, 0)

\* /market list offers the ten newest open markets, without pages.
MarketList(s, now) ==
    {<<"markets", "list", m>> : m \in {x \in BettingMarkets(s, now) :
        Cardinality({y \in BettingMarkets(s, now) :
            \/ s.markets[y].created_at > s.markets[x].created_at
            \/ s.markets[y].created_at = s.markets[x].created_at /\ y < x}) < 10}}

\* The presets of /market create; preset 0 asks for custom outcomes.
Presets == {0, 2, 3}
CreateForm == {<<"create", "preset", p>> : p \in Presets}
=============================================================================
