------------------------------- MODULE Domain -------------------------------
(***************************************************************************)
(* The pure decision and transition rules of one guild's prediction        *)
(* economy: prediction_bot/lib/src/domain.rs.                              *)
(*                                                                         *)
(* A command is decided against a state and yields the events to record    *)
(* (decide_with_membership); an event is applied to a state (apply_inner). *)
(* A Decide operator returns a set: empty when the code returns an error,  *)
(* otherwise the singleton of the accepted event sequence.  Apply returns  *)
(* the value Invalid where apply_inner returns an error.                   *)
(*                                                                         *)
(* Text (questions, option names, responses) is left out; a market has a   *)
(* number of options.  Bets are kept as the amount each member has put on  *)
(* each outcome: the code only ever reads their sums (stakes).  I64Max     *)
(* stands for i64::MAX, the bound every checked_add and checked_mul of     *)
(* points and of times is refused at.                                      *)
(***************************************************************************)
EXTENDS Integers, Sequences, FiniteSets, FiniteSetsExt, Functions, SequencesExt

CONSTANTS
    Users,      \* member identifiers: positive and ordered, 0 is the system
    Markets,    \* market identifiers
    Outcomes,   \* outcome indexes a command may name
    I64Max      \* the largest representable amount of points, or time

ASSUME UsersAssumption == Users \subseteq Nat \ {0} /\ IsFiniteSet(Users)
ASSUME OutcomesAssumption == Outcomes \subseteq Nat /\ IsFiniteSet(Outcomes)
ASSUME I64MaxAssumption == I64Max \in Nat

System == 0
Points == 0 .. I64Max
Time == 0 .. I64Max

-----------------------------------------------------------------------------
(* Actors, policies, membership evidence and the guild's state.            *)

Actor == [user : Users \cup {System}, moderator : BOOLEAN, bot : BOOLEAN]

SystemActor == [user |-> System, moderator |-> FALSE, bot |-> FALSE]

Human(actor) == ~actor.bot /\ actor.user # System

\* The policy is an Option in the code; None is the policy that is not positive.
NoPolicy == [amount |-> 0, interval |-> 0]
Policy == [amount : 1 .. I64Max, interval : 1 .. I64Max]

PositivePolicy(policy) == policy.amount > 0 /\ policy.interval > 0

\* What the Discord membership lookup proved about a user at execution time.
MembershipEvidence ==
    [kind : {"Present", "Absent", "Unavailable"}, user : Users, bot : BOOLEAN]

PresentHuman(membership, user) ==
    membership.kind = "Present" /\ membership.user = user /\ ~membership.bot

Account == [balance : Points, next_grant : Time]

Market ==
    [ creator      : Users,
      options      : Nat,
      created_at   : Time,
      closes_at    : Time,
      status       : {"Open", "Resolved", "Cancelled"},
      outcome      : Outcomes \cup {-1},    \* -1 unless Resolved
      refunded     : BOOLEAN,
      bets         : [Users -> [Outcomes -> Nat]],
      total_staked : Points,
      payouts      : [Users -> Points],     \* 0 where there is no allocation
      resolvers    : SUBSET Users ]

EmptyMap == [x \in {} |-> x]

\* BTreeMap: a function on the keys it holds.
IsMap(map, keys, values) == DOMAIN map \subseteq keys /\ map \in [DOMAIN map -> values]

IsState(s) ==
    /\ s = [policy |-> s.policy, accounts |-> s.accounts, markets |-> s.markets]
    /\ s.policy \in Policy \cup {NoPolicy}
    /\ IsMap(s.accounts, Users, Account)
    /\ IsMap(s.markets, Markets, Market)

EmptyState == [policy |-> NoPolicy, accounts |-> EmptyMap, markets |-> EmptyMap]

\* The outcome of applying an event that apply_inner refuses.
Invalid == [invalid |-> TRUE]

\* BTreeMap::insert: a map with the key bound to the value.
Insert(map, key, value) ==
    [k \in DOMAIN map \cup {key} |-> IF k = key THEN value ELSE map[k]]

-----------------------------------------------------------------------------
(* Stakes and payouts.                                                     *)

\* What each member has put on the outcomes, 0 for one who has no bet on them.
Stakes(market, outcomes) ==
    [u \in Users |-> SumFunctionOnSet(market.bets[u], outcomes)]

AllStakes(market) == Stakes(market, Outcomes)

\* The members an allocation gives something.
Recipients(entries) == {u \in Users : entries[u] > 0}

\* Mutants: the points left over are kept by nobody; they go to the smallest
\* fractions first.
FloorPayouts(market, outcome) ==
    LET winners == Stakes(market, {outcome})
    IN  [u \in Users |-> (market.total_staked * winners[u]) \div SumFunction(winners)]

SmallestFractionPayouts(market, outcome) ==
    LET winners == Stakes(market, {outcome})
        fraction == [u \in Users |-> (market.total_staked * winners[u]) % SumFunction(winners)]
        base == FloorPayouts(market, outcome)
        remainder == market.total_staked - SumFunction(base)
        ahead(u) == {v \in Recipients(winners) :
                        \/ fraction[v] < fraction[u]
                        \/ fraction[v] = fraction[u] /\ v < u}
    IN  [u \in Users |->
            IF u \in Recipients(winners) /\ Cardinality(ahead(u)) < remainder
            THEN base[u] + 1
            ELSE base[u]]

\* Floors of the proportional shares of the pool; the points left over go, one
\* each, to the largest fractions, lower user first among equals.
WinningPayouts(market, outcome) ==
    LET winners == Stakes(market, {outcome})
        winning == SumFunction(winners)
        numerator(u) == market.total_staked * winners[u]
        base == [u \in Users |-> numerator(u) \div winning]
        fraction == [u \in Users |-> numerator(u) % winning]
        remainder == market.total_staked - SumFunction(base)
        ahead(u) == {v \in Recipients(winners) :
                        \/ fraction[v] > fraction[u]
                        \/ fraction[v] = fraction[u] /\ v < u}
    IN  [u \in Users |->
            IF u \in Recipients(winners) /\ Cardinality(ahead(u)) < remainder
            THEN base[u] + 1
            ELSE base[u]]

NoWinners(market, outcome) == Recipients(Stakes(market, {outcome})) = {}

Payouts(market, outcome) ==
    IF NoWinners(market, outcome)
    THEN AllStakes(market)
    ELSE WinningPayouts(market, outcome)

-----------------------------------------------------------------------------
(* Applying recorded events.                                               *)

\* Mutant: the check refuses the largest balance too.
CreditableBelowMax(accounts, entries) ==
    /\ entries \in [Users -> Points]
    /\ \A u \in Recipients(entries) :
            u \in DOMAIN accounts /\ accounts[u].balance + entries[u] < I64Max

\* recorded_allocations and credit_allocations: every entry is an amount for an
\* enrolled member, and no balance overflows.
Creditable(accounts, entries) ==
    /\ entries \in [Users -> Points]
    /\ \A u \in Recipients(entries) :
            u \in DOMAIN accounts /\ accounts[u].balance + entries[u] <= I64Max

Credit(accounts, entries) ==
    [u \in DOMAIN accounts |-> [accounts[u] EXCEPT !.balance = @ + entries[u]]]

\* GuildEconomyInitialized
CanInitialize(s, e) ==
    /\ PositivePolicy(e.policy)
    /\ s.policy = NoPolicy
    /\ DOMAIN s.accounts = {}
    /\ DOMAIN s.markets = {}

\* MemberEnrolled
CanEnroll(s, e) ==
    s.policy # NoPolicy /\ e.user # System /\ e.user \notin DOMAIN s.accounts

ApplyEnrollment(s, e) ==
    [s EXCEPT !.accounts =
        Insert(@, e.user, [balance |-> 0, next_grant |-> e.enrolled_at])]

\* The number of intervals a grant covers, both due times included.
GrantCount(policy, from_due, through_due) ==
    (through_due - from_due) \div policy.interval + 1

\* PointsGranted
CanGrant(s, e) ==
    /\ s.policy # NoPolicy /\ PositivePolicy(s.policy)
    /\ e.user \in DOMAIN s.accounts
    /\ LET account == s.accounts[e.user]
           count == GrantCount(s.policy, e.from_due, e.through_due)
       IN  /\ e.from_due = account.next_grant
           /\ e.through_due >= e.from_due
           /\ e.amount > 0
           /\ (e.through_due - e.from_due) % s.policy.interval = 0
           /\ e.reason = "Initial" => count = 1
           /\ e.amount = s.policy.amount * count
           /\ e.next_grant = e.through_due + s.policy.interval
           /\ e.next_grant <= I64Max
           /\ account.balance + e.amount <= I64Max

\* Mutant: the due time that was just paid stays due.
ApplyGrantAgain(s, e) ==
    [s EXCEPT !.accounts[e.user] =
        [balance |-> @.balance + e.amount, next_grant |-> e.through_due]]

ApplyGrant(s, e) ==
    [s EXCEPT !.accounts[e.user] =
        [balance |-> @.balance + e.amount, next_grant |-> e.next_grant]]

\* MarketCreated; a well-formed market has two to ten options.
ValidMarket(options) == options \in 2 .. 10

CanCreateMarket(s, e) ==
    /\ s.policy # NoPolicy
    /\ e.id \notin DOMAIN s.markets
    /\ e.creator \in DOMAIN s.accounts
    /\ e.closes_at > e.created_at
    /\ ValidMarket(e.options)

NewMarket(e) ==
    [ creator |-> e.creator, options |-> e.options,
      created_at |-> e.created_at, closes_at |-> e.closes_at,
      status |-> "Open", outcome |-> -1, refunded |-> FALSE,
      bets |-> [u \in Users |-> [o \in Outcomes |-> 0]],
      total_staked |-> 0, payouts |-> [u \in Users |-> 0], resolvers |-> {} ]

\* BetPlaced
CanBet(s, e) ==
    /\ e.id \in DOMAIN s.markets
    /\ e.user \in DOMAIN s.accounts
    /\ LET market == s.markets[e.id]
       IN  /\ market.status = "Open"
           /\ market.created_at <= e.accepted_at /\ e.accepted_at < market.closes_at
           /\ e.outcome < market.options
           /\ e.amount > 0
           /\ market.total_staked + e.amount <= I64Max
           /\ e.amount <= s.accounts[e.user].balance

Debited(account, e) == [account EXCEPT !.balance = @ - e.amount]

Staked(market, e) ==
    [market EXCEPT !.total_staked = @ + e.amount,
                   !.bets[e.user][e.outcome] = @ + e.amount]

ApplyBet(s, e) ==
    [s EXCEPT !.accounts[e.user] = Debited(@, e),
              !.markets[e.id] = Staked(@, e)]

\* MarketResolved: a refund needs an outcome nobody chose and returns every stake;
\* otherwise exactly the winners are paid, no less than they put in, the pool in full.
CanResolve(s, e) ==
    /\ e.id \in DOMAIN s.markets
    /\ LET market == s.markets[e.id]
           winners == Stakes(market, {e.outcome})
       IN  /\ market.status = "Open"
           /\ e.outcome < market.options
           /\ e.settled_at >= market.closes_at
           /\ e.resolver # System
           /\ IF e.refunded
              THEN Recipients(winners) = {} /\ e.payouts = AllStakes(market)
              ELSE /\ Recipients(winners) # {}
                   /\ Cardinality(Recipients(e.payouts)) = Cardinality(Recipients(winners))
                   /\ \A u \in Recipients(winners) : e.payouts[u] >= winners[u]
                   /\ SumFunction(e.payouts) = market.total_staked
    /\ Creditable(s.accounts, e.payouts)

ApplyResolution(s, e) ==
    [s EXCEPT !.accounts = Credit(@, e.payouts),
              !.markets[e.id] = [@ EXCEPT !.status = "Resolved",
                                          !.outcome = e.outcome,
                                          !.refunded = e.refunded,
                                          !.payouts = e.payouts]]

\* MarketResolverAdded and MarketResolverRemoved
CanChangeResolver(s, e) ==
    /\ e.id \in DOMAIN s.markets
    /\ e.user # System /\ e.by # System
    /\ s.markets[e.id].status = "Open"
    /\ e.at >= s.markets[e.id].created_at
    /\ (e.type = "MarketResolverAdded") = (e.user \notin s.markets[e.id].resolvers)

ApplyResolverChange(s, e) ==
    [s EXCEPT !.markets[e.id].resolvers =
        IF e.type = "MarketResolverAdded" THEN @ \cup {e.user} ELSE @ \ {e.user}]

\* MarketCancelled
CanCancel(s, e) ==
    /\ e.id \in DOMAIN s.markets
    /\ s.markets[e.id].status = "Open"
    /\ e.moderator # System
    /\ e.refunds = AllStakes(s.markets[e.id])
    /\ Creditable(s.accounts, e.refunds)

\* Mutant: a cancelled market keeps the stakes.
CancelWithoutRefund(s, e) == [s EXCEPT !.markets[e.id].status = "Cancelled"]

ApplyCancellation(s, e) ==
    [s EXCEPT !.accounts = Credit(@, e.refunds),
              !.markets[e.id].status = "Cancelled"]

\* The checks of apply_inner, event by event.
Applicable(s, e) ==
    CASE e.type = "AnnouncementsEnabled" -> e.moderator # System
      [] e.type = "GuildEconomyInitialized" -> CanInitialize(s, e)
      [] e.type = "MemberEnrolled" -> CanEnroll(s, e)
      [] e.type = "PointsGranted" -> CanGrant(s, e)
      [] e.type = "MarketCreated" -> CanCreateMarket(s, e)
      [] e.type = "BetPlaced" -> CanBet(s, e)
      [] e.type = "MarketResolved" -> CanResolve(s, e)
      [] e.type \in {"MarketResolverAdded", "MarketResolverRemoved"} ->
            CanChangeResolver(s, e)
      [] e.type = "MarketCancelled" -> CanCancel(s, e)

\* The state apply_inner leaves.
Effect(s, e) ==
    CASE e.type = "AnnouncementsEnabled" -> s
      [] e.type = "GuildEconomyInitialized" -> [s EXCEPT !.policy = e.policy]
      [] e.type = "MemberEnrolled" -> ApplyEnrollment(s, e)
      [] e.type = "PointsGranted" -> ApplyGrant(s, e)
      [] e.type = "MarketCreated" ->
            [s EXCEPT !.markets = Insert(@, e.id, NewMarket(e))]
      [] e.type = "BetPlaced" -> ApplyBet(s, e)
      [] e.type = "MarketResolved" -> ApplyResolution(s, e)
      [] e.type \in {"MarketResolverAdded", "MarketResolverRemoved"} ->
            ApplyResolverChange(s, e)
      [] e.type = "MarketCancelled" -> ApplyCancellation(s, e)

Apply(s, e) == IF s # Invalid /\ Applicable(s, e) THEN Effect(s, e) ELSE Invalid

\* A decision records at most three events (a first join); they are applied in order.
ApplyNth(s, events, n) == IF n <= Len(events) THEN Apply(s, events[n]) ELSE s
ApplyDecision(s, events) ==
    ApplyNth(ApplyNth(ApplyNth(s, events, 1), events, 2), events, 3)

\* The projection of a whole recorded history.  CHOOSE binds the projection of
\* the rows before, so that it is computed once.
Replay(events) ==
    LET after[n \in 0 .. Len(events)] ==
            IF n = 0 THEN EmptyState
            ELSE CHOOSE next \in {Apply(s, events[n]) : s \in {after[n - 1]}} : TRUE
    IN  after[Len(events)]

-----------------------------------------------------------------------------
(* Deciding commands.                                                      *)

\* A decision stands only if its events apply to a copy of the state.
Finish(s, events) == IF ApplyDecision(s, events) = Invalid THEN {} ELSE {events}

DecideJoin(s, actor, now, defaults) ==
    LET policy == IF s.policy = NoPolicy THEN defaults ELSE s.policy
        initialized == [type |-> "GuildEconomyInitialized", policy |-> policy]
        enrolled == [type |-> "MemberEnrolled", user |-> actor.user, enrolled_at |-> now]
        granted == [type |-> "PointsGranted", user |-> actor.user, reason |-> "Initial",
                    amount |-> policy.amount, from_due |-> now, through_due |-> now,
                    next_grant |-> now + policy.interval]
    IN  IF ~Human(actor) THEN {}
        ELSE IF actor.user \in DOMAIN s.accounts THEN Finish(s, << >>)
        ELSE IF ~PositivePolicy(policy) \/ now + policy.interval > I64Max THEN {}
        ELSE Finish(s, IF s.policy = NoPolicy
                       THEN <<initialized, enrolled, granted>>
                       ELSE <<enrolled, granted>>)

\* Mutant: only the oldest due interval is granted.
OldestGrant(s, user, now) ==
    LET account == s.accounts[user]
    IN  [type |-> "PointsGranted", user |-> user, reason |-> "Periodic",
         amount |-> s.policy.amount,
         from_due |-> account.next_grant, through_due |-> account.next_grant,
         next_grant |-> account.next_grant + s.policy.interval]

\* All the intervals due by now are granted at once.
DueGrant(s, user, now) ==
    LET account == s.accounts[user]
        count == (now - account.next_grant) \div s.policy.interval + 1
        through_due == account.next_grant + s.policy.interval * (count - 1)
    IN  [type |-> "PointsGranted", user |-> user, reason |-> "Periodic",
         amount |-> s.policy.amount * count,
         from_due |-> account.next_grant, through_due |-> through_due,
         next_grant |-> through_due + s.policy.interval]

DecideGrant(s, actor, user, now) ==
    IF actor.user # System \/ s.policy = NoPolicy \/ user \notin DOMAIN s.accounts THEN {}
    ELSE IF now < s.accounts[user].next_grant THEN Finish(s, << >>)
    ELSE Finish(s, <<DueGrant(s, user, now)>>)

DecideCreate(s, actor, id, options, closes_at, now) ==
    IF /\ Human(actor)
       /\ actor.user \in DOMAIN s.accounts
       /\ id \notin DOMAIN s.markets
       /\ ValidMarket(options)
       /\ closes_at > now
    THEN Finish(s, <<[type |-> "MarketCreated", id |-> id, creator |-> actor.user,
                      options |-> options, created_at |-> now, closes_at |-> closes_at]>>)
    ELSE {}

OpenForBetting(market, now) ==
    market.status = "Open" /\ now < market.closes_at /\ now >= market.created_at

DecideBet(s, actor, id, outcome, amount, now) ==
    IF /\ Human(actor)
       /\ actor.user \in DOMAIN s.accounts
       /\ id \in DOMAIN s.markets
       /\ OpenForBetting(s.markets[id], now)
       /\ outcome < s.markets[id].options /\ amount > 0
       /\ amount <= s.accounts[actor.user].balance
       /\ s.markets[id].total_staked + amount <= I64Max
    THEN Finish(s, <<[type |-> "BetPlaced", id |-> id, user |-> actor.user,
                      outcome |-> outcome, amount |-> amount, accepted_at |-> now]>>)
    ELSE {}

\* The creator and moderators may always settle; an additional resolver only
\* while fresh evidence shows an enrolled human member.
MayResolve(s, actor, market, membership) ==
    \/ actor.moderator
    \/ actor.user = market.creator
    \/ /\ actor.user \in market.resolvers
       /\ PresentHuman(membership, actor.user)
       /\ actor.user \in DOMAIN s.accounts

ReadyToResolve(market, now) == market.status = "Open" /\ now >= market.closes_at

DecideResolve(s, actor, id, outcome, now, membership) ==
    IF /\ Human(actor)
       /\ id \in DOMAIN s.markets
       /\ MayResolve(s, actor, s.markets[id], membership)
       /\ ReadyToResolve(s.markets[id], now)
       /\ outcome < s.markets[id].options
    THEN Finish(s, <<[type |-> "MarketResolved", id |-> id, outcome |-> outcome,
                      resolver |-> actor.user, settled_at |-> now,
                      payouts |-> Payouts(s.markets[id], outcome),
                      refunded |-> NoWinners(s.markets[id], outcome)]>>)
    ELSE {}

\* Who may change the resolvers of a market, and until when.
MayManageResolvers(s, actor, id) ==
    /\ id \in DOMAIN s.markets
    /\ Human(actor)
    /\ actor.moderator \/ actor.user = s.markets[id].creator
    /\ s.markets[id].status = "Open"

DecideAddResolver(s, actor, id, user, now, membership) ==
    IF /\ MayManageResolvers(s, actor, id)
       /\ PresentHuman(membership, user) /\ user # System
       /\ user \in DOMAIN s.accounts
    THEN IF user \in s.markets[id].resolvers
         THEN Finish(s, << >>)
         ELSE Finish(s, <<[type |-> "MarketResolverAdded", id |-> id, user |-> user,
                           by |-> actor.user, at |-> now]>>)
    ELSE {}

DecideRemoveResolver(s, actor, id, user, now) ==
    IF MayManageResolvers(s, actor, id) /\ user # System
    THEN IF user \notin s.markets[id].resolvers
         THEN Finish(s, << >>)
         ELSE Finish(s, <<[type |-> "MarketResolverRemoved", id |-> id, user |-> user,
                           by |-> actor.user, at |-> now]>>)
    ELSE {}

DecideCancel(s, actor, id, now) ==
    IF /\ actor.moderator /\ Human(actor)
       /\ id \in DOMAIN s.markets
       /\ s.markets[id].status = "Open"
    THEN Finish(s, <<[type |-> "MarketCancelled", id |-> id, moderator |-> actor.user,
                      cancelled_at |-> now, refunds |-> AllStakes(s.markets[id])]>>)
    ELSE {}

\* decide_with_membership: the rule for each kind of command.
Decide(s, actor, command, now, defaults, membership) ==
    CASE command.op = "Join" -> DecideJoin(s, actor, now, defaults)
      [] command.op = "Grant" -> DecideGrant(s, actor, command.user, now)
      [] command.op = "Create" ->
            DecideCreate(s, actor, command.id, command.options, command.closes_at, now)
      [] command.op = "Bet" ->
            DecideBet(s, actor, command.id, command.outcome, command.amount, now)
      [] command.op = "Resolve" ->
            DecideResolve(s, actor, command.id, command.outcome, now, membership)
      [] command.op = "AddResolver" ->
            DecideAddResolver(s, actor, command.id, command.user, now, membership)
      [] command.op = "RemoveResolver" ->
            DecideRemoveResolver(s, actor, command.id, command.user, now)
      [] command.op = "Cancel" -> DecideCancel(s, actor, command.id, now)
=============================================================================
