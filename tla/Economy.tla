------------------------------ MODULE Economy ------------------------------
(***************************************************************************)
(* What the prediction bot promises of one guild: commands take effect one *)
(* at a time, each decided against the current state at the wall-clock     *)
(* time it is accepted, and its events are applied to that state.          *)
(* domain.rs decides and applies; the command loop is the call sequence of *)
(* store.rs (transact) with everything that is not the guild's state left  *)
(* out.  EventStore shows that the database-backed store implements this.  *)
(*                                                                         *)
(* The wall clock is the host's, so it may be set back between commands:   *)
(* every command reads any time of Times.  A join that initializes the     *)
(* guild's economy records the grant policy the deciding process was       *)
(* configured with.  That is any policy: a process may be started with     *)
(* another one, and the last COMMIT of a process that crashed may land     *)
(* after its successor has started.                                        *)
(***************************************************************************)
EXTENDS Domain

CONSTANTS
    Actors,         \* who may send a command
    Evidence,       \* what a membership lookup may answer
    Policies,       \* grant policies a process may be started with
    Times,          \* wall-clock readings
    Closings,       \* closing times a create command may name
    Stakings,       \* amounts a bet may name, zero included
    OptionCounts    \* numbers of options a create command may carry

ASSUME ActorsAssumption == Actors \subseteq Actor
ASSUME EvidenceAssumption == Evidence \subseteq MembershipEvidence
ASSUME PoliciesAssumption == Policies \subseteq Policy /\ Policies # {}
ASSUME TimesAssumption == Times \subseteq Time /\ Times # {}
ASSUME ClosingsAssumption == Closings \subseteq Time
ASSUME StakingsAssumption == Stakings \subseteq Nat
ASSUME OptionCountsAssumption == OptionCounts \subseteq Nat

VARIABLES
    state,          \* the guild's State
    now,            \* accepted_at of the last command
    enrolled_at,    \* history: when each member joined
    granted         \* history: the points each member was ever granted

vars == <<state, now, enrolled_at, granted>>
history == <<enrolled_at, granted>>

Init ==
    /\ state = EmptyState
    /\ now \in Times
    /\ enrolled_at = [u \in Users |-> 0]
    /\ granted = [u \in Users |-> 0]

\* The events of an accepted command are applied in order, at the time it read.
Commit(events, time) ==
    /\ state' = ApplyDecision(state, events)
    /\ now' = time

Join(actor, policy, time) ==
    \E events \in DecideJoin(state, actor, time, policy) :
        /\ Commit(events, time)
        /\ IF events = << >>
           THEN UNCHANGED history
           ELSE /\ enrolled_at' = [enrolled_at EXCEPT ![actor.user] = time]
                /\ granted' = [granted EXCEPT ![actor.user] = @ + events[Len(events)].amount]

Grant(user, time) ==
    \E events \in DecideGrant(state, SystemActor, user, time) :
        /\ Commit(events, time)
        /\ UNCHANGED enrolled_at
        /\ IF events = << >>
           THEN UNCHANGED granted
           ELSE granted' = [granted EXCEPT ![user] = @ + events[1].amount]

Create(actor, id, options, closes_at, time) ==
    \E events \in DecideCreate(state, actor, id, options, closes_at, time) :
        Commit(events, time) /\ UNCHANGED history

Bet(actor, id, outcome, amount, time) ==
    \E events \in DecideBet(state, actor, id, outcome, amount, time) :
        Commit(events, time) /\ UNCHANGED history

Resolve(actor, id, outcome, membership, time) ==
    \E events \in DecideResolve(state, actor, id, outcome, time, membership) :
        Commit(events, time) /\ UNCHANGED history

AddResolver(actor, id, user, membership, time) ==
    \E events \in DecideAddResolver(state, actor, id, user, time, membership) :
        Commit(events, time) /\ UNCHANGED history

RemoveResolver(actor, id, user, time) ==
    \E events \in DecideRemoveResolver(state, actor, id, user, time) :
        Commit(events, time) /\ UNCHANGED history

Cancel(actor, id, time) ==
    \E events \in DecideCancel(state, actor, id, time) :
        Commit(events, time) /\ UNCHANGED history

Next ==
    \E time \in Times :
        \/ \E user \in Users : Grant(user, time)
        \/ \E actor \in Actors :
            \/ \E policy \in Policies : Join(actor, policy, time)
            \/ \E id \in Markets :
                \/ Cancel(actor, id, time)
                \/ \E options \in OptionCounts, closes_at \in Closings :
                        Create(actor, id, options, closes_at, time)
                \/ \E outcome \in Outcomes, amount \in Stakings :
                        Bet(actor, id, outcome, amount, time)
                \/ \E outcome \in Outcomes, membership \in Evidence :
                        Resolve(actor, id, outcome, membership, time)
                \/ \E user \in Users, membership \in Evidence :
                        AddResolver(actor, id, user, membership, time)
                \/ \E user \in Users : RemoveResolver(actor, id, user, time)

Spec == Init /\ [][Next]_vars

-----------------------------------------------------------------------------
(* Properties.                                                             *)

Enrolled == DOMAIN state.accounts
OpenMarkets == {m \in DOMAIN state.markets : state.markets[m].status = "Open"}

\* Every component of the guild's state keeps its type; in particular no
\* balance, pool or due time ever leaves the range of an i64.
TypeOK ==
    /\ IsState(state)
    /\ now \in Times
    /\ enrolled_at \in [Users -> Time]
    /\ granted \in [Users -> Nat]

\* Points are neither created nor destroyed by betting and settling: what the
\* members hold and what is staked in open markets is what was ever granted.
PointsConserved ==
    SumFunction([u \in Enrolled |-> state.accounts[u].balance])
        + SumFunction([m \in OpenMarkets |-> state.markets[m].total_staked])
    = SumFunction(granted)

\* Along any sequence of joins, grants, clock changes and restarts with another
\* policy, a member has received the guild's amount for each interval since
\* joining up to the next due time: none is skipped, none is granted twice.
GrantsMatchSchedule ==
    \A u \in Enrolled :
        granted[u] * state.policy.interval
            = state.policy.amount * (state.accounts[u].next_grant - enrolled_at[u])

\* A grant catches up completely and never runs ahead: after it the time it was
\* accepted at lies in the interval before the next due time.
GrantsCatchUp ==
    [][\A u \in Enrolled :
        state'.accounts[u].next_grant # state.accounts[u].next_grant =>
            /\ state'.accounts[u].next_grant - state'.policy.interval <= now'
            /\ now' < state'.accounts[u].next_grant]_vars

\* As long as all granted points together fit an i64, no accepted history leads
\* to a market that cannot be settled: a moderator can cancel any open market,
\* and resolve it to any of its outcomes once it is closed.
OpenMarketsSettle ==
    SumFunction(granted) <= I64Max =>
        \A m \in OpenMarkets :
            LET market == state.markets[m]
                moderator == [user |-> market.creator, moderator |-> TRUE, bot |-> FALSE]
                unavailable == [kind |-> "Unavailable", user |-> market.creator, bot |-> FALSE]
            IN  /\ DecideCancel(state, moderator, m, market.created_at) # {}
                /\ \A o \in {x \in Outcomes : x < market.options} :
                        DecideResolve(state, moderator, m, o, market.closes_at, unavailable) # {}

\* The distance of an allocation of the pool from the exact proportional shares.
Deviation(market, winners, allocation) ==
    LET winning == SumFunction(winners)
        miss(u) == allocation[u] * winning - market.total_staked * winners[u]
    IN  SumFunction([u \in Users |-> miss(u) * miss(u)])

\* The winners of every outcome of an open market would be paid the fairest
\* whole-point split of its pool: the pool is paid in full and only to them,
\* moving a point from one winner to another never comes closer to the exact
\* shares (the distance is convex, so no other split does either), and a larger
\* stake is never paid less.
PayoutsAreFairest ==
    \A m \in OpenMarkets : \A o \in Outcomes :
        ~NoWinners(state.markets[m], o) =>
            LET market == state.markets[m]
                winners == Stakes(market, {o})
                paid == Payouts(market, o)
                moved(u, v) == [paid EXCEPT ![u] = @ - 1, ![v] = @ + 1]
            IN  /\ SumFunction(paid) = market.total_staked
                /\ Recipients(paid) = Recipients(winners)
                /\ \A u \in Recipients(winners), v \in Recipients(winners) :
                        /\ winners[u] > winners[v] => paid[u] >= paid[v]
                        /\ u # v => Deviation(market, winners, paid)
                                        <= Deviation(market, winners, moved(u, v))
=============================================================================
