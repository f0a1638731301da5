---------------------------- MODULE DomainProofs ----------------------------
(***************************************************************************)
(* What the rules of domain.rs return and preserve, for every state and    *)
(* every event: the lemmas the proofs about Economy and EventStore share.  *)
(***************************************************************************)
EXTENDS Domain, FiniteSetTheorems, WellFoundedInduction, TLAPS

\* A state is never the value that stands for a refused event.
LEMMA StateIsValid == ASSUME NEW s, IsState(s) PROVE s # Invalid
  BY DEF IsState, Invalid

\* An accepted decision without events leaves the state alone.
LEMMA FinishNone ==
  ASSUME NEW s, NEW events \in Finish(s, << >>)
  PROVE  events = << >> /\ ApplyDecision(s, events) = s
  BY DEF Finish, ApplyDecision, ApplyNth

\* An accepted decision with one event passed the checks of apply_inner.
LEMMA FinishOne ==
  ASSUME NEW s, NEW e, NEW events \in Finish(s, <<e>>)
  PROVE  /\ events = <<e>>
         /\ Applicable(s, e)
         /\ ApplyDecision(s, events) = Effect(s, e)
<1>1. events = <<e>> /\ ApplyDecision(s, events) # Invalid
  BY DEF Finish
<1>2. Len(<<e>>) = 1 /\ <<e>>[1] = e
  OBVIOUS
<1>3. ApplyDecision(s, events) = Apply(s, e)
  BY <1>1, <1>2 DEF ApplyDecision, ApplyNth
<1> QED
  BY <1>1, <1>3 DEF Apply

\* The same for a join, whose two or three events are applied in turn.
LEMMA FinishTwo ==
  ASSUME NEW s, NEW e, NEW f, NEW events \in Finish(s, <<e, f>>)
  PROVE  /\ events = <<e, f>>
         /\ Applicable(s, e)
         /\ Applicable(Effect(s, e), f)
         /\ ApplyDecision(s, events) = Effect(Effect(s, e), f)
<1>1. events = <<e, f>> /\ ApplyDecision(s, events) # Invalid
  BY DEF Finish
<1>2. Len(<<e, f>>) = 2 /\ <<e, f>>[1] = e /\ <<e, f>>[2] = f
  OBVIOUS
<1>3. ApplyDecision(s, events) = Apply(Apply(s, e), f)
  BY <1>1, <1>2 DEF ApplyDecision, ApplyNth
<1>4. Apply(s, e) # Invalid
  BY <1>1, <1>3 DEF Apply
<1> QED
  BY <1>1, <1>3, <1>4 DEF Apply

\* A first join: the guild is initialized, then the member enrolled and granted.
LEMMA FinishThree ==
  ASSUME NEW s, NEW e, NEW f, NEW g, NEW events \in Finish(s, <<e, f, g>>)
  PROVE  /\ events = <<e, f, g>>
         /\ Applicable(s, e)
         /\ Applicable(Effect(s, e), f)
         /\ Applicable(Effect(Effect(s, e), f), g)
         /\ ApplyDecision(s, events) = Effect(Effect(Effect(s, e), f), g)
<1>1. events = <<e, f, g>> /\ ApplyDecision(s, events) # Invalid
  BY DEF Finish
<1>2. /\ Len(<<e, f, g>>) = 3
      /\ <<e, f, g>>[1] = e /\ <<e, f, g>>[2] = f /\ <<e, f, g>>[3] = g
  OBVIOUS
<1>3. ApplyDecision(s, events) = Apply(Apply(Apply(s, e), f), g)
  BY <1>1, <1>2 DEF ApplyDecision, ApplyNth
<1>4. Apply(s, e) # Invalid /\ Apply(Apply(s, e), f) # Invalid
  BY <1>1, <1>3 DEF Apply
<1> QED
  BY <1>1, <1>3, <1>4 DEF Apply

\* BTreeMap::insert keeps the type of a map.
LEMMA InsertIsMap ==
  ASSUME NEW map, NEW keys, NEW values, IsMap(map, keys, values),
         NEW key \in keys, NEW value \in values
  PROVE  IsMap(Insert(map, key, value), keys, values)
  BY DEF IsMap, Insert

-----------------------------------------------------------------------------
(* Every event apply_inner accepts keeps the type of the state.            *)

\* GuildEconomyInitialized sets a policy on a guild without members.
LEMMA InitializationTyped ==
  ASSUME NEW s, IsState(s), NEW e, e.type = "GuildEconomyInitialized",
         Applicable(s, e), e.policy \in Policy
  PROVE  /\ IsState(Effect(s, e))
         /\ Effect(s, e) = [s EXCEPT !.policy = e.policy]
         /\ s.policy = NoPolicy /\ DOMAIN s.accounts = {}
  BY DEF Applicable, Effect, CanInitialize, IsState

\* MemberEnrolled adds one account, with a due time in range.
LEMMA EnrollmentTyped ==
  ASSUME NEW s, IsState(s), NEW e, e.type = "MemberEnrolled",
         Applicable(s, e), e.user \in Users, e.enrolled_at \in Time
  PROVE  /\ IsState(Effect(s, e))
         /\ s.policy # NoPolicy
         /\ Effect(s, e) = ApplyEnrollment(s, e)
         /\ e.user \notin DOMAIN s.accounts
<1> DEFINE account == [balance |-> 0, next_grant |-> e.enrolled_at]
<1>1. account \in Account
  BY I64MaxAssumption DEF Account, Points, Time
<1>2. IsMap(Insert(s.accounts, e.user, account), Users, Account)
  BY <1>1, InsertIsMap DEF IsState
<1> QED
  BY <1>2 DEF Applicable, Effect, CanEnroll, ApplyEnrollment, IsState

\* PointsGranted: the checked sums keep balance and due time in range.
LEMMA GrantTyped ==
  ASSUME NEW s, IsState(s), NEW e, e.type = "PointsGranted", Applicable(s, e),
         e.through_due \in Int, e.amount \in Int
  PROVE  /\ IsState(Effect(s, e))
         /\ CanGrant(s, e)
         /\ Effect(s, e) = ApplyGrant(s, e)
<1>1. CanGrant(s, e) /\ Effect(s, e) = ApplyGrant(s, e)
  BY DEF Applicable, Effect
<1>2. s.accounts[e.user] \in Account /\ s.policy \in Policy
  BY <1>1 DEF CanGrant, IsState, IsMap
<1> DEFINE account == [balance |-> s.accounts[e.user].balance + e.amount,
                       next_grant |-> e.next_grant]
<1>3. account \in Account
  BY <1>1, <1>2, I64MaxAssumption DEF CanGrant, Account, Points, Time, Policy
<1>4. IsMap([s.accounts EXCEPT ![e.user] = account], Users, Account)
  BY <1>1, <1>3 DEF IsMap, IsState, CanGrant
<1> QED
  BY <1>1, <1>4 DEF ApplyGrant, IsState

\* MarketCreated adds a well-typed open market.
LEMMA CreationTyped ==
  ASSUME NEW s, IsState(s), NEW e, e.type = "MarketCreated", Applicable(s, e),
         e.id \in Markets, e.creator \in Users, e.options \in Nat,
         e.created_at \in Time, e.closes_at \in Time
  PROVE  /\ IsState(Effect(s, e))
         /\ Effect(s, e) = [s EXCEPT !.markets = Insert(@, e.id, NewMarket(e))]
<1>1. Effect(s, e) = [s EXCEPT !.markets = Insert(@, e.id, NewMarket(e))]
  BY DEF Effect
<1>2. NewMarket(e) \in Market
  BY I64MaxAssumption DEF NewMarket, Market, Points
<1>3. IsMap(Insert(s.markets, e.id, NewMarket(e)), Markets, Market)
  BY <1>2, InsertIsMap DEF IsState
<1> QED
  BY <1>1, <1>3 DEF IsState

\* BetPlaced: the debited balance and the pool stay in range.
LEMMA BetTyped ==
  ASSUME NEW s, IsState(s), NEW e, e.type = "BetPlaced", Applicable(s, e),
         e.outcome \in Outcomes, e.amount \in Int
  PROVE  /\ IsState(Effect(s, e))
         /\ CanBet(s, e)
         /\ Effect(s, e) = ApplyBet(s, e)
<1>1. CanBet(s, e) /\ Effect(s, e) = ApplyBet(s, e)
  BY DEF Applicable, Effect
<1> DEFINE account == s.accounts[e.user]
           market == s.markets[e.id]
<1>2. /\ e.user \in DOMAIN s.accounts /\ e.id \in DOMAIN s.markets
      /\ account \in Account /\ market \in Market /\ e.user \in Users
  BY <1>1 DEF CanBet, IsState, IsMap
<1> DEFINE account2 == Debited(account, e)
           market2 == Staked(market, e)
<1>3. account2 \in Account
  BY <1>1, <1>2, I64MaxAssumption DEF CanBet, Account, Points, Debited
<1>4. market2 \in Market
  <2>1. market.total_staked + e.amount \in Points
    BY <1>1, <1>2, I64MaxAssumption DEF CanBet, Market, Points
  <2>2. /\ market.bets \in [Users -> [Outcomes -> Nat]]
        /\ market.bets[e.user][e.outcome] + e.amount \in Nat
    BY <1>1, <1>2, I64MaxAssumption DEF CanBet, Market, Points
  <2>3. [market.bets EXCEPT ![e.user][e.outcome] = @ + e.amount]
            \in [Users -> [Outcomes -> Nat]]
    BY <2>2
  <2> QED
    BY <1>2, <2>1, <2>3 DEF Market, Staked
<1>5. IsMap([s.accounts EXCEPT ![e.user] = account2], Users, Account)
  BY <1>2, <1>3 DEF IsMap, IsState
<1>6. IsMap([s.markets EXCEPT ![e.id] = market2], Markets, Market)
  BY <1>2, <1>4 DEF IsMap, IsState
<1>7. Effect(s, e) = [policy |-> s.policy,
                      accounts |-> [s.accounts EXCEPT ![e.user] = account2],
                      markets |-> [s.markets EXCEPT ![e.id] = market2]]
  BY <1>1 DEF ApplyBet, IsState
<1> QED
  BY <1>1, <1>5, <1>6, <1>7 DEF IsState

\* credit_allocations keeps every balance in range and every due time.
LEMMA CreditTyped ==
  ASSUME NEW accounts, IsMap(accounts, Users, Account),
         NEW entries, Creditable(accounts, entries)
  PROVE  /\ IsMap(Credit(accounts, entries), Users, Account)
         /\ DOMAIN Credit(accounts, entries) = DOMAIN accounts
         /\ \A u \in DOMAIN accounts :
                Credit(accounts, entries)[u].next_grant = accounts[u].next_grant
<1>1. ASSUME NEW u \in DOMAIN accounts
      PROVE  [accounts[u] EXCEPT !.balance = @ + entries[u]] \in Account
  <2>1. u \in Users /\ accounts[u] \in Account /\ entries[u] \in Points
    BY DEF IsMap, Creditable
  <2>2. accounts[u].balance + entries[u] <= I64Max
    BY <2>1, I64MaxAssumption DEF Creditable, Recipients, Account, Points
  <2> QED
    BY <2>1, <2>2, I64MaxAssumption DEF Account, Points
<1> QED
  BY <1>1 DEF Credit, IsMap, Account

\* MarketResolved keeps the types of accounts and markets.
LEMMA ResolutionTyped ==
  ASSUME NEW s, IsState(s), NEW e, e.type = "MarketResolved", Applicable(s, e),
         e.outcome \in Outcomes, e.refunded \in BOOLEAN
  PROVE  /\ IsState(Effect(s, e))
         /\ Effect(s, e).policy = s.policy
         /\ Effect(s, e).accounts = Credit(s.accounts, e.payouts)
         /\ Creditable(s.accounts, e.payouts)
<1>1. CanResolve(s, e) /\ Effect(s, e) = ApplyResolution(s, e)
  BY DEF Applicable, Effect
<1>2. e.id \in DOMAIN s.markets /\ Creditable(s.accounts, e.payouts)
  BY <1>1 DEF CanResolve
<1>3. s.markets[e.id] \in Market /\ e.payouts \in [Users -> Points]
  BY <1>2 DEF IsState, IsMap, Creditable
<1> DEFINE market == [s.markets[e.id] EXCEPT !.status = "Resolved", !.outcome = e.outcome,
                                             !.refunded = e.refunded, !.payouts = e.payouts]
<1>4. market \in Market
  BY <1>3 DEF Market
<1>5. IsMap([s.markets EXCEPT ![e.id] = market], Markets, Market)
  BY <1>2, <1>4 DEF IsMap, IsState
<1>6. IsMap(Credit(s.accounts, e.payouts), Users, Account)
  BY <1>2, CreditTyped DEF IsState
<1>7. Effect(s, e) = [policy |-> s.policy,
                      accounts |-> Credit(s.accounts, e.payouts),
                      markets |-> [s.markets EXCEPT ![e.id] = market]]
  BY <1>1 DEF ApplyResolution, IsState
<1> QED
  BY <1>2, <1>5, <1>6, <1>7 DEF IsState

\* MarketCancelled keeps the types of accounts and markets.
LEMMA CancellationTyped ==
  ASSUME NEW s, IsState(s), NEW e, e.type = "MarketCancelled", Applicable(s, e)
  PROVE  /\ IsState(Effect(s, e))
         /\ Effect(s, e).policy = s.policy
         /\ Effect(s, e).accounts = Credit(s.accounts, e.refunds)
         /\ Creditable(s.accounts, e.refunds)
<1>1. CanCancel(s, e) /\ Effect(s, e) = ApplyCancellation(s, e)
  BY DEF Applicable, Effect
<1>2. e.id \in DOMAIN s.markets /\ Creditable(s.accounts, e.refunds)
  BY <1>1 DEF CanCancel
<1> DEFINE market == [s.markets[e.id] EXCEPT !.status = "Cancelled"]
<1>3. market \in Market
  <2>1. s.markets[e.id] \in Market
    BY <1>2 DEF IsState, IsMap
  <2> QED
    BY <2>1 DEF Market
<1>4. IsMap([s.markets EXCEPT ![e.id] = market], Markets, Market)
  BY <1>2, <1>3 DEF IsMap, IsState
<1>5. IsMap(Credit(s.accounts, e.refunds), Users, Account)
  BY <1>2, CreditTyped DEF IsState
<1>6. Effect(s, e) = [policy |-> s.policy,
                      accounts |-> Credit(s.accounts, e.refunds),
                      markets |-> [s.markets EXCEPT ![e.id] = market]]
  BY <1>1, <1>2 DEF ApplyCancellation, IsState, IsMap
<1> QED
  BY <1>2, <1>4, <1>5, <1>6 DEF IsState

\* MarketResolverAdded and MarketResolverRemoved keep the set of resolvers.
LEMMA ResolverChangeTyped ==
  ASSUME NEW s, IsState(s), NEW e,
         e.type \in {"MarketResolverAdded", "MarketResolverRemoved"},
         Applicable(s, e), e.user \in Users
  PROVE  /\ IsState(Effect(s, e))
         /\ Effect(s, e).policy = s.policy
         /\ Effect(s, e).accounts = s.accounts
<1>1. CanChangeResolver(s, e) /\ Effect(s, e) = ApplyResolverChange(s, e)
  BY DEF Applicable, Effect
<1>2. e.id \in DOMAIN s.markets /\ s.markets[e.id] \in Market
  BY <1>1 DEF CanChangeResolver, IsState, IsMap
<1> DEFINE resolvers == IF e.type = "MarketResolverAdded"
                        THEN s.markets[e.id].resolvers \cup {e.user}
                        ELSE s.markets[e.id].resolvers \ {e.user}
           market == [s.markets[e.id] EXCEPT !.resolvers = resolvers]
<1>3. market \in Market
  BY <1>2 DEF Market
<1>4. IsMap([s.markets EXCEPT ![e.id] = market], Markets, Market)
  BY <1>2, <1>3 DEF IsMap, IsState
<1>5. Effect(s, e) = [policy |-> s.policy, accounts |-> s.accounts,
                      markets |-> [s.markets EXCEPT ![e.id] = market]]
  BY <1>1, <1>2 DEF ApplyResolverChange, IsState, IsMap
<1> QED
  BY <1>4, <1>5 DEF IsState

-----------------------------------------------------------------------------
(* Grants.                                                                 *)

\* What the provers need of integer division.
LEMMA DivisionBounds ==
  ASSUME NEW a \in Nat, NEW b \in Nat \ {0}
  PROVE  /\ a \div b \in Nat
         /\ b * (a \div b) <= a
         /\ a < b * (a \div b) + b
         /\ a % b = 0 => a = b * (a \div b)
  OBVIOUS

\* What an accepted grant event did to the account it names.
LEMMA GrantArithmetic ==
  ASSUME NEW s, IsState(s), NEW e, CanGrant(s, e),
         e.through_due \in Int, e.amount \in Int
  PROVE  LET account == s.accounts[e.user]
         IN  /\ e.amount \in Nat
             /\ e.next_grant \in Int
             /\ e.amount * s.policy.interval
                    = s.policy.amount * (e.next_grant - account.next_grant)
<1> DEFINE account == s.accounts[e.user]
           span == e.through_due - e.from_due
           interval == s.policy.interval
<1>1. account \in Account /\ s.policy \in Policy
  BY DEF CanGrant, IsState, IsMap
<1>2. interval \in Nat \ {0} /\ span \in Nat /\ account.next_grant \in Nat
  BY <1>1, I64MaxAssumption DEF CanGrant, Policy, Account, Time
<1>3. span = interval * (span \div interval) /\ span \div interval \in Nat
  BY <1>2, DivisionBounds DEF CanGrant
<1>4. e.amount = s.policy.amount * (span \div interval + 1) /\ s.policy.amount \in Nat
  BY <1>1, I64MaxAssumption DEF CanGrant, GrantCount, Policy
<1>5. e.next_grant - account.next_grant = interval * (span \div interval + 1)
  <2>1. e.next_grant - account.next_grant = span + interval
    BY <1>2 DEF CanGrant
  <2>2. ASSUME NEW k \in Nat, NEW i \in Nat PROVE i * (k + 1) = i * k + i
    OBVIOUS
  <2> QED
    BY <1>2, <1>3, <2>1, <2>2
<1>6. e.amount \in Nat /\ e.next_grant \in Int
  BY <1>2 DEF CanGrant
<1>7. ASSUME NEW k \in Nat, NEW a \in Nat, NEW i \in Nat
      PROVE  (a * k) * i = a * (i * k)
  OBVIOUS
<1> DEFINE count == span \div interval + 1
<1>8. count \in Nat /\ interval \in Nat
  BY <1>2, <1>3
<1>9. (s.policy.amount * count) * interval = s.policy.amount * (interval * count)
  <2> HIDE DEF count, interval
  <2> QED
    BY <1>4, <1>7, <1>8
<1> QED
  BY <1>4, <1>5, <1>6, <1>9

\* An enrollment and its initial grant, from a state with a policy: the member
\* gets the policy's amount and is due again an interval later.
LEMMA EnrollAndGrant ==
  ASSUME NEW s, IsState(s), NEW u \in Users, NEW time \in Time,
         NEW f, f = [type |-> "MemberEnrolled", user |-> u, enrolled_at |-> time],
         NEW g, g = [type |-> "PointsGranted", user |-> u, reason |-> "Initial",
                     amount |-> s.policy.amount, from_due |-> time, through_due |-> time,
                     next_grant |-> time + s.policy.interval],
         Applicable(s, f), Applicable(Effect(s, f), g)
  PROVE  LET r == Effect(Effect(s, f), g)
         IN  /\ IsState(r)
             /\ r.policy = s.policy /\ s.policy \in Policy
             /\ u \notin DOMAIN s.accounts
             /\ DOMAIN r.accounts = DOMAIN s.accounts \cup {u}
             /\ r.accounts[u].next_grant = time + s.policy.interval
             /\ r.accounts[u].balance = s.policy.amount
             /\ \A v \in DOMAIN s.accounts : r.accounts[v] = s.accounts[v]
             /\ r.markets = s.markets
<1> DEFINE t == Effect(s, f)
<1>1. f.type = "MemberEnrolled" /\ f.user = u /\ f.enrolled_at = time
  OBVIOUS
<1>2. /\ IsState(t) /\ s.policy # NoPolicy /\ t = ApplyEnrollment(s, f)
      /\ u \notin DOMAIN s.accounts
  BY <1>1, EnrollmentTyped
<1>3. s.policy \in Policy
  BY <1>2 DEF IsState
<1>4. /\ t.policy = s.policy /\ t.markets = s.markets
      /\ t.accounts = Insert(s.accounts, u, [balance |-> 0, next_grant |-> time])
  BY <1>1, <1>2 DEF ApplyEnrollment, IsState
<1>5. /\ DOMAIN t.accounts = DOMAIN s.accounts \cup {u}
      /\ \A v \in DOMAIN s.accounts : t.accounts[v] = s.accounts[v]
      /\ t.accounts[u].balance = 0
  BY <1>2, <1>4 DEF Insert
<1>6. /\ g.type = "PointsGranted" /\ g.user = u /\ g.next_grant = time + s.policy.interval
      /\ g.amount = s.policy.amount
  OBVIOUS
<1>7. g.through_due \in Int /\ g.amount \in Int
  BY <1>3, I64MaxAssumption DEF Policy, Time
<1>8. IsState(Effect(t, g)) /\ Effect(t, g) = ApplyGrant(t, g)
  BY <1>2, <1>6, <1>7, GrantTyped
<1>9. /\ Effect(t, g).policy = t.policy /\ Effect(t, g).markets = t.markets
      /\ Effect(t, g).accounts =
            [t.accounts EXCEPT ![u] = [balance |-> t.accounts[u].balance + g.amount,
                                       next_grant |-> g.next_grant]]
  BY <1>2, <1>6, <1>8 DEF ApplyGrant, IsState
<1> QED
  BY <1>2, <1>3, <1>4, <1>5, <1>6, <1>7, <1>8, <1>9

-----------------------------------------------------------------------------
(* Replay.  A projection is built from the one before it, so two histories *)
(* that agree on their first rows agree on the projection of those rows.   *)

\* A set of natural numbers that is not empty has a least element.
LEMMA LeastNumber ==
  ASSUME NEW S \in SUBSET Nat, S # {}
  PROVE  \E x \in S : \A y \in S : x <= y
<1>1. PICK x \in S : \A y \in S : ~(<<y, x>> \in OpToRel(<, Nat))
  BY NatLessThanWellFounded, WFMin
<1>2. ASSUME NEW y \in S PROVE x <= y
  <2>1. <<y, x>> \in Nat \X Nat
    OBVIOUS
  <2>2. ~(<<y, x>>[1] < <<y, x>>[2])
    BY <1>1, <2>1 DEF OpToRel
  <2> QED
    BY <2>2
<1> QED
  BY <1>2

\* f[k] is the projection of the first k events of h, for k up to n.
Projects(f, h, n) ==
  f = [k \in 0 .. n |-> IF k = 0 THEN EmptyState ELSE Apply(f[k - 1], h[k])]

\* Every history has its projections.
LEMMA ProjectionsExist ==
  ASSUME NEW h, NEW n \in Nat
  PROVE  \E f : Projects(f, h, n)
<1> DEFINE S == {k \in Nat : ~\E f : Projects(f, h, k)}
<1> SUFFICES ASSUME S # {} PROVE FALSE
  OBVIOUS
<1>1. PICK m \in S : \A y \in S : m <= y
  BY LeastNumber
<1>2. CASE m = 0
  <2> DEFINE f == [k \in 0 .. 0 |-> EmptyState]
  <2>1. Projects(f, h, 0)
    BY DEF Projects
  <2> QED
    BY <1>1, <1>2, <2>1
<1>3. CASE m # 0
  <2>1. m - 1 \in Nat /\ m - 1 \notin S
    BY <1>1, <1>3
  <2>2. PICK g : Projects(g, h, m - 1)
    BY <2>1
  <2> DEFINE f == [k \in 0 .. m |-> IF k = m THEN Apply(g[m - 1], h[m]) ELSE g[k]]
  <2>3. ASSUME NEW k \in 0 .. m
        PROVE  f[k] = IF k = 0 THEN EmptyState ELSE Apply(f[k - 1], h[k])
    <3>1. CASE k = m
      <4>1. f[m] = Apply(g[m - 1], h[m]) /\ f[m - 1] = g[m - 1]
        BY <1>3, <2>1
      <4> QED
        BY <1>3, <3>1, <4>1
    <3>2. CASE k # m
      <4>1. k \in 0 .. m - 1 /\ f[k] = g[k]
        BY <3>2
      <4>2. g[k] = IF k = 0 THEN EmptyState ELSE Apply(g[k - 1], h[k])
        BY <2>2, <4>1 DEF Projects
      <4>3. k # 0 => f[k - 1] = g[k - 1]
        BY <4>1
      <4> QED
        BY <4>1, <4>2, <4>3
    <3> QED
      BY <3>1, <3>2
  <2>4. f = [k \in 0 .. m |-> f[k]]
    OBVIOUS
  <2> HIDE DEF f
  <2>5. Projects(f, h, m)
    BY <2>3, <2>4 DEF Projects
  <2> QED
    BY <1>1, <2>5
<1> QED
  BY <1>2, <1>3

\* The projection of a row depends on the rows before it and on nothing else.
LEMMA ProjectionsAgree ==
  ASSUME NEW f, NEW g, NEW h, NEW i, NEW n \in Nat, NEW m \in Nat, NEW j \in Nat,
         Projects(f, h, n), Projects(g, i, m), j <= n, j <= m,
         \A k \in 1 .. j : h[k] = i[k]
  PROVE  f[j] = g[j]
<1> DEFINE S == {k \in 0 .. j : f[k] # g[k]}
<1> SUFFICES ASSUME S # {} PROVE FALSE
  OBVIOUS
<1>1. PICK k \in S : \A y \in S : k <= y
  BY LeastNumber, S \subseteq Nat
<1>2. /\ f[k] = IF k = 0 THEN EmptyState ELSE Apply(f[k - 1], h[k])
      /\ g[k] = IF k = 0 THEN EmptyState ELSE Apply(g[k - 1], i[k])
  <2>1. k \in 0 .. n /\ k \in 0 .. m
    OBVIOUS
  <2>2. f[k] = IF k = 0 THEN EmptyState ELSE Apply(f[k - 1], h[k])
    BY <2>1 DEF Projects
  <2>3. g[k] = IF k = 0 THEN EmptyState ELSE Apply(g[k - 1], i[k])
    BY <2>1 DEF Projects
  <2> QED
    BY <2>2, <2>3
<1>3. k # 0
  BY <1>2
<1>4. k - 1 \in 0 .. j /\ k - 1 \notin S
  BY <1>1, <1>3
<1>5. f[k - 1] = g[k - 1] /\ h[k] = i[k]
  BY <1>3, <1>4
<1> QED
  BY <1>2, <1>3, <1>5

\* Replay computes the last projection of its history.
LEMMA ReplayProjects ==
  ASSUME NEW h, Len(h) \in Nat
  PROVE  \E f : Projects(f, h, Len(h)) /\ Replay(h) = f[Len(h)]
<1> DEFINE Body(f) ==
      [n \in 0 .. Len(h) |->
          IF n = 0 THEN EmptyState
          ELSE CHOOSE next \in {Apply(s, h[n]) : s \in {f[n - 1]}} : TRUE]
    after == CHOOSE f : f = Body(f)
<1>1. ASSUME NEW f PROVE Body(f) = [n \in 0 .. Len(h) |->
            IF n = 0 THEN EmptyState ELSE Apply(f[n - 1], h[n])]
  OBVIOUS
<1>2. PICK g : Projects(g, h, Len(h))
  BY ProjectionsExist
<1>3. Replay(h) = after[Len(h)]
  BY DEF Replay
<1>4. g = Body(g)
  BY <1>1, <1>2 DEF Projects
<1>5. after = Body(after)
  <2> HIDE DEF Body
  <2> QED
    BY <1>4
<1>6. Projects(after, h, Len(h))
  BY <1>1, <1>5 DEF Projects
<1> QED
  BY <1>3, <1>6

\* Without events the guild is empty.
LEMMA ReplayNothing ==
  ASSUME NEW h, Len(h) = 0
  PROVE  Replay(h) = EmptyState
<1>1. PICK f : Projects(f, h, Len(h)) /\ Replay(h) = f[Len(h)]
  BY ReplayProjects
<1> QED
  BY <1>1 DEF Projects

\* Histories that agree on all their rows have the same projection.
LEMMA ReplaySame ==
  ASSUME NEW h, NEW i, Len(h) \in Nat, Len(i) = Len(h), \A k \in 1 .. Len(h) : h[k] = i[k]
  PROVE  Replay(h) = Replay(i)
<1>1. PICK f : Projects(f, h, Len(h)) /\ Replay(h) = f[Len(h)]
  BY ReplayProjects
<1>2. PICK g : Projects(g, i, Len(i)) /\ Replay(i) = g[Len(i)]
  BY ReplayProjects
<1> QED
  BY <1>1, <1>2, ProjectionsAgree

\* Replaying a history with a decision at its end is replaying the history and
\* applying the decision: load agrees with the view transact computed.
LEMMA ReplayDecision ==
  ASSUME NEW h, NEW d, NEW i, Len(h) \in Nat, Len(d) \in 0 .. 3,
         Len(i) = Len(h) + Len(d),
         \A k \in 1 .. Len(h) : i[k] = h[k],
         \A k \in 1 .. Len(d) : i[Len(h) + k] = d[k]
  PROVE  Replay(i) = ApplyDecision(Replay(h), d)
<1> DEFINE n == Len(h)
<1>1. PICK f : Projects(f, h, n) /\ Replay(h) = f[n]
  BY ReplayProjects
<1>2. PICK g : Projects(g, i, Len(i)) /\ Replay(i) = g[Len(i)]
  <2>1. Len(i) \in Nat
    OBVIOUS
  <2> QED
    BY <2>1, ReplayProjects
<1>3. g[n] = Replay(h)
  BY <1>1, <1>2, ProjectionsAgree
<1>4. ASSUME NEW k \in 1 .. Len(d)
      PROVE  g[n + k] = Apply(g[n + k - 1], d[k])
  <2>1. n + k \in 0 .. Len(i) /\ n + k # 0
    OBVIOUS
  <2>2. g[n + k] = Apply(g[n + k - 1], i[n + k])
    <3> DEFINE j == n + k
    <3>1. j \in 0 .. Len(i) /\ j # 0
      BY <2>1
    <3>2. g[j] = Apply(g[j - 1], i[j])
      <4> HIDE DEF j
      <4> QED
        BY <1>2, <3>1 DEF Projects
    <3> QED
      BY <3>2
  <2> QED
    BY <2>2
<1>5. \A k \in 1 .. Len(d) : g[n + k] = Apply(g[n + k - 1], d[k])
  BY <1>4
<1>6. CASE Len(d) = 0
  BY <1>2, <1>3, <1>6 DEF ApplyDecision, ApplyNth
<1>7. CASE Len(d) = 1
  <2>1. g[n + 1] = Apply(g[n], d[1])
    BY <1>5, <1>7
  <2> QED
    BY <1>2, <1>3, <1>7, <2>1 DEF ApplyDecision, ApplyNth
<1>8. CASE Len(d) = 2
  <2>1. g[n + 1] = Apply(g[n], d[1])
    BY <1>5, <1>8
  <2>2. g[n + 2] = Apply(g[n + 1], d[2])
    BY <1>5, <1>8
  <2> QED
    BY <1>2, <1>3, <1>8, <2>1, <2>2 DEF ApplyDecision, ApplyNth
<1>9. CASE Len(d) = 3
  <2>1. g[n + 1] = Apply(g[n], d[1])
    BY <1>5, <1>9
  <2>2. g[n + 2] = Apply(g[n + 1], d[2])
    BY <1>5, <1>9
  <2>3. g[n + 3] = Apply(g[n + 2], d[3])
    BY <1>5, <1>9
  <2> QED
    BY <1>2, <1>3, <1>9, <2>1, <2>2, <2>3 DEF ApplyDecision, ApplyNth
<1> QED
  BY <1>6, <1>7, <1>8, <1>9

-----------------------------------------------------------------------------
(* Sums.  The library defines a sum by a recursive function that takes out *)
(* a chosen element; these are the laws of sums over finite sets.          *)

\* The element that SumFunctionOnSet adds next.
Pick(S) == CHOOSE x \in S : TRUE

\* sum[s] is the sum of f over s, for the subsets s of S of at most n elements.
SumsUp(sum, f, S, n) ==
  sum = [s \in {t \in SUBSET S : Cardinality(t) <= n} |->
            IF s = {} THEN 0 ELSE f[Pick(s)] + sum[s \ {Pick(s)}]]

\* What SumFunctionOnSet computes: sums over all subsets, by taking elements out.
LEMMA SumUnfold ==
  ASSUME NEW f, NEW S
  PROVE  SumFunctionOnSet(f, S) =
            (CHOOSE sum : sum = [s \in SUBSET S |->
                IF s = {} THEN 0 ELSE f[Pick(s)] + sum[s \ {Pick(s)}]])[S]
  BY DEF SumFunctionOnSet, FoldFunctionOnSet, MapThenFoldSet, Pick

\* For every size there is a function with the sums of the subsets up to it.
LEMMA SumsExist ==
  ASSUME NEW f, NEW S, IsFiniteSet(S), NEW n \in Nat
  PROVE  \E sum : SumsUp(sum, f, S, n)
<1> DEFINE B == {k \in Nat : ~\E sum : SumsUp(sum, f, S, k)}
<1> SUFFICES ASSUME B # {} PROVE FALSE
  OBVIOUS
<1>1. PICK k \in B : \A j \in B : k <= j
  BY LeastNumber
<1>2. CASE k = 0
  <2> DEFINE sum == [s \in {t \in SUBSET S : Cardinality(t) <= 0} |-> 0]
  <2>1. \A t \in SUBSET S : Cardinality(t) <= 0 => t = {}
    BY FS_Subset, FS_EmptySet, FS_CardinalityType
  <2>2. SumsUp(sum, f, S, 0)
    BY <2>1 DEF SumsUp
  <2> QED
    BY <1>1, <1>2, <2>2
<1>3. CASE k # 0
  <2>1. k - 1 \in Nat /\ k - 1 \notin B
    BY <1>1, <1>3
  <2>2. PICK old : SumsUp(old, f, S, k - 1)
    BY <2>1
  <2> DEFINE new == [s \in {t \in SUBSET S : Cardinality(t) <= k} |->
                        IF s = {} THEN 0 ELSE f[Pick(s)] + old[s \ {Pick(s)}]]
  <2>3. ASSUME NEW t \in SUBSET S, Cardinality(t) <= k - 1 PROVE new[t] = old[t]
    <3>1. Cardinality(t) \in Nat /\ Cardinality(t) <= k
      BY <2>1, <2>3, FS_Subset, FS_CardinalityType
    <3> QED
      BY <2>2, <2>3, <3>1 DEF SumsUp
  <2>4. ASSUME NEW s \in SUBSET S, Cardinality(s) <= k, s # {}
        PROVE  new[s \ {Pick(s)}] = old[s \ {Pick(s)}]
    <3>1. Pick(s) \in s
      BY <2>4 DEF Pick
    <3>2. IsFiniteSet(s) /\ Cardinality(s) \in Nat
      BY FS_Subset, FS_CardinalityType
    <3>3. Cardinality(s \ {Pick(s)}) = Cardinality(s) - 1
      BY <3>1, <3>2, FS_RemoveElement
    <3>4. s \ {Pick(s)} \in SUBSET S /\ Cardinality(s \ {Pick(s)}) <= k - 1
      BY <2>4, <3>2, <3>3
    <3> HIDE DEF new
    <3> QED
      BY <2>3, <3>4
  <2>5. SumsUp(new, f, S, k)
    <3> SUFFICES new = [s \in {t \in SUBSET S : Cardinality(t) <= k} |->
                          IF s = {} THEN 0 ELSE f[Pick(s)] + new[s \ {Pick(s)}]]
      BY DEF SumsUp
    <3> QED
      BY <2>4
  <2> QED
    BY <1>1, <2>5
<1> QED
  BY <1>2, <1>3

\* The partial sums that SumFunctionOnSet computes.
Partial(f, S) ==
  CHOOSE sum : sum = [s \in SUBSET S |->
                         IF s = {} THEN 0 ELSE f[Pick(s)] + sum[s \ {Pick(s)}]]

\* The partial sums satisfy their recursive definition.
LEMMA PartialSums ==
  ASSUME NEW f, NEW S, IsFiniteSet(S)
  PROVE  /\ SumFunctionOnSet(f, S) = Partial(f, S)[S]
         /\ Partial(f, S)[{}] = 0
         /\ \A s \in SUBSET S : s # {} =>
                Partial(f, S)[s] = f[Pick(s)] + Partial(f, S)[s \ {Pick(s)}]
<1>1. Cardinality(S) \in Nat /\ \A t \in SUBSET S : Cardinality(t) <= Cardinality(S)
  BY FS_CardinalityType, FS_Subset
<1>2. PICK sum : SumsUp(sum, f, S, Cardinality(S))
  BY <1>1, SumsExist
<1>3. {t \in SUBSET S : Cardinality(t) <= Cardinality(S)} = SUBSET S
  BY <1>1
<1>4. sum = [s \in SUBSET S |-> IF s = {} THEN 0 ELSE f[Pick(s)] + sum[s \ {Pick(s)}]]
  BY <1>2, <1>3 DEF SumsUp
<1>5. Partial(f, S) = [s \in SUBSET S |->
          IF s = {} THEN 0 ELSE f[Pick(s)] + Partial(f, S)[s \ {Pick(s)}]]
  BY <1>4 DEF Partial
<1> QED
  BY <1>5, SumUnfold DEF Partial

\* Among sets of subsets of a finite set, one has no smaller one in it.
LEMMA SmallestSet ==
  ASSUME NEW S, IsFiniteSet(S), NEW B \in SUBSET (SUBSET S), B # {}
  PROVE  \E s \in B : \A t \in SUBSET s : t # s => t \notin B
<1> DEFINE N == {k \in Nat : \E s \in B : Cardinality(s) = k}
<1>1. \A s \in B : IsFiniteSet(s) /\ Cardinality(s) \in Nat
  BY FS_Subset, FS_CardinalityType
<1>2. N # {}
  BY <1>1
<1>3. PICK k \in N : \A j \in N : k <= j
  BY <1>2, LeastNumber
<1>4. PICK s \in B : Cardinality(s) = k
  BY <1>3
<1>5. ASSUME NEW t \in SUBSET s, t # s, t \in B PROVE FALSE
  <2>1. Cardinality(t) \in N
    BY <1>1, <1>5
  <2>2. Cardinality(t) <= Cardinality(s) /\ Cardinality(t) # Cardinality(s)
    BY <1>1, <1>5, FS_Subset
  <2>3. k <= Cardinality(t)
    BY <1>3, <2>1
  <2> QED
    BY <1>1, <1>4, <1>5, <2>2, <2>3
<1> QED
  BY <1>5

\* The order of a sum does not matter: any element can be taken out first.
LEMMA PartialRemove ==
  ASSUME NEW f, NEW S, IsFiniteSet(S), \A x \in S : f[x] \in Int
  PROVE  \A s \in SUBSET S :
            /\ Partial(f, S)[s] \in Int
            /\ \A x \in s : Partial(f, S)[s] = f[x] + Partial(f, S)[s \ {x}]
<1> DEFINE sum == Partial(f, S)
           Good(s) == /\ sum[s] \in Int
                      /\ \A x \in s : sum[s] = f[x] + sum[s \ {x}]
           B == {s \in SUBSET S : ~Good(s)}
<1> SUFFICES ASSUME B # {} PROVE FALSE
  OBVIOUS
<1>1. PICK s \in B : \A t \in SUBSET s : t # s => t \notin B
  <2>1. B \in SUBSET (SUBSET S)
    OBVIOUS
  <2> HIDE DEF B
  <2> QED
    BY <2>1, SmallestSet
<1>2. ASSUME NEW t \in SUBSET s, t # s PROVE Good(t)
  BY <1>1, <1>2
<1>3. /\ sum[{}] = 0
      /\ s # {} => sum[s] = f[Pick(s)] + sum[s \ {Pick(s)}]
  <2>1. s \in SUBSET S
    OBVIOUS
  <2> HIDE DEF B
  <2> QED
    BY <2>1, PartialSums
<1>4. s # {}
  <2>1. Good({})
    BY <1>3
  <2> QED
    BY <1>1, <2>1
<1> DEFINE c == Pick(s)
<1>5. c \in s
  BY <1>4 DEF Pick
<1>6. sum[s] = f[c] + sum[s \ {c}]
  BY <1>3, <1>4
<1> HIDE DEF sum, c
<1>7. ASSUME NEW x \in s PROVE f[x] \in Int /\ sum[s \ {x}] \in Int
  BY <1>2
<1>8. sum[s] \in Int
  BY <1>5, <1>6, <1>7
<1>9. ASSUME NEW x \in s, x # c PROVE sum[s] = f[x] + sum[s \ {x}]
  <2> DEFINE rest == (s \ {c}) \ {x}
  <2>1. rest = (s \ {x}) \ {c} /\ x \in s \ {c} /\ c \in s \ {x}
    BY <1>5, <1>9
  <2>2. sum[s \ {c}] = f[x] + sum[rest]
    BY <1>2, <1>5, <2>1
  <2>3. sum[s \ {x}] = f[c] + sum[(s \ {x}) \ {c}]
    BY <1>2, <1>9, <2>1
  <2>4. sum[rest] \in Int
    BY <1>2, <1>5
  <2> HIDE DEF rest
  <2> QED
    BY <1>5, <1>6, <1>7, <2>1, <2>2, <2>3, <2>4
<1> QED
  BY <1>1, <1>6, <1>8, <1>9

\* Sums over the subsets of two sets agree where the functions do.
LEMMA PartialAgree ==
  ASSUME NEW f, NEW g, NEW S, NEW T, IsFiniteSet(S), IsFiniteSet(T)
  PROVE  \A s \in SUBSET (S \cap T) :
            (\A x \in s : f[x] = g[x]) => Partial(f, S)[s] = Partial(g, T)[s]
<1> DEFINE Good(s) == (\A x \in s : f[x] = g[x]) => Partial(f, S)[s] = Partial(g, T)[s]
           B == {s \in SUBSET (S \cap T) : ~Good(s)}
<1> SUFFICES ASSUME B # {} PROVE FALSE
  OBVIOUS
<1>1. B \in SUBSET (SUBSET S)
  OBVIOUS
<1>2. PICK s \in B : \A t \in SUBSET s : t # s => t \notin B
  <2> HIDE DEF B
  <2> QED
    BY <1>1, SmallestSet
<1>3. /\ Partial(f, S)[{}] = 0 /\ Partial(g, T)[{}] = 0
      /\ s # {} => /\ Partial(f, S)[s] = f[Pick(s)] + Partial(f, S)[s \ {Pick(s)}]
                   /\ Partial(g, T)[s] = g[Pick(s)] + Partial(g, T)[s \ {Pick(s)}]
  <2>1. s \in SUBSET S /\ s \in SUBSET T
    OBVIOUS
  <2> HIDE DEF B
  <2> QED
    BY <2>1, PartialSums
<1>4. s # {}
  BY <1>2, <1>3
<1>5. Pick(s) \in s
  BY <1>4 DEF Pick
<1>6. Good(s \ {Pick(s)})
  BY <1>2, <1>5
<1> QED
  BY <1>2, <1>3, <1>4, <1>5, <1>6

-----------------------------------------------------------------------------
\* Nothing sums up to zero.
LEMMA SumNone == ASSUME NEW f PROVE SumFunctionOnSet(f, {}) = 0
  BY PartialSums, FS_EmptySet

\* A sum of integers is an integer, and any summand can be taken out.
LEMMA SumRemove ==
  ASSUME NEW f, NEW S, IsFiniteSet(S), \A x \in S : f[x] \in Int
  PROVE  /\ SumFunctionOnSet(f, S) \in Int
         /\ \A x \in S : SumFunctionOnSet(f, S) = f[x] + SumFunctionOnSet(f, S \ {x})
<1>1. /\ SumFunctionOnSet(f, S) = Partial(f, S)[S] /\ Partial(f, S)[S] \in Int
      /\ \A x \in S : Partial(f, S)[S] = f[x] + Partial(f, S)[S \ {x}]
  BY PartialSums, PartialRemove
<1>2. ASSUME NEW x \in S
      PROVE  SumFunctionOnSet(f, S \ {x}) = Partial(f, S)[S \ {x}]
  <2>1. IsFiniteSet(S \ {x}) /\ S \ {x} \in SUBSET (S \cap (S \ {x}))
    BY FS_RemoveElement
  <2> QED
    BY <2>1, PartialSums, PartialAgree
<1> QED
  BY <1>1, <1>2

\* The sum depends on the summands only.
LEMMA SumSame ==
  ASSUME NEW f, NEW g, NEW S, IsFiniteSet(S), \A x \in S : f[x] = g[x]
  PROVE  SumFunctionOnSet(f, S) = SumFunctionOnSet(g, S)
  BY PartialSums, PartialAgree

\* The sum of two functions is the sum of their sums.
LEMMA SumPlus ==
  ASSUME NEW f, NEW g, NEW h, NEW S, IsFiniteSet(S),
         \A x \in S : f[x] \in Int /\ g[x] \in Int /\ h[x] = f[x] + g[x]
  PROVE  SumFunctionOnSet(h, S) = SumFunctionOnSet(f, S) + SumFunctionOnSet(g, S)
<1> DEFINE Good(s) ==
             SumFunctionOnSet(h, s) = SumFunctionOnSet(f, s) + SumFunctionOnSet(g, s)
           B == {s \in SUBSET S : ~Good(s)}
<1> SUFFICES ASSUME B # {} PROVE FALSE
  OBVIOUS
<1>1. PICK s \in B : \A t \in SUBSET s : t # s => t \notin B
  <2>1. B \in SUBSET (SUBSET S)
    OBVIOUS
  <2> HIDE DEF B
  <2> QED
    BY <2>1, SmallestSet
<1>2. s # {}
  <2>1. Good({})
    BY SumNone
  <2> QED
    BY <1>1, <2>1
<1>3. PICK x : x \in s
  BY <1>2
<1>4. Good(s \ {x}) /\ IsFiniteSet(s) /\ IsFiniteSet(s \ {x})
  BY <1>1, <1>3, FS_Subset
<1>5. /\ SumFunctionOnSet(h, s) = h[x] + SumFunctionOnSet(h, s \ {x})
      /\ SumFunctionOnSet(f, s) = f[x] + SumFunctionOnSet(f, s \ {x})
      /\ SumFunctionOnSet(g, s) = g[x] + SumFunctionOnSet(g, s \ {x})
      /\ SumFunctionOnSet(f, s \ {x}) \in Int /\ SumFunctionOnSet(g, s \ {x}) \in Int
  <2>1. \A y \in s : f[y] \in Int /\ g[y] \in Int /\ h[y] \in Int
    OBVIOUS
  <2> QED
    BY <1>3, <1>4, <2>1, SumRemove
<1>6. f[x] \in Int /\ g[x] \in Int /\ h[x] = f[x] + g[x]
  BY <1>3
<1> QED
  BY <1>1, <1>4, <1>5, <1>6

\* Zeros can be left out of a sum.
LEMMA SumSupport ==
  ASSUME NEW f, NEW S, IsFiniteSet(S), \A x \in S : f[x] \in Int,
         NEW T \in SUBSET S, \A x \in S \ T : f[x] = 0
  PROVE  SumFunctionOnSet(f, S) = SumFunctionOnSet(f, T)
<1> DEFINE Good(s) == SumFunctionOnSet(f, s) = SumFunctionOnSet(f, s \cap T)
           B == {s \in SUBSET S : ~Good(s)}
<1> SUFFICES ASSUME B # {} PROVE FALSE
  <2>1. Good(S)
    OBVIOUS
  <2>2. S \cap T = T
    OBVIOUS
  <2> QED
    BY <2>1, <2>2
<1>1. PICK s \in B : \A t \in SUBSET s : t # s => t \notin B
  <2>1. B \in SUBSET (SUBSET S)
    OBVIOUS
  <2> HIDE DEF B
  <2> QED
    BY <2>1, SmallestSet
<1>2. s # {}
  <2>1. {} \cap T = {}
    OBVIOUS
  <2> QED
    BY <1>1, <2>1
<1>3. PICK x : x \in s
  BY <1>2
<1>4. Good(s \ {x}) /\ IsFiniteSet(s) /\ IsFiniteSet(s \cap T)
  BY <1>1, <1>3, FS_Subset
<1>5. /\ SumFunctionOnSet(f, s) = f[x] + SumFunctionOnSet(f, s \ {x})
      /\ SumFunctionOnSet(f, s \cap T) \in Int
      /\ x \in T => SumFunctionOnSet(f, s \cap T)
                        = f[x] + SumFunctionOnSet(f, (s \cap T) \ {x})
  BY <1>3, <1>4, SumRemove
<1>6. CASE x \in T
  <2>1. (s \ {x}) \cap T = (s \cap T) \ {x}
    OBVIOUS
  <2> QED
    BY <1>1, <1>4, <1>5, <1>6, <2>1
<1>7. CASE x \notin T
  <2>1. (s \ {x}) \cap T = s \cap T /\ f[x] = 0
    BY <1>3, <1>7
  <2> QED
    BY <1>1, <1>4, <1>5, <2>1
<1> QED
  BY <1>6, <1>7

\* A sum of amounts is at least each of them.
LEMMA SumBounds ==
  ASSUME NEW f, NEW S, IsFiniteSet(S), \A x \in S : f[x] \in Nat
  PROVE  /\ SumFunctionOnSet(f, S) \in Nat
         /\ \A x \in S : f[x] <= SumFunctionOnSet(f, S)
<1> DEFINE B == {s \in SUBSET S : SumFunctionOnSet(f, s) \notin Nat}
<1>1. ASSUME B # {} PROVE FALSE
  <2>1. PICK s \in B : \A t \in SUBSET s : t # s => t \notin B
    <3>1. B \in SUBSET (SUBSET S)
      OBVIOUS
    <3> HIDE DEF B
    <3> QED
      BY <1>1, <3>1, SmallestSet
  <2>2. s # {}
    <3>1. SumFunctionOnSet(f, {}) \in Nat
      BY SumNone
    <3> QED
      BY <2>1, <3>1
  <2>3. PICK x : x \in s
    BY <2>2
  <2>4. SumFunctionOnSet(f, s \ {x}) \in Nat /\ IsFiniteSet(s) /\ f[x] \in Nat
    BY <2>1, <2>3, FS_Subset
  <2>5. SumFunctionOnSet(f, s) = f[x] + SumFunctionOnSet(f, s \ {x})
    BY <2>3, <2>4, SumRemove
  <2> QED
    BY <2>1, <2>4, <2>5
<1>2. \A s \in SUBSET S : SumFunctionOnSet(f, s) \in Nat
  BY <1>1
<1>3. ASSUME NEW x \in S PROVE f[x] <= SumFunctionOnSet(f, S)
  <2>1. SumFunctionOnSet(f, S) = f[x] + SumFunctionOnSet(f, S \ {x})
    BY SumRemove
  <2>2. SumFunctionOnSet(f, S \ {x}) \in Nat /\ f[x] \in Nat
    BY <1>2
  <2> QED
    BY <2>1, <2>2
<1> QED
  BY <1>2, <1>3

\* One summand more.
LEMMA SumInsert ==
  ASSUME NEW f, NEW S, IsFiniteSet(S), NEW y, y \notin S,
         \A x \in S \cup {y} : f[x] \in Int
  PROVE  SumFunctionOnSet(f, S \cup {y}) = f[y] + SumFunctionOnSet(f, S)
<1>1. IsFiniteSet(S \cup {y}) /\ (S \cup {y}) \ {y} = S
  BY FS_AddElement
<1> QED
  BY <1>1, SumRemove

\* One summand changed.
LEMMA SumChange ==
  ASSUME NEW f, NEW g, NEW S, IsFiniteSet(S), NEW y \in S,
         \A x \in S : f[x] \in Int /\ g[x] \in Int,
         \A x \in S \ {y} : g[x] = f[x]
  PROVE  SumFunctionOnSet(g, S) = SumFunctionOnSet(f, S) + g[y] - f[y]
<1>1. IsFiniteSet(S \ {y})
  BY FS_RemoveElement
<1>2. /\ SumFunctionOnSet(f, S) = f[y] + SumFunctionOnSet(f, S \ {y})
      /\ SumFunctionOnSet(g, S) = g[y] + SumFunctionOnSet(g, S \ {y})
      /\ SumFunctionOnSet(f, S \ {y}) \in Int
  BY <1>1, SumRemove
<1>3. SumFunctionOnSet(g, S \ {y}) = SumFunctionOnSet(f, S \ {y})
  BY <1>1, SumSame
<1>4. f[y] \in Int /\ g[y] \in Int
  OBVIOUS
<1> QED
  BY <1>2, <1>3, <1>4

\* A larger function has a larger sum.
LEMMA SumMonotone ==
  ASSUME NEW f, NEW g, NEW S, IsFiniteSet(S),
         \A x \in S : f[x] \in Int /\ g[x] \in Int /\ f[x] <= g[x]
  PROVE  SumFunctionOnSet(f, S) <= SumFunctionOnSet(g, S)
<1> DEFINE d == [x \in S |-> g[x] - f[x]]
<1>1. \A x \in S : d[x] \in Nat /\ d[x] \in Int /\ f[x] \in Int /\ g[x] = f[x] + d[x]
  OBVIOUS
<1> HIDE DEF d
<1>2. SumFunctionOnSet(g, S) = SumFunctionOnSet(f, S) + SumFunctionOnSet(d, S)
  BY <1>1, SumPlus
<1>3. SumFunctionOnSet(d, S) \in Nat /\ SumFunctionOnSet(f, S) \in Int
  BY <1>1, SumBounds, SumRemove
<1> QED
  BY <1>2, <1>3

\* A common factor can be taken out.
LEMMA SumScale ==
  ASSUME NEW f, NEW g, NEW S, IsFiniteSet(S), NEW c \in Int,
         \A x \in S : f[x] \in Int /\ g[x] = c * f[x]
  PROVE  SumFunctionOnSet(g, S) = c * SumFunctionOnSet(f, S)
<1> DEFINE Good(s) == SumFunctionOnSet(g, s) = c * SumFunctionOnSet(f, s)
           B == {s \in SUBSET S : ~Good(s)}
<1> SUFFICES ASSUME B # {} PROVE FALSE
  OBVIOUS
<1>1. PICK s \in B : \A t \in SUBSET s : t # s => t \notin B
  <2>1. B \in SUBSET (SUBSET S)
    OBVIOUS
  <2> HIDE DEF B
  <2> QED
    BY <2>1, SmallestSet
<1>2. s # {}
  <2>1. Good({})
    BY SumNone
  <2> QED
    BY <1>1, <2>1
<1>3. PICK x : x \in s
  BY <1>2
<1>4. Good(s \ {x}) /\ IsFiniteSet(s) /\ IsFiniteSet(s \ {x})
  BY <1>1, <1>3, FS_Subset
<1>5. \A y \in s : f[y] \in Int /\ g[y] \in Int /\ g[y] = c * f[y]
  OBVIOUS
<1> DEFINE a == SumFunctionOnSet(f, s \ {x})
<1>6. /\ SumFunctionOnSet(f, s) = f[x] + a /\ a \in Int
      /\ SumFunctionOnSet(g, s) = c * f[x] + c * a
  BY <1>3, <1>4, <1>5, SumRemove
<1>7. c * (f[x] + a) = c * f[x] + c * a
  <2>1. f[x] \in Int /\ a \in Int
    BY <1>3, <1>6
  <2>2. ASSUME NEW p \in Int, NEW q \in Int PROVE c * (p + q) = c * p + c * q
    OBVIOUS
  <2> HIDE DEF a
  <2> QED
    BY <2>1, <2>2
<1> QED
  BY <1>1, <1>6, <1>7

\* Summands of at most c sum up to at most c times their number.
LEMMA SumAtMost ==
  ASSUME NEW f, NEW S, IsFiniteSet(S), NEW c \in Nat, \A x \in S : f[x] \in Nat /\ f[x] <= c
  PROVE  SumFunctionOnSet(f, S) <= c * Cardinality(S)
<1> DEFINE Good(s) == SumFunctionOnSet(f, s) <= c * Cardinality(s)
           B == {s \in SUBSET S : ~Good(s)}
<1> SUFFICES ASSUME B # {} PROVE FALSE
  OBVIOUS
<1>1. PICK s \in B : \A t \in SUBSET s : t # s => t \notin B
  <2>1. B \in SUBSET (SUBSET S)
    OBVIOUS
  <2> HIDE DEF B
  <2> QED
    BY <2>1, SmallestSet
<1>2. s # {}
  <2>1. Good({})
    BY SumNone, FS_EmptySet
  <2> QED
    BY <1>1, <2>1
<1>3. PICK x : x \in s
  BY <1>2
<1>4. Good(s \ {x}) /\ IsFiniteSet(s) /\ IsFiniteSet(s \ {x})
  BY <1>1, <1>3, FS_Subset
<1> DEFINE a == SumFunctionOnSet(f, s \ {x})
           n == Cardinality(s \ {x})
<1>5. SumFunctionOnSet(f, s) = f[x] + a /\ a \in Int
  <2>1. \A y \in s : f[y] \in Int
    OBVIOUS
  <2> QED
    BY <1>3, <1>4, <2>1, SumRemove
<1>6. n \in Nat /\ Cardinality(s) = n + 1
  <2>1. Cardinality(s) \in Nat /\ n \in Nat /\ n = Cardinality(s) - 1
    BY <1>3, <1>4, FS_RemoveElement, FS_CardinalityType
  <2> HIDE DEF n
  <2> QED
    BY <2>1
<1>7. a <= c * n /\ f[x] \in Nat /\ f[x] <= c
  BY <1>3, <1>4
<1>8. c * (n + 1) = c * n + c
  <2> HIDE DEF n
  <2> QED
    BY <1>6
<1>9. f[x] + a <= c * (n + 1)
  <2>1. c * n \in Int
    BY <1>6
  <2> HIDE DEF a, n
  <2> QED
    BY <1>5, <1>7, <1>8, <2>1
<1> QED
  BY <1>1, <1>5, <1>6, <1>9

\* A sum of ones and zeros counts the ones.
LEMMA SumCounts ==
  ASSUME NEW f, NEW S, IsFiniteSet(S), NEW T \in SUBSET S,
         \A x \in S : f[x] = IF x \in T THEN 1 ELSE 0
  PROVE  SumFunctionOnSet(f, S) = Cardinality(T)
<1> DEFINE Good(s) == SumFunctionOnSet(f, s) = Cardinality(s \cap T)
           B == {s \in SUBSET S : ~Good(s)}
<1>1. \A x \in S : f[x] \in Int
  OBVIOUS
<1> SUFFICES ASSUME B # {} PROVE FALSE
  <2>1. Good(S)
    OBVIOUS
  <2>2. S \cap T = T
    OBVIOUS
  <2> QED
    BY <2>1, <2>2
<1>2. PICK s \in B : \A t \in SUBSET s : t # s => t \notin B
  <2>1. B \in SUBSET (SUBSET S)
    OBVIOUS
  <2> HIDE DEF B
  <2> QED
    BY <2>1, SmallestSet
<1>3. s # {}
  <2>1. {} \cap T = {}
    OBVIOUS
  <2>2. Good({})
    BY <2>1, SumNone, FS_EmptySet
  <2> QED
    BY <1>2, <2>2
<1>4. PICK x : x \in s
  BY <1>3
<1>5. Good(s \ {x}) /\ IsFiniteSet(s) /\ IsFiniteSet(s \cap T)
  BY <1>2, <1>4, FS_Subset
<1>6. SumFunctionOnSet(f, s) = f[x] + SumFunctionOnSet(f, s \ {x})
  BY <1>1, <1>4, <1>5, SumRemove
<1>7. Cardinality(s \cap T) \in Nat
  BY <1>5, FS_CardinalityType
<1>8. CASE x \in T
  <2>1. (s \ {x}) \cap T = (s \cap T) \ {x} /\ x \in s \cap T /\ f[x] = 1
    BY <1>4, <1>8
  <2>2. Cardinality((s \cap T) \ {x}) = Cardinality(s \cap T) - 1
    BY <1>5, <2>1, FS_RemoveElement
  <2> QED
    BY <1>2, <1>5, <1>6, <1>7, <2>1, <2>2
<1>9. CASE x \notin T
  <2>1. (s \ {x}) \cap T = s \cap T /\ f[x] = 0
    <3>1. x \in S
      BY <1>2, <1>4
    <3> QED
      BY <1>4, <1>9, <3>1
  <2>2. SumFunctionOnSet(f, s \ {x}) = Cardinality(s \cap T)
    BY <1>5, <2>1
  <2>3. SumFunctionOnSet(f, s) = Cardinality(s \cap T)
    BY <1>6, <1>7, <2>1, <2>2
  <2> QED
    BY <1>2, <2>3
<1> QED
  BY <1>8, <1>9

-----------------------------------------------------------------------------
(* Ranks in a strict total order, given as a set of pairs.                 *)

Orders(before, S) ==
  /\ \A x \in S : <<x, x>> \notin before
  /\ \A x, y \in S : x # y => <<x, y>> \in before \/ <<y, x>> \in before
  /\ \A x, y, z \in S : <<x, y>> \in before /\ <<y, z>> \in before => <<x, z>> \in before

\* Those of s ahead of x.
Ahead(before, s, x) == {y \in s : <<y, x>> \in before}

\* A finite set that is not empty has a last element.
LEMMA LastElement ==
  ASSUME NEW S, IsFiniteSet(S), NEW before, Orders(before, S), S # {}
  PROVE  \E z \in S : \A x \in S \ {z} : <<x, z>> \in before
<1> DEFINE Good(s) == s # {} => \E z \in s : \A x \in s \ {z} : <<x, z>> \in before
           B == {s \in SUBSET S : ~Good(s)}
<1> SUFFICES ASSUME B # {} PROVE FALSE
  OBVIOUS
<1>1. PICK s \in B : \A t \in SUBSET s : t # s => t \notin B
  <2>1. B \in SUBSET (SUBSET S)
    OBVIOUS
  <2> HIDE DEF B
  <2> QED
    BY <2>1, SmallestSet
<1>2. ~Good(s) /\ s \in SUBSET S
  BY <1>1
<1>3. PICK x : x \in s
  BY <1>2
<1>4. Good(s \ {x})
  <2>1. s \ {x} \in SUBSET s /\ s \ {x} # s /\ s \ {x} \in SUBSET S
    BY <1>2, <1>3
  <2>2. s \ {x} \notin B
    BY <1>1, <2>1
  <2> QED
    BY <2>1, <2>2
<1>5. s \ {x} # {}
  <2>1. ASSUME s \ {x} = {} PROVE \A y \in s \ {x} : <<y, x>> \in before
    BY <2>1
  <2> QED
    BY <1>2, <1>3, <2>1
<1>6. PICK z \in s \ {x} : \A y \in (s \ {x}) \ {z} : <<y, z>> \in before
  BY <1>4, <1>5
<1> HIDE DEF B
<1>7. CASE <<x, z>> \in before
  BY <1>2, <1>6, <1>7
<1>8. CASE <<z, x>> \in before
  <2>1. ASSUME NEW y \in s \ {x} PROVE <<y, x>> \in before
    <3>1. CASE y = z
      BY <1>8, <3>1
    <3>2. CASE y # z
      <4>1. <<y, z>> \in before /\ y \in S /\ z \in S /\ x \in S
        BY <1>2, <1>3, <1>6, <3>2
      <4> QED
        BY <1>8, <4>1 DEF Orders
    <3> QED
      BY <3>1, <3>2
  <2> QED
    BY <1>2, <1>3, <2>1
<1> QED
  BY <1>2, <1>3, <1>6, <1>7, <1>8 DEF Orders

\* The first k elements are the ones with fewer than k ahead of them.
LEMMA FirstOnes ==
  ASSUME NEW S, IsFiniteSet(S), NEW before, Orders(before, S), NEW k \in Nat,
         k <= Cardinality(S)
  PROVE  Cardinality({x \in S : Cardinality(Ahead(before, S, x)) < k}) = k
<1> DEFINE first(s, n) == {x \in s : Cardinality(Ahead(before, s, x)) < n}
           Good(s) == k <= Cardinality(s) => Cardinality(first(s, k)) = k
           B == {s \in SUBSET S : ~Good(s)}
<1> SUFFICES ASSUME B # {} PROVE FALSE
  OBVIOUS
<1>1. PICK s \in B : \A t \in SUBSET s : t # s => t \notin B
  <2>1. B \in SUBSET (SUBSET S)
    OBVIOUS
  <2> HIDE DEF B
  <2> QED
    BY <2>1, SmallestSet
<1>2. ~Good(s) /\ s \in SUBSET S /\ IsFiniteSet(s) /\ Cardinality(s) \in Nat
  BY <1>1, FS_Subset, FS_CardinalityType
<1>3. ASSUME NEW t \in SUBSET s, t # s PROVE Good(t)
  BY <1>1, <1>3
<1> HIDE DEF B
<1>4. s # {}
  <2>1. ASSUME s = {} PROVE Cardinality(first(s, k)) = 0 /\ Cardinality(s) = 0
    BY <2>1, FS_EmptySet
  <2> HIDE DEF first
  <2> QED
    BY <1>2, <2>1
<1>5. Orders(before, s)
  BY <1>2 DEF Orders
<1>6. PICK z \in s : \A x \in s \ {z} : <<x, z>> \in before
  BY <1>2, <1>4, <1>5, LastElement
<1> DEFINE r == s \ {z}
<1>7. IsFiniteSet(r) /\ Cardinality(r) = Cardinality(s) - 1
  BY <1>2, FS_RemoveElement
<1>8. Ahead(before, s, z) = r
  BY <1>5, <1>6 DEF Ahead, Orders
<1>9. ASSUME NEW x \in r PROVE Ahead(before, s, x) = Ahead(before, r, x)
  BY <1>5, <1>6 DEF Ahead, Orders
<1>10. k <= Cardinality(s)
  BY <1>2
<1>11. CASE k = Cardinality(s)
  <2>1. ASSUME NEW x \in s PROVE Cardinality(Ahead(before, s, x)) < k
    <3>1. Ahead(before, s, x) \in SUBSET (s \ {x})
      BY <1>5 DEF Ahead, Orders
    <3>2. IsFiniteSet(s \ {x}) /\ Cardinality(s \ {x}) = Cardinality(s) - 1
      BY <1>2, FS_RemoveElement
    <3>3. /\ Cardinality(Ahead(before, s, x)) <= Cardinality(s \ {x})
          /\ Cardinality(Ahead(before, s, x)) \in Nat
      BY <3>1, <3>2, FS_Subset, FS_CardinalityType
    <3> QED
      BY <1>2, <1>11, <3>2, <3>3
  <2>2. first(s, k) = s
    BY <2>1
  <2> HIDE DEF first
  <2> QED
    BY <1>2, <1>11, <2>2
<1>12. CASE k < Cardinality(s)
  <2>1. first(s, k) = first(r, k)
    <3>1. ~(Cardinality(Ahead(before, s, z)) < k)
      BY <1>2, <1>7, <1>8, <1>12
    <3> QED
      BY <1>9, <3>1
  <2>2. k <= Cardinality(r)
    BY <1>2, <1>7, <1>12
  <2>3. Good(r)
    BY <1>3
  <2> HIDE DEF first, r
  <2> QED
    BY <1>2, <2>1, <2>2, <2>3
<1> QED
  BY <1>2, <1>10, <1>11, <1>12

-----------------------------------------------------------------------------
(* The ledger of a state: what the members hold and what open markets pool. *)

Held(s) == SumFunction([u \in DOMAIN s.accounts |-> s.accounts[u].balance])

OpenIn(s) == {m \in DOMAIN s.markets : s.markets[m].status = "Open"}

Pooled(s) == SumFunction([m \in OpenIn(s) |-> s.markets[m].total_staked])

\* What a market still owes.
Pledge(market) == IF market.status = "Open" THEN market.total_staked ELSE 0

\* The stakes of a market add up to its pool, and nobody but a member has one.
Tallied(market, members) ==
  /\ SumFunction(AllStakes(market)) = market.total_staked
  /\ \A u \in Users \ members : \A o \in Outcomes : market.bets[u][o] = 0

\* The books of a state are in order: its stakes and its finitely many markets.
InOrder(s) ==
  /\ IsFiniteSet(DOMAIN s.markets)
  /\ \A m \in DOMAIN s.markets : Tallied(s.markets[m], DOMAIN s.accounts)

\* A sum over a function's domain, written as a map.
LEMMA SumOfMap ==
  ASSUME NEW S, NEW f, f = [x \in S |-> f[x]]
  PROVE  SumFunction(f) = SumFunctionOnSet(f, S)
<1>1. DOMAIN f = S
  OBVIOUS
<1> QED
  BY <1>1 DEF SumFunction

\* Members are finitely many and hold amounts.
LEMMA AccountFacts ==
  ASSUME NEW s, IsState(s)
  PROVE  /\ IsFiniteSet(DOMAIN s.accounts) /\ DOMAIN s.accounts \subseteq Users
         /\ \A u \in DOMAIN s.accounts :
                s.accounts[u] \in Account /\ s.accounts[u].balance \in Nat
<1>1. DOMAIN s.accounts \subseteq Users /\ \A u \in DOMAIN s.accounts : s.accounts[u] \in Account
  BY DEF IsState, IsMap
<1>2. IsFiniteSet(DOMAIN s.accounts)
  BY <1>1, UsersAssumption, FS_Subset
<1> QED
  BY <1>1, <1>2, I64MaxAssumption DEF Account, Points

\* Pools and pledges are amounts.
LEMMA MarketFacts ==
  ASSUME NEW s, IsState(s)
  PROVE  \A m \in DOMAIN s.markets :
            /\ s.markets[m] \in Market /\ s.markets[m].total_staked \in Nat
            /\ Pledge(s.markets[m]) \in Nat
<1>1. \A m \in DOMAIN s.markets : s.markets[m] \in Market
  BY DEF IsState, IsMap
<1> QED
  BY <1>1, I64MaxAssumption DEF Market, Points, Pledge

\* Enrolling a member adds the balance of the new account.
LEMMA HeldInsert ==
  ASSUME NEW s, IsState(s), NEW r, NEW u, u \notin DOMAIN s.accounts,
         DOMAIN r.accounts = DOMAIN s.accounts \cup {u}, r.accounts[u].balance \in Int,
         \A x \in DOMAIN s.accounts : r.accounts[x] = s.accounts[x]
  PROVE  Held(r) = Held(s) + r.accounts[u].balance
<1> DEFINE S == DOMAIN s.accounts
           f == [x \in S |-> s.accounts[x].balance]
           g == [x \in S \cup {u} |-> r.accounts[x].balance]
<1>1. /\ IsFiniteSet(S) /\ DOMAIN r.accounts = S \cup {u}
      /\ \A x \in S : g[x] = f[x] /\ f[x] \in Int
      /\ g[u] = r.accounts[u].balance
  BY AccountFacts
<1>2. Held(s) = SumFunctionOnSet(f, S) /\ Held(r) = SumFunctionOnSet(g, S \cup {u})
  BY <1>1, SumOfMap DEF Held
<1> HIDE DEF f, g
<1>3. SumFunctionOnSet(g, S \cup {u}) = g[u] + SumFunctionOnSet(g, S)
  BY <1>1, SumInsert
<1>4. SumFunctionOnSet(g, S) = SumFunctionOnSet(f, S) /\ SumFunctionOnSet(f, S) \in Int
  BY <1>1, SumSame, SumRemove
<1> QED
  BY <1>1, <1>2, <1>3, <1>4

\* Changing an account changes the sum by the difference.
LEMMA HeldChange ==
  ASSUME NEW s, IsState(s), NEW r, DOMAIN r.accounts = DOMAIN s.accounts,
         NEW u \in DOMAIN s.accounts, r.accounts[u].balance \in Int,
         \A x \in DOMAIN s.accounts \ {u} : r.accounts[x] = s.accounts[x]
  PROVE  Held(r) = Held(s) + r.accounts[u].balance - s.accounts[u].balance
<1> DEFINE S == DOMAIN s.accounts
           f == [x \in S |-> s.accounts[x].balance]
           g == [x \in S |-> r.accounts[x].balance]
<1>1. /\ IsFiniteSet(S) /\ DOMAIN r.accounts = S
      /\ \A x \in S : f[x] \in Int
      /\ \A x \in S \ {u} : g[x] = f[x]
      /\ g[u] = r.accounts[u].balance /\ f[u] = s.accounts[u].balance
  BY AccountFacts
<1>2. Held(s) = SumFunctionOnSet(f, S) /\ Held(r) = SumFunctionOnSet(g, S)
  BY <1>1, SumOfMap DEF Held
<1> HIDE DEF f, g
<1>3. \A x \in S : f[x] \in Int /\ g[x] \in Int
  BY <1>1
<1> QED
  BY <1>1, <1>2, <1>3, SumChange

\* credit_allocations adds what it allocates, which is all to members.
LEMMA HeldCredit ==
  ASSUME NEW s, IsState(s), NEW r, NEW entries, Creditable(s.accounts, entries),
         r.accounts = Credit(s.accounts, entries)
  PROVE  Held(r) = Held(s) + SumFunction(entries)
<1> DEFINE S == DOMAIN s.accounts
           f == [x \in S |-> s.accounts[x].balance]
           g == [x \in S |-> r.accounts[x].balance]
<1>1. /\ IsFiniteSet(S) /\ S \in SUBSET Users /\ IsFiniteSet(Users)
      /\ entries = [u \in Users |-> entries[u]]
      /\ \A x \in Users : entries[x] \in Int
      /\ \A x \in Users \ S : entries[x] = 0
  BY AccountFacts, UsersAssumption, I64MaxAssumption DEF Creditable, Recipients, Points
<1>2. /\ DOMAIN r.accounts = S
      /\ \A x \in S : f[x] \in Int /\ g[x] = f[x] + entries[x]
  BY <1>1, AccountFacts DEF Credit, Account
<1>3. Held(s) = SumFunctionOnSet(f, S) /\ Held(r) = SumFunctionOnSet(g, S)
  BY <1>2, SumOfMap DEF Held
<1>4. SumFunction(entries) = SumFunctionOnSet(entries, S)
  <2>1. SumFunction(entries) = SumFunctionOnSet(entries, Users)
    BY <1>1, SumOfMap
  <2> QED
    BY <1>1, <2>1, SumSupport
<1> HIDE DEF f, g
<1>5. SumFunctionOnSet(g, S) = SumFunctionOnSet(f, S) + SumFunctionOnSet(entries, S)
  <2>1. \A x \in S : f[x] \in Int /\ entries[x] \in Int /\ g[x] = f[x] + entries[x]
    BY <1>1, <1>2
  <2> QED
    BY <1>1, <2>1, SumPlus
<1> QED
  BY <1>3, <1>4, <1>5

\* The pools of the open markets, as a sum over all markets.
LEMMA PooledAsPledges ==
  ASSUME NEW s, IsState(s), IsFiniteSet(DOMAIN s.markets)
  PROVE  LET f == [m \in DOMAIN s.markets |-> Pledge(s.markets[m])]
         IN  Pooled(s) = SumFunctionOnSet(f, DOMAIN s.markets)
<1> DEFINE S == DOMAIN s.markets
           f == [m \in S |-> Pledge(s.markets[m])]
           p == [m \in OpenIn(s) |-> s.markets[m].total_staked]
<1>1. /\ OpenIn(s) \in SUBSET S /\ IsFiniteSet(OpenIn(s))
      /\ \A m \in S : f[m] \in Int
      /\ \A m \in S \ OpenIn(s) : f[m] = 0
      /\ \A m \in OpenIn(s) : f[m] = p[m]
  BY MarketFacts, FS_Subset DEF OpenIn, Pledge
<1>2. Pooled(s) = SumFunctionOnSet(p, OpenIn(s))
  BY SumOfMap DEF Pooled
<1> HIDE DEF f, p
<1>3. SumFunctionOnSet(p, OpenIn(s)) = SumFunctionOnSet(f, OpenIn(s))
  BY <1>1, SumSame
<1>4. SumFunctionOnSet(f, S) = SumFunctionOnSet(f, OpenIn(s))
  BY <1>1, SumSupport
<1> QED
  BY <1>2, <1>3, <1>4 DEF f

\* A new market adds its pledge.
LEMMA PooledInsert ==
  ASSUME NEW s, IsState(s), NEW r, IsState(r), IsFiniteSet(DOMAIN s.markets),
         NEW id, id \notin DOMAIN s.markets, NEW m, r.markets = Insert(s.markets, id, m)
  PROVE  Pooled(r) = Pooled(s) + Pledge(m) /\ IsFiniteSet(DOMAIN r.markets)
<1> DEFINE S == DOMAIN s.markets
           f == [x \in S |-> Pledge(s.markets[x])]
           g == [x \in S \cup {id} |-> Pledge(r.markets[x])]
<1>1. /\ DOMAIN r.markets = S \cup {id} /\ r.markets[id] = m
      /\ \A x \in S : r.markets[x] = s.markets[x]
  BY DEF Insert
<1>2. IsFiniteSet(S \cup {id})
  BY FS_AddElement
<1>3. Pooled(s) = SumFunctionOnSet(f, S) /\ Pooled(r) = SumFunctionOnSet(g, S \cup {id})
  BY <1>1, <1>2, PooledAsPledges
<1>4. /\ \A x \in S : g[x] = f[x] /\ f[x] \in Int
      /\ g[id] = Pledge(m)
      /\ \A x \in S \cup {id} : g[x] \in Int
  BY <1>1, MarketFacts
<1> HIDE DEF f, g
<1>5. SumFunctionOnSet(g, S \cup {id}) = g[id] + SumFunctionOnSet(g, S)
  BY <1>4, SumInsert
<1>6. SumFunctionOnSet(g, S) = SumFunctionOnSet(f, S) /\ SumFunctionOnSet(f, S) \in Int
  BY <1>4, SumSame, SumRemove
<1> QED
  BY <1>1, <1>2, <1>3, <1>4, <1>5, <1>6

\* A changed market changes the sum by the difference of its pledges.
LEMMA PooledChange ==
  ASSUME NEW s, IsState(s), NEW r, IsState(r), IsFiniteSet(DOMAIN s.markets),
         NEW id \in DOMAIN s.markets, NEW m, r.markets = [s.markets EXCEPT ![id] = m]
  PROVE  /\ Pooled(r) = Pooled(s) + Pledge(m) - Pledge(s.markets[id])
         /\ DOMAIN r.markets = DOMAIN s.markets
<1> DEFINE S == DOMAIN s.markets
           f == [x \in S |-> Pledge(s.markets[x])]
           g == [x \in S |-> Pledge(r.markets[x])]
<1>1. /\ DOMAIN r.markets = S /\ r.markets[id] = m
      /\ \A x \in S \ {id} : r.markets[x] = s.markets[x]
  OBVIOUS
<1>2. Pooled(s) = SumFunctionOnSet(f, S) /\ Pooled(r) = SumFunctionOnSet(g, S)
  BY <1>1, PooledAsPledges
<1>3. /\ \A x \in S : f[x] \in Int /\ g[x] \in Int
      /\ \A x \in S \ {id} : g[x] = f[x]
      /\ g[id] = Pledge(m) /\ f[id] = Pledge(s.markets[id])
  BY <1>1, MarketFacts
<1> HIDE DEF f, g
<1> QED
  BY <1>1, <1>2, <1>3, SumChange

-----------------------------------------------------------------------------
(* What each event does to the ledger.                                     *)

\* The stakes of a market are amounts.
LEMMA StakesTyped ==
  ASSUME NEW market \in Market, NEW O \in SUBSET Outcomes
  PROVE  /\ Stakes(market, O) = [u \in Users |-> SumFunctionOnSet(market.bets[u], O)]
         /\ \A u \in Users : /\ Stakes(market, O)[u] \in Nat
                             /\ \A o \in O : market.bets[u][o] \in Nat
<1>1. IsFiniteSet(O)
  BY OutcomesAssumption, FS_Subset
<1>2. \A u \in Users : \A o \in O : market.bets[u][o] \in Nat
  BY DEF Market
<1>3. ASSUME NEW u \in Users PROVE SumFunctionOnSet(market.bets[u], O) \in Nat
  <2> DEFINE f == market.bets[u]
  <2>1. \A o \in O : f[o] \in Nat
    BY <1>2
  <2> HIDE DEF f
  <2>2. SumFunctionOnSet(f, O) \in Nat
    BY <1>1, <2>1, SumBounds
  <2> QED
    BY <2>2 DEF f
<1> QED
  BY <1>2, <1>3 DEF Stakes

\* apply_bet adds the stake to the stakes of its member and to the pool.
LEMMA TalliedBet ==
  ASSUME NEW market \in Market, NEW members, Tallied(market, members), NEW e,
         e.user \in Users, e.user \in members, e.outcome \in Outcomes, e.amount \in Nat
  PROVE  Tallied(Staked(market, e), members)
<1> DEFINE new == Staked(market, e)
           u == e.user
           f == AllStakes(market)
           g == AllStakes(new)
<1>1. /\ new.total_staked = market.total_staked + e.amount
      /\ new.bets = [market.bets EXCEPT ![u][e.outcome] = @ + e.amount]
  BY DEF Staked, Market
<1>2. /\ market.bets \in [Users -> [Outcomes -> Nat]]
      /\ market.total_staked \in Int
  BY I64MaxAssumption DEF Market, Points
<1>3. \A v \in Users \ {u} : new.bets[v] = market.bets[v]
  BY <1>1, <1>2
<1>4. /\ new.bets[u][e.outcome] = market.bets[u][e.outcome] + e.amount
      /\ \A o \in Outcomes \ {e.outcome} : new.bets[u][o] = market.bets[u][o]
  BY <1>1, <1>2
<1>5. /\ f = [v \in Users |-> SumFunctionOnSet(market.bets[v], Outcomes)]
      /\ g = [v \in Users |-> SumFunctionOnSet(new.bets[v], Outcomes)]
      /\ \A v \in Users : f[v] \in Nat
  BY StakesTyped DEF AllStakes, Stakes
<1>6. \A v \in Users \ {u} : g[v] = f[v]
  BY <1>3, <1>5
<1>7. g[u] = f[u] + e.amount
  <2> DEFINE b == market.bets[u]
             c == new.bets[u]
  <2>1. \A o \in Outcomes : b[o] \in Int /\ c[o] \in Int
    BY <1>2, <1>4
  <2>2. \A o \in Outcomes \ {e.outcome} : c[o] = b[o]
    BY <1>4
  <2>3. c[e.outcome] = b[e.outcome] + e.amount
    BY <1>4
  <2>4. g[u] = SumFunctionOnSet(c, Outcomes) /\ f[u] = SumFunctionOnSet(b, Outcomes)
    BY <1>5
  <2> HIDE DEF b, c
  <2>5. SumFunctionOnSet(c, Outcomes)
            = SumFunctionOnSet(b, Outcomes) + c[e.outcome] - b[e.outcome]
    <3> DEFINE o == e.outcome
    <3>1. o \in Outcomes /\ IsFiniteSet(Outcomes) /\ \A x \in Outcomes \ {o} : c[x] = b[x]
      BY <2>2, OutcomesAssumption
    <3> HIDE DEF o
    <3>2. SumFunctionOnSet(c, Outcomes) = SumFunctionOnSet(b, Outcomes) + c[o] - b[o]
      BY <2>1, <3>1, SumChange
    <3> QED
      BY <3>2 DEF o
  <2>6. SumFunctionOnSet(b, Outcomes) \in Int /\ b[e.outcome] \in Int
    BY <1>5, <2>1, <2>4
  <2> HIDE DEF f, g
  <2> QED
    BY <2>3, <2>4, <2>5, <2>6
<1>8. SumFunction(g) = SumFunction(f) + e.amount
  <2>1. SumFunction(g) = SumFunctionOnSet(g, Users) /\ SumFunction(f) = SumFunctionOnSet(f, Users)
    BY <1>5, SumOfMap
  <2> HIDE DEF f, g
  <2>2. \A v \in Users : f[v] \in Int /\ g[v] \in Int
    BY <1>5, <1>6, <1>7
  <2>3. SumFunctionOnSet(g, Users) = SumFunctionOnSet(f, Users) + g[u] - f[u]
    <3>1. u \in Users /\ IsFiniteSet(Users)
      BY UsersAssumption
    <3> HIDE DEF u
    <3> QED
      BY <1>6, <2>2, <3>1, SumChange
  <2>4. SumFunctionOnSet(f, Users) \in Int
    BY <2>2, UsersAssumption, SumRemove
  <2> QED
    BY <1>7, <2>1, <2>2, <2>3, <2>4
<1>9. \A v \in Users \ members : \A o \in Outcomes : new.bets[v][o] = 0
  BY <1>3 DEF Tallied
<1> QED
  BY <1>1, <1>8, <1>9 DEF Tallied

\* Nobody has staked anything in a new market.
LEMMA TalliedNew == ASSUME NEW e, NEW members PROVE Tallied(NewMarket(e), members)
<1> DEFINE m == NewMarket(e)
           f == AllStakes(m)
<1>1. m.bets = [u \in Users |-> [o \in Outcomes |-> 0]] /\ m.total_staked = 0
  BY DEF NewMarket
<1>2. ASSUME NEW u \in Users PROVE SumFunctionOnSet(m.bets[u], Outcomes) = 0
  <2> DEFINE b == m.bets[u]
  <2>1. \A o \in Outcomes : b[o] \in Int /\ b[o] = 0
    BY <1>1
  <2> HIDE DEF b
  <2>2. SumFunctionOnSet(b, Outcomes) = SumFunctionOnSet(b, {})
    BY <2>1, OutcomesAssumption, SumSupport
  <2> QED
    BY <2>2, SumNone DEF b
<1>3. f = [u \in Users |-> 0]
  BY <1>2 DEF AllStakes, Stakes
<1>4. SumFunction(f) = 0
  <2>1. SumFunction(f) = SumFunctionOnSet(f, Users) /\ \A u \in Users : f[u] \in Int /\ f[u] = 0
    BY <1>3, SumOfMap
  <2> HIDE DEF f
  <2>2. SumFunctionOnSet(f, Users) = SumFunctionOnSet(f, {})
    BY <2>1, UsersAssumption, SumSupport
  <2> QED
    BY <2>1, <2>2, SumNone
<1> QED
  BY <1>1, <1>4 DEF Tallied

\* A market that keeps its stakes stays tallied, and nobody ceases to be a member.
LEMMA TalliedSame ==
  ASSUME NEW m, NEW members, Tallied(m, members), NEW n, NEW more, members \subseteq more,
         n.bets = m.bets, n.total_staked = m.total_staked
  PROVE  Tallied(n, more)
  BY DEF Tallied, AllStakes, Stakes

\* The ledger of a state and of the one an event leaves.
Books(s, r, amount) ==
  /\ InOrder(r)
  /\ Held(s) \in Nat /\ Pooled(s) \in Nat
  /\ Held(r) + Pooled(r) = Held(s) + Pooled(s) + amount

\* What is held and what is pooled are amounts.
LEMMA LedgerTyped ==
  ASSUME NEW s, IsState(s), InOrder(s)
  PROVE  Held(s) \in Nat /\ Pooled(s) \in Nat
<1>1. Held(s) \in Nat
  <2> DEFINE f == [u \in DOMAIN s.accounts |-> s.accounts[u].balance]
  <2>1. Held(s) = SumFunctionOnSet(f, DOMAIN s.accounts)
    BY SumOfMap DEF Held
  <2>2. \A u \in DOMAIN s.accounts : f[u] \in Nat
    BY AccountFacts
  <2> HIDE DEF f
  <2> QED
    BY <2>1, <2>2, AccountFacts, SumBounds
<1>2. Pooled(s) \in Nat
  <2> DEFINE f == [m \in DOMAIN s.markets |-> Pledge(s.markets[m])]
  <2>1. Pooled(s) = SumFunctionOnSet(f, DOMAIN s.markets) /\ IsFiniteSet(DOMAIN s.markets)
    BY PooledAsPledges DEF InOrder
  <2>2. \A m \in DOMAIN s.markets : f[m] \in Nat
    BY MarketFacts
  <2> HIDE DEF f
  <2> QED
    BY <2>1, <2>2, SumBounds
<1> QED
  BY <1>1, <1>2


\* Accounts change, markets do not.
LEMMA AccountsBooks ==
  ASSUME NEW s, IsState(s), InOrder(s), NEW r, NEW amount \in Int,
         r.markets = s.markets, DOMAIN s.accounts \subseteq DOMAIN r.accounts,
         Held(r) = Held(s) + amount
  PROVE  Books(s, r, amount)
<1>1. Pooled(r) = Pooled(s)
  BY DEF Pooled, OpenIn
<1>2. InOrder(r)
  BY TalliedSame DEF InOrder
<1> QED
  BY <1>1, <1>2, LedgerTyped DEF Books

\* A new market owes nothing.
LEMMA CreationBooks ==
  ASSUME NEW s, IsState(s), InOrder(s), NEW e, e.id \notin DOMAIN s.markets,
         NEW r, IsState(r), r = [s EXCEPT !.markets = Insert(@, e.id, NewMarket(e))]
  PROVE  Books(s, r, 0)
<1>1. r.accounts = s.accounts /\ r.markets = Insert(s.markets, e.id, NewMarket(e))
  BY DEF IsState
<1>2. Pledge(NewMarket(e)) = 0
  BY DEF Pledge, NewMarket
<1>3. Pooled(r) = Pooled(s) /\ IsFiniteSet(DOMAIN r.markets)
  <2> DEFINE id == e.id
             m == NewMarket(e)
  <2>1. /\ id \notin DOMAIN s.markets /\ r.markets = Insert(s.markets, id, m)
        /\ IsFiniteSet(DOMAIN s.markets) /\ Pledge(m) = 0
    BY <1>1, <1>2 DEF InOrder
  <2> HIDE DEF id, m
  <2>2. Pooled(r) = Pooled(s) + Pledge(m) /\ IsFiniteSet(DOMAIN r.markets)
    BY <2>1, PooledInsert, ZenonT(60)
  <2> QED
    BY <2>1, <2>2, LedgerTyped
<1>4. Held(r) = Held(s)
  BY <1>1 DEF Held
<1>5. \A m \in DOMAIN r.markets : Tallied(r.markets[m], DOMAIN r.accounts)
  BY <1>1, TalliedNew DEF InOrder, Insert
<1> QED
  BY <1>3, <1>4, <1>5, LedgerTyped DEF Books, InOrder

\* A market and accounts change together.
LEMMA MarketBooks ==
  ASSUME NEW s, IsState(s), InOrder(s), NEW r, IsState(r), NEW id \in DOMAIN s.markets,
         NEW m, r.markets = [s.markets EXCEPT ![id] = m],
         DOMAIN r.accounts = DOMAIN s.accounts, Tallied(m, DOMAIN s.accounts),
         Held(r) = Held(s) + Pledge(s.markets[id]) - Pledge(m)
  PROVE  Books(s, r, 0)
<1>1. /\ Pooled(r) = Pooled(s) + Pledge(m) - Pledge(s.markets[id])
      /\ DOMAIN r.markets = DOMAIN s.markets
  BY PooledChange DEF InOrder
<1>2. InOrder(r)
  BY <1>1 DEF InOrder
<1>3. Pledge(m) \in Int /\ Pledge(s.markets[id]) \in Int
  <2>1. id \in DOMAIN r.markets /\ r.markets[id] = m
    BY <1>1
  <2> QED
    BY <2>1, MarketFacts
<1> QED
  BY <1>1, <1>2, <1>3, LedgerTyped DEF Books

\* A bet moves its amount from the member to the pool.
LEMMA BetBooks ==
  ASSUME NEW s, IsState(s), InOrder(s), NEW e, CanBet(s, e), IsState(ApplyBet(s, e)),
         e.outcome \in Outcomes, e.amount \in Int
  PROVE  Books(s, ApplyBet(s, e), 0)
<1> DEFINE r == ApplyBet(s, e)
           old == s.accounts[e.user]
           a == Debited(old, e)
           market == s.markets[e.id]
           m == Staked(market, e)
<1>1. /\ r.accounts = [s.accounts EXCEPT ![e.user] = a]
      /\ r.markets = [s.markets EXCEPT ![e.id] = m]
  BY DEF ApplyBet, IsState
<1>2. /\ e.user \in DOMAIN s.accounts /\ e.user \in Users /\ e.amount \in Nat
      /\ e.id \in DOMAIN s.markets /\ market.status = "Open"
  BY AccountFacts DEF CanBet
<1>3. old \in Account /\ old.balance \in Nat /\ market \in Market /\ market.total_staked \in Nat
  BY <1>2, AccountFacts, MarketFacts
<1>4. a.balance = old.balance - e.amount
  BY <1>3 DEF Debited, Account
<1>5. Pledge(market) = market.total_staked /\ Pledge(m) = market.total_staked + e.amount
  BY <1>2, <1>3 DEF Pledge, Staked, Market
<1>6. Tallied(m, DOMAIN s.accounts)
  BY <1>2, <1>3, TalliedBet DEF InOrder
<1>7. Held(r) = Held(s) + a.balance - old.balance
  <2> DEFINE u == e.user
  <2>1. /\ u \in DOMAIN s.accounts /\ a.balance \in Int
        /\ old = s.accounts[u] /\ a = r.accounts[u]
        /\ DOMAIN r.accounts = DOMAIN s.accounts
        /\ \A x \in DOMAIN s.accounts \ {u} : r.accounts[x] = s.accounts[x]
    BY <1>1, <1>2, <1>3, <1>4
  <2> HIDE DEF a, r, u, old
  <2> QED
    BY <2>1, HeldChange
<1> HIDE DEF m, a, old
<1>8. Held(r) = Held(s) + Pledge(market) - Pledge(m)
  BY <1>2, <1>3, <1>4, <1>5, <1>7, LedgerTyped
<1>9. DOMAIN r.accounts = DOMAIN s.accounts
  BY <1>1
<1> HIDE DEF r
<1> QED
  BY <1>1, <1>2, <1>6, <1>8, <1>9, MarketBooks DEF r

\* Settling a market hands out its pool.
LEMMA SettlementBooks ==
  ASSUME NEW s, IsState(s), InOrder(s), NEW r, IsState(r), NEW id \in DOMAIN s.markets,
         s.markets[id].status = "Open", NEW m, r.markets = [s.markets EXCEPT ![id] = m],
         m.status # "Open", m.bets = s.markets[id].bets,
         m.total_staked = s.markets[id].total_staked,
         NEW entries, Creditable(s.accounts, entries),
         r.accounts = Credit(s.accounts, entries),
         SumFunction(entries) = s.markets[id].total_staked
  PROVE  Books(s, r, 0)
<1>1. Pledge(m) = 0 /\ Pledge(s.markets[id]) = SumFunction(entries)
  BY DEF Pledge
<1>2. Held(r) = Held(s) + SumFunction(entries)
  BY HeldCredit
<1>3. DOMAIN r.accounts = DOMAIN s.accounts
  BY DEF Credit
<1>4. Tallied(m, DOMAIN s.accounts)
  BY TalliedSame DEF InOrder
<1>5. SumFunction(entries) \in Int
  BY MarketFacts
<1> QED
  BY <1>1, <1>2, <1>3, <1>4, <1>5, LedgerTyped, MarketBooks

\* A resolution pays the pool to the winners, or the stakes back.
LEMMA ResolutionBooks ==
  ASSUME NEW s, IsState(s), InOrder(s), NEW e, CanResolve(s, e),
         NEW r, r = ApplyResolution(s, e), IsState(r)
  PROVE  Books(s, r, 0)
<1> DEFINE market == s.markets[e.id]
           m == [market EXCEPT !.status = "Resolved", !.outcome = e.outcome,
                               !.refunded = e.refunded, !.payouts = e.payouts]
<1>1. /\ r.accounts = Credit(s.accounts, e.payouts)
      /\ r.markets = [s.markets EXCEPT ![e.id] = m]
  BY DEF ApplyResolution, IsState
<1>2. /\ e.id \in DOMAIN s.markets /\ market.status = "Open"
      /\ Creditable(s.accounts, e.payouts)
  BY DEF CanResolve
<1>3. m.status # "Open" /\ m.bets = market.bets /\ m.total_staked = market.total_staked
  BY <1>2, MarketFacts DEF Market
<1>4. SumFunction(e.payouts) = market.total_staked
  BY <1>2 DEF CanResolve, InOrder, Tallied
<1> HIDE DEF m
<1> QED
  BY <1>1, <1>2, <1>3, <1>4, SettlementBooks

\* A cancellation gives every stake back.
LEMMA CancellationBooks ==
  ASSUME NEW s, IsState(s), InOrder(s), NEW e, CanCancel(s, e),
         NEW r, r = ApplyCancellation(s, e), IsState(r)
  PROVE  Books(s, r, 0)
<1> DEFINE market == s.markets[e.id]
           m == [market EXCEPT !.status = "Cancelled"]
<1>1. /\ r.accounts = Credit(s.accounts, e.refunds)
      /\ r.markets = [s.markets EXCEPT ![e.id] = m]
  BY DEF ApplyCancellation, IsState
<1>2. /\ e.id \in DOMAIN s.markets /\ market.status = "Open"
      /\ Creditable(s.accounts, e.refunds) /\ e.refunds = AllStakes(market)
  BY DEF CanCancel
<1>3. m.status # "Open" /\ m.bets = market.bets /\ m.total_staked = market.total_staked
  BY <1>2, MarketFacts DEF Market
<1>4. SumFunction(e.refunds) = market.total_staked
  BY <1>2 DEF InOrder, Tallied
<1> HIDE DEF m
<1> QED
  BY <1>1, <1>2, <1>3, <1>4, SettlementBooks

\* Who may settle a market moves no points.
LEMMA ResolverChangeBooks ==
  ASSUME NEW s, IsState(s), InOrder(s), NEW e, CanChangeResolver(s, e),
         NEW r, r = ApplyResolverChange(s, e), IsState(r)
  PROVE  Books(s, r, 0)
<1> DEFINE market == s.markets[e.id]
           m == [market EXCEPT !.resolvers =
                    IF e.type = "MarketResolverAdded" THEN @ \cup {e.user} ELSE @ \ {e.user}]
<1>1. r.accounts = s.accounts /\ r.markets = [s.markets EXCEPT ![e.id] = m]
  BY DEF ApplyResolverChange, IsState
<1>2. e.id \in DOMAIN s.markets /\ market \in Market
  BY MarketFacts DEF CanChangeResolver
<1>3. /\ m.status = market.status /\ m.bets = market.bets
      /\ m.total_staked = market.total_staked
  BY <1>2 DEF Market
<1>4. Pledge(m) = Pledge(market) /\ Pledge(market) \in Int
  BY <1>2, <1>3, MarketFacts DEF Pledge
<1>5. Tallied(m, DOMAIN s.accounts)
  BY <1>2, <1>3, TalliedSame DEF InOrder
<1>6. Held(r) = Held(s)
  BY <1>1 DEF Held
<1> HIDE DEF m
<1> QED
  BY <1>1, <1>2, <1>4, <1>5, <1>6, LedgerTyped, MarketBooks

-----------------------------------------------------------------------------
(* Dividing the pool.                                                      *)

\* A whole share and the fraction left of it.
LEMMA Quotient ==
  ASSUME NEW a \in Nat, NEW b \in Nat \ {0}
  PROVE  /\ a \div b \in Nat /\ a % b \in Nat /\ a % b < b
         /\ a = b * (a \div b) + (a % b)
<1>1. a \div b \in Nat /\ a % b \in 0 .. (b - 1)
  OBVIOUS
<1>2. a = b * (a \div b) + (a % b)
  OBVIOUS
<1> QED
  BY <1>1, <1>2

\* A factor can be cancelled from a comparison.
LEMMA CancelFactor ==
  ASSUME NEW a \in Int, NEW b \in Int, NEW c \in Nat \ {0}
  PROVE  (c * a <= c * b => a <= b) /\ (a <= b => c * a <= c * b) /\ (a < b => c * a < c * b)
  OBVIOUS

\* The floors of the shares and what they leave of the pool.
Floors(T, w) == [u \in Users |-> (T * w[u]) \div SumFunction(w)]
Fractions(T, w) == [u \in Users |-> (T * w[u]) % SumFunction(w)]

\* The members before u when the points left over are handed out.
Sooner(w, fraction, u) ==
  {v \in Recipients(w) : \/ fraction[v] > fraction[u]
                         \/ fraction[v] = fraction[u] /\ v < u}

\* The stakes w of some members in a pool of T.
Winning(T, w) ==
  /\ T \in Nat /\ w \in [Users -> Nat]
  /\ SumFunction(w) \in Nat \ {0} /\ SumFunction(w) <= T

\* A floor and its fraction make up a share; a floor is at least the stake.
LEMMA FloorShares ==
  ASSUME NEW T, NEW w, Winning(T, w), NEW u \in Users
  PROVE  LET W == SumFunction(w)
             b == Floors(T, w)[u]
             f == Fractions(T, w)[u]
         IN  /\ b \in Nat /\ f \in Nat /\ f < W
             /\ T * w[u] = W * b + f
             /\ w[u] <= b
             /\ w[u] = 0 => b = 0 /\ f = 0
<1> DEFINE W == SumFunction(w)
           b == Floors(T, w)[u]
           f == Fractions(T, w)[u]
<1>1. T \in Nat /\ W \in Nat \ {0} /\ W <= T /\ w[u] \in Nat /\ T * w[u] \in Nat
  <2>1. T \in Nat /\ W \in Nat \ {0} /\ W <= T /\ w[u] \in Nat
    BY DEF Winning
  <2> HIDE DEF W
  <2> QED
    BY <2>1
<1>2. b = (T * w[u]) \div W /\ f = (T * w[u]) % W
  BY DEF Floors, Fractions
<1> HIDE DEF W, b, f
<1>3. b \in Nat /\ f \in Nat /\ f < W /\ T * w[u] = W * b + f
  BY <1>1, <1>2, Quotient
<1>4. w[u] <= b
  <2> DEFINE x == w[u]
  <2> SUFFICES ASSUME b < x PROVE FALSE
    BY <1>1, <1>3
  <2>1. x \in Nat
    BY <1>1
  <2> HIDE DEF x
  <2>2. W * (b + 1) <= W * x
    BY <1>1, <1>3, <2>1, CancelFactor
  <2>3. W * x <= T * x
    <3>1. CASE x = 0
      BY <1>1, <3>1
    <3>2. CASE x # 0
      <4>1. x * W <= x * T
        BY <1>1, <2>1, <3>2, CancelFactor
      <4>2. x * W = W * x /\ x * T = T * x
        BY <1>1, <2>1
      <4> QED
        BY <4>1, <4>2
    <3> QED
      BY <3>1, <3>2
  <2>4. W * (b + 1) = W * b + W
    BY <1>1, <1>3
  <2>5. T * x = W * b + f
    BY <1>3 DEF x
  <2>6. W * b \in Int /\ W * x \in Int /\ T * x \in Int
    BY <1>1, <1>3, <2>1
  <2> QED
    BY <1>1, <1>3, <2>2, <2>3, <2>4, <2>5, <2>6
<1>5. w[u] = 0 => b = 0 /\ f = 0
  <2> SUFFICES ASSUME w[u] = 0 PROVE b = 0 /\ f = 0
    OBVIOUS
  <2>1. T * w[u] = 0
    BY <1>1
  <2>2. W * b \in Nat
    BY <1>1, <1>3
  <2>3. f = 0 /\ W * b = 0
    BY <1>3, <2>1, <2>2
  <2> QED
    BY <1>1, <1>3, <2>3
<1> QED
  BY <1>3, <1>4, <1>5 DEF W, b, f

\* The floors leave at most one point for each winner.
LEMMA Remainder ==
  ASSUME NEW T, NEW w, Winning(T, w)
  PROVE  LET rest == T - SumFunction(Floors(T, w))
         IN  /\ rest \in Nat /\ rest <= Cardinality(Recipients(w))
             /\ SumFunction(Floors(T, w)) \in Nat
             /\ IsFiniteSet(Recipients(w)) /\ Cardinality(Recipients(w)) \in Nat
<1> DEFINE W == SumFunction(w)
           base == Floors(T, w)
           fr == Fractions(T, w)
           R == Recipients(w)
           B == SumFunctionOnSet(base, Users)
           F == SumFunctionOnSet(fr, Users)
           num == [u \in Users |-> T * w[u]]
           whole == [u \in Users |-> W * base[u]]
<1>1. /\ T \in Nat /\ W \in Nat \ {0} /\ w \in [Users -> Nat]
      /\ W = SumFunctionOnSet(w, Users)
  <2>1. T \in Nat /\ W \in Nat \ {0} /\ w \in [Users -> Nat]
    BY DEF Winning
  <2>2. SumFunction(w) = SumFunctionOnSet(w, Users)
    BY <2>1, SumOfMap
  <2> QED
    BY <2>1, <2>2
<1>2. SumFunction(base) = B
  BY SumOfMap DEF Floors
<1>3. \A u \in Users : /\ base[u] \in Nat /\ fr[u] \in Nat /\ fr[u] < W
                       /\ T * w[u] = W * base[u] + fr[u]
                       /\ w[u] = 0 => fr[u] = 0
  BY FloorShares
<1>4. /\ \A u \in Users : /\ w[u] \in Int /\ num[u] = T * w[u]
                          /\ whole[u] = W * base[u] /\ base[u] \in Int
      /\ \A u \in Users : whole[u] \in Int /\ fr[u] \in Int /\ num[u] = whole[u] + fr[u]
  <2>1. \A u \in Users : /\ w[u] \in Int /\ num[u] = T * w[u]
                         /\ whole[u] = W * base[u] /\ base[u] \in Int
    BY <1>1, <1>3
  <2> HIDE DEF num, whole, base, fr, W
  <2>2. ASSUME NEW u \in Users PROVE whole[u] \in Int
    BY <1>1, <2>1
  <2> QED
    BY <1>3, <2>1, <2>2
<1>5. IsFiniteSet(R) /\ R \in SUBSET Users /\ Cardinality(R) \in Nat
  BY UsersAssumption, FS_Subset, FS_CardinalityType DEF Recipients
<1>6. \A u \in Users \ R : fr[u] = 0
  BY <1>1, <1>3 DEF Recipients
<1> HIDE DEF W, base, fr, R, num, whole
<1>7. SumFunctionOnSet(num, Users) = T * W
  <2>1. T \in Int
    BY <1>1
  <2>2. \A u \in Users : w[u] \in Int /\ num[u] = T * w[u]
    BY <1>4
  <2>3. IsFiniteSet(Users)
    BY UsersAssumption
  <2>4. SumFunctionOnSet(num, Users) = T * SumFunctionOnSet(w, Users)
    BY <2>1, <2>2, <2>3, SumScale, Zenon
  <2> QED
    BY <1>1, <2>4
<1>8. SumFunctionOnSet(whole, Users) = W * B
  <2>1. W \in Int
    BY <1>1
  <2>2. \A u \in Users : base[u] \in Int /\ whole[u] = W * base[u]
    BY <1>4
  <2>3. IsFiniteSet(Users)
    BY UsersAssumption
  <2>4. SumFunctionOnSet(whole, Users) = W * SumFunctionOnSet(base, Users)
    BY <2>1, <2>2, <2>3, SumScale, Zenon
  <2> QED
    BY <2>4
<1>9. SumFunctionOnSet(num, Users) = SumFunctionOnSet(whole, Users) + F
  <2>1. \A u \in Users : whole[u] \in Int /\ fr[u] \in Int /\ num[u] = whole[u] + fr[u]
    BY <1>4
  <2>2. IsFiniteSet(Users)
    BY UsersAssumption
  <2> HIDE DEF F
  <2>3. SumFunctionOnSet(num, Users)
            = SumFunctionOnSet(whole, Users) + SumFunctionOnSet(fr, Users)
    BY <2>1, <2>2, SumPlus
  <2> QED
    BY <2>3 DEF F
<1>10. B \in Nat /\ F \in Nat
  BY <1>3, UsersAssumption, SumBounds
<1>11. F <= W * Cardinality(R)
  <2>1. F = SumFunctionOnSet(fr, R)
    BY <1>4, <1>5, <1>6, UsersAssumption, SumSupport
  <2>2. \A u \in R : fr[u] \in Nat /\ fr[u] <= W
    BY <1>1, <1>3, <1>5
  <2>3. W \in Nat
    BY <1>1
  <2>4. SumFunctionOnSet(fr, R) <= W * Cardinality(R)
    BY <1>5, <2>2, <2>3, SumAtMost
  <2> QED
    BY <2>1, <2>4
<1> DEFINE n == Cardinality(R)
<1> HIDE DEF B, F, n
<1>12. F = W * (T - B) /\ n \in Nat /\ F <= W * n
  <2>1. n \in Nat /\ F <= W * n
    BY <1>5, <1>11 DEF n
  <2>2. T * W = W * B + F
    BY <1>7, <1>8, <1>9
  <2>3. W * (T - B) = T * W - W * B
    BY <1>1, <1>10
  <2>4. W * B \in Int
    BY <1>1, <1>10
  <2> QED
    BY <1>10, <2>1, <2>2, <2>3, <2>4
<1>13. 0 <= T - B /\ T - B <= n
  <2>1. W * (T - B) <= W * n /\ W * 0 <= W * (T - B)
    BY <1>1, <1>10, <1>12
  <2>2. T - B \in Int /\ n \in Int /\ 0 \in Int
    BY <1>1, <1>10, <1>12
  <2> QED
    BY <1>1, <2>1, <2>2, CancelFactor
<1> QED
  BY <1>1, <1>2, <1>5, <1>10, <1>13 DEF base, R, n

\* The members who get one of the points left over.
Extra(T, w) ==
  {u \in Recipients(w) :
      Cardinality(Sooner(w, Fractions(T, w), u)) < T - SumFunction(Floors(T, w))}

\* The pool T divided among the stakes w.
Divided(T, w) == [u \in Users |-> Floors(T, w)[u] + IF u \in Extra(T, w) THEN 1 ELSE 0]

\* WinningPayouts (payouts of domain.rs) is that division.
LEMMA PayoutsDivide ==
  ASSUME NEW market, NEW o, NEW w, w = Stakes(market, {o}),
         Winning(market.total_staked, w)
  PROVE  WinningPayouts(market, o) = Divided(market.total_staked, w)
<1> DEFINE T == market.total_staked
           base == Floors(T, w)
           fr == Fractions(T, w)
           rest == T - SumFunction(base)
<1>1. WinningPayouts(market, o) =
        [u \in Users |-> IF u \in Recipients(w) /\ Cardinality(Sooner(w, fr, u)) < rest
                         THEN base[u] + 1 ELSE base[u]]
  BY DEF WinningPayouts, Floors, Fractions, Sooner
<1>2. ASSUME NEW u \in Users
      PROVE  (IF u \in Recipients(w) /\ Cardinality(Sooner(w, fr, u)) < rest
              THEN base[u] + 1 ELSE base[u])
              = Floors(T, w)[u] + (IF u \in Extra(T, w) THEN 1 ELSE 0)
  <2>1. u \in Extra(T, w) <=> u \in Recipients(w) /\ Cardinality(Sooner(w, fr, u)) < rest
    BY DEF Extra
  <2>2. base[u] \in Nat
    BY FloorShares
  <2> HIDE DEF base, fr, rest
  <2> QED
    BY <2>1, <2>2 DEF base
<1> HIDE DEF base, fr, rest
<1> QED
  BY <1>1, <1>2 DEF Divided

\* By descending fraction, lower user first, the winners stand in line.
LEMMA SoonerOrders ==
  ASSUME NEW T, NEW w, Winning(T, w)
  PROVE  LET R == Recipients(w)
             fr == Fractions(T, w)
             before == {p \in R \X R : p[1] \in Sooner(w, fr, p[2])}
         IN  /\ Orders(before, R)
             /\ \A u \in R : Ahead(before, R, u) = Sooner(w, fr, u)
<1> DEFINE R == Recipients(w)
           fr == Fractions(T, w)
           before == {p \in R \X R : p[1] \in Sooner(w, fr, p[2])}
           less(v, u) == fr[v] > fr[u] \/ (fr[v] = fr[u] /\ v < u)
<1>1. \A u \in R : u \in Nat /\ fr[u] \in Nat
  BY FloorShares, UsersAssumption DEF Recipients
<1>2. \A u, v \in R : <<v, u>> \in before <=> less(v, u)
  BY DEF Sooner
<1>3. \A u \in R : Ahead(before, R, u) = Sooner(w, fr, u)
  BY DEF Ahead, Sooner
<1> HIDE DEF before, R, fr
<1>4. /\ \A x \in R : <<x, x>> \notin before
      /\ \A x, y \in R : x # y => <<x, y>> \in before \/ <<y, x>> \in before
  BY <1>1, <1>2
<1>5. \A x, y, z \in R : <<x, y>> \in before /\ <<y, z>> \in before => <<x, z>> \in before
  BY <1>1, <1>2
<1>6. Orders(before, R)
  BY <1>4, <1>5 DEF Orders
<1> QED
  BY <1>3, <1>6 DEF before, R, fr

\* As many members as points are left over get one of them.
LEMMA ExtraCount ==
  ASSUME NEW T, NEW w, Winning(T, w)
  PROVE  /\ Cardinality(Extra(T, w)) = T - SumFunction(Floors(T, w))
         /\ Extra(T, w) \in SUBSET Recipients(w) /\ Recipients(w) \in SUBSET Users
<1> DEFINE R == Recipients(w)
           fr == Fractions(T, w)
           before == {p \in R \X R : p[1] \in Sooner(w, fr, p[2])}
           rest == T - SumFunction(Floors(T, w))
<1>1. Orders(before, R) /\ \A u \in R : Ahead(before, R, u) = Sooner(w, fr, u)
  BY SoonerOrders
<1>2. rest \in Nat /\ rest <= Cardinality(R) /\ IsFiniteSet(R)
  BY Remainder
<1>3. Extra(T, w) = {u \in R : Cardinality(Sooner(w, fr, u)) < rest}
  BY DEF Extra
<1> HIDE DEF before, R, fr, rest
<1>4. Extra(T, w) = {u \in R : Cardinality(Ahead(before, R, u)) < rest}
  BY <1>1, <1>3
<1>5. Cardinality({u \in R : Cardinality(Ahead(before, R, u)) < rest}) = rest
  BY <1>1, <1>2, FirstOnes
<1> QED
  BY <1>4, <1>5 DEF rest, Extra, Recipients, R

\* The pool is divided in full, among those with a stake and at no loss to them.
LEMMA DividedInFull ==
  ASSUME NEW T, NEW w, Winning(T, w)
  PROVE  LET paid == Divided(T, w)
         IN  /\ paid \in [Users -> Nat]
             /\ SumFunction(paid) = T
             /\ Recipients(paid) = Recipients(w)
             /\ \A u \in Users : paid[u] >= w[u] /\ paid[u] <= T
             /\ \A u \in Users : w[u] = 0 => paid[u] = 0
<1> DEFINE paid == Divided(T, w)
           base == Floors(T, w)
           E == Extra(T, w)
           one == [u \in Users |-> IF u \in E THEN 1 ELSE 0]
<1>1. \A u \in Users : base[u] \in Nat /\ w[u] \in Nat /\ w[u] <= base[u]
                       /\ (w[u] = 0 => base[u] = 0)
  BY FloorShares DEF Winning
<1>2. \A u \in Users : paid[u] = base[u] + one[u] /\ one[u] \in {0, 1}
  BY DEF Divided
<1>3. Cardinality(E) = T - SumFunction(base) /\ E \in SUBSET Recipients(w) /\ E \in SUBSET Users
  BY ExtraCount
<1>4. T \in Nat /\ SumFunction(base) \in Nat
  BY Remainder DEF Winning
<1>5. \A u \in Users : one[u] = IF u \in E THEN 1 ELSE 0
  OBVIOUS
<1>6. /\ SumFunction(base) = SumFunctionOnSet(base, Users)
      /\ SumFunction(paid) = SumFunctionOnSet(paid, Users)
  BY SumOfMap DEF Floors, Divided
<1>7. paid = [u \in Users |-> paid[u]]
  BY DEF Divided
<1> HIDE DEF paid, base, E, one
<1>8. SumFunctionOnSet(one, Users) = Cardinality(E)
  BY <1>3, <1>5, UsersAssumption, SumCounts
<1>9. \A u \in Users : base[u] \in Int /\ one[u] \in Int /\ paid[u] = base[u] + one[u]
  BY <1>1, <1>2
<1>10. SumFunctionOnSet(paid, Users)
          = SumFunctionOnSet(base, Users) + SumFunctionOnSet(one, Users)
  <2>1. IsFiniteSet(Users)
    BY UsersAssumption
  <2> QED
    BY <1>9, <2>1, SumPlus
<1>11. SumFunction(paid) = T
  BY <1>3, <1>4, <1>6, <1>8, <1>10
<1>12. \A u \in Users : paid[u] \in Nat /\ paid[u] >= w[u]
  BY <1>1, <1>2
<1>13. \A u \in Users : w[u] = 0 => paid[u] = 0
  <2> SUFFICES ASSUME NEW u \in Users, w[u] = 0 PROVE paid[u] = 0
    OBVIOUS
  <2>1. u \notin E
    BY <1>3 DEF Recipients
  <2> QED
    BY <1>1, <1>2, <1>5, <2>1
<1>14. Recipients(paid) = Recipients(w)
  BY <1>1, <1>12, <1>13 DEF Recipients
<1>15. \A u \in Users : paid[u] <= T
  BY <1>6, <1>11, <1>12, UsersAssumption, SumBounds
<1>16. paid \in [Users -> Nat]
  BY <1>7, <1>12
<1> QED
  BY <1>11, <1>12, <1>13, <1>14, <1>15, <1>16 DEF paid

\* Who gets a point left over has no smaller fraction than who does not.
LEMMA ExtraLargest ==
  ASSUME NEW T, NEW w, Winning(T, w), NEW u \in Extra(T, w),
         NEW v \in Recipients(w) \ Extra(T, w)
  PROVE  Fractions(T, w)[v] <= Fractions(T, w)[u]
<1> DEFINE fr == Fractions(T, w)
           rest == T - SumFunction(Floors(T, w))
           su == Sooner(w, fr, u)
           sv == Sooner(w, fr, v)
<1>1. u \in Users /\ v \in Users /\ u \in Recipients(w) /\ Recipients(w) \subseteq Users
  BY DEF Extra, Recipients
<1>2. \A x \in Users : fr[x] \in Nat
  BY FloorShares
<1>3. IsFiniteSet(Recipients(w)) /\ rest \in Nat
  BY Remainder
<1>4. Cardinality(su) < rest /\ ~(Cardinality(sv) < rest)
  BY DEF Extra
<1>5. su \in SUBSET Recipients(w) /\ sv \in SUBSET Recipients(w)
  BY DEF Sooner
<1>6. IsFiniteSet(su) /\ Cardinality(su) \in Nat /\ Cardinality(sv) \in Nat
  BY <1>3, <1>5, FS_Subset, FS_CardinalityType
<1>7. ASSUME fr[u] < fr[v] PROVE sv \in SUBSET su
  <2> HIDE DEF fr
  <2> QED
    BY <1>1, <1>2, <1>7 DEF Sooner
<1> HIDE DEF su, sv, rest
<1>8. ASSUME fr[u] < fr[v] PROVE FALSE
  <2>1. Cardinality(sv) <= Cardinality(su)
    BY <1>6, <1>7, <1>8, FS_Subset
  <2> QED
    BY <1>3, <1>4, <1>6, <2>1
<1> HIDE DEF fr
<1>9. fr[v] <= fr[u]
  BY <1>1, <1>2, <1>8
<1> QED
  BY <1>9 DEF fr

\* A larger stake is never paid less.
LEMMA DividedMonotone ==
  ASSUME NEW T, NEW w, Winning(T, w),
         NEW u \in Recipients(w), NEW v \in Recipients(w), w[u] > w[v]
  PROVE  Divided(T, w)[u] >= Divided(T, w)[v]
<1> DEFINE W == SumFunction(w)
           b(x) == Floors(T, w)[x]
           f(x) == Fractions(T, w)[x]
           E == Extra(T, w)
           e(x) == IF x \in E THEN 1 ELSE 0
<1>1. u \in Users /\ v \in Users
  BY DEF Recipients
<1>2. /\ T \in Nat \ {0} /\ W \in Nat \ {0} /\ w[u] \in Nat /\ w[v] \in Nat
      /\ b(u) \in Nat /\ b(v) \in Nat /\ f(u) \in Nat /\ f(v) \in Nat /\ f(u) < W
      /\ f(v) < W /\ T * w[u] = W * b(u) + f(u) /\ T * w[v] = W * b(v) + f(v)
  <2>1. T \in Nat \ {0} /\ W \in Nat \ {0} /\ w[u] \in Nat /\ w[v] \in Nat
    BY <1>1 DEF Winning
  <2>2. /\ b(u) \in Nat /\ f(u) \in Nat /\ f(u) < W /\ T * w[u] = W * b(u) + f(u)
        /\ b(v) \in Nat /\ f(v) \in Nat /\ f(v) < W /\ T * w[v] = W * b(v) + f(v)
    BY <1>1, FloorShares
  <2> QED
    BY <2>1, <2>2
<1>3. Divided(T, w)[u] = b(u) + e(u) /\ Divided(T, w)[v] = b(v) + e(v)
  BY <1>1 DEF Divided
<1>4. e(u) \in {0, 1} /\ e(v) \in {0, 1}
  OBVIOUS
<1>5. e(v) = 1 /\ e(u) = 0 => f(u) <= f(v)
  <2> SUFFICES ASSUME e(v) = 1, e(u) = 0 PROVE f(u) <= f(v)
    OBVIOUS
  <2>1. v \in E /\ u \in Recipients(w) \ E
    OBVIOUS
  <2> QED
    BY <2>1, ExtraLargest
<1> HIDE DEF W, b, f, E, e
<1>6. W * b(v) + f(v) < W * b(u) + f(u)
  <2>1. T * w[v] < T * w[u]
    BY <1>2, CancelFactor
  <2> QED
    BY <1>2, <2>1
<1>7. W * b(u) \in Int /\ W * b(v) \in Int
  BY <1>2
<1>8. b(v) <= b(u)
  <2> SUFFICES ASSUME b(u) < b(v) PROVE FALSE
    BY <1>2
  <2>1. W * (b(u) + 1) <= W * b(v) /\ W * (b(u) + 1) = W * b(u) + W
    BY <1>2, CancelFactor
  <2> QED
    BY <1>2, <1>6, <1>7, <2>1
<1>9. CASE b(v) < b(u)
  BY <1>2, <1>3, <1>4, <1>9
<1>10. CASE b(v) = b(u)
  <2>1. f(v) < f(u)
    BY <1>2, <1>6, <1>7, <1>10
  <2>2. ~(e(v) = 1 /\ e(u) = 0)
    BY <1>2, <1>5, <2>1
  <2> QED
    BY <1>2, <1>3, <1>4, <1>10, <2>2
<1> QED
  BY <1>2, <1>8, <1>9, <1>10

\* The stakes on one outcome, in a market whose books are in order.
LEMMA WinnersTallied ==
  ASSUME NEW market \in Market, NEW members, Tallied(market, members), NEW o \in Outcomes,
         ~NoWinners(market, o)
  PROVE  /\ Winning(market.total_staked, Stakes(market, {o}))
         /\ \A u \in Users \ members : Stakes(market, {o})[u] = 0
<1> DEFINE w == Stakes(market, {o})
           all == AllStakes(market)
           T == market.total_staked
<1>1. w = [u \in Users |-> w[u]] /\ \A u \in Users : w[u] \in Nat /\ market.bets[u][o] \in Nat
  <2>1. {o} \in SUBSET Outcomes /\ o \in {o}
    OBVIOUS
  <2> QED
    BY <2>1, StakesTyped
<1>2. all = [u \in Users |-> all[u]] /\ \A u \in Users : all[u] \in Nat
  BY StakesTyped DEF AllStakes
<1>3. ASSUME NEW u \in Users PROVE w[u] = market.bets[u][o] /\ w[u] <= all[u]
  <2> DEFINE f == market.bets[u]
  <2>1. \A x \in Outcomes : f[x] \in Nat
    BY DEF Market
  <2>2. w[u] = SumFunctionOnSet(f, {o}) /\ all[u] = SumFunctionOnSet(f, Outcomes)
    BY DEF Stakes, AllStakes
  <2> HIDE DEF f
  <2>3. IsFiniteSet({o}) /\ {o} \ {o} = {} /\ \A x \in {o} : f[x] \in Int
    <3>1. {o} \in SUBSET Outcomes /\ {o} \ {o} = {}
      OBVIOUS
    <3>2. IsFiniteSet({o})
      BY <3>1, OutcomesAssumption, FS_Subset
    <3>3. \A x \in {o} : f[x] \in Int
      BY <2>1
    <3> QED
      BY <3>1, <3>2, <3>3
  <2>4. SumFunctionOnSet(f, {o}) = f[o] + SumFunctionOnSet(f, {})
    BY <2>3, SumRemove
  <2>5. SumFunctionOnSet(f, {o}) = f[o]
    BY <2>1, <2>4, SumNone
  <2>6. f[o] <= SumFunctionOnSet(f, Outcomes)
    BY <2>1, OutcomesAssumption, SumBounds
  <2> QED
    BY <2>2, <2>5, <2>6 DEF f
<1>4. T \in Nat /\ SumFunction(all) = T
  BY I64MaxAssumption DEF Market, Points, Tallied
<1>5. PICK u \in Users : w[u] > 0
  BY DEF NoWinners, Recipients
<1>6. \A x \in Users \ members : market.bets[x][o] = 0
  BY DEF Tallied
<1> HIDE DEF w, all
<1>7. SumFunction(w) = SumFunctionOnSet(w, Users) /\ SumFunction(all) = SumFunctionOnSet(all, Users)
  BY <1>1, <1>2, SumOfMap
<1>8. SumFunction(w) \in Nat /\ w[u] <= SumFunction(w)
  BY <1>1, <1>7, UsersAssumption, SumBounds
<1>9. SumFunction(w) <= SumFunction(all)
  <2>1. \A x \in Users : w[x] \in Int /\ all[x] \in Int /\ w[x] <= all[x]
    BY <1>1, <1>2, <1>3
  <2> QED
    BY <1>7, <2>1, UsersAssumption, SumMonotone
<1>10. Winning(T, w)
  <2>1. SumFunction(w) \in Nat \ {0}
    BY <1>1, <1>5, <1>8
  <2>2. w \in [Users -> Nat]
    BY <1>1
  <2> QED
    BY <1>4, <1>9, <2>1, <2>2 DEF Winning
<1> QED
  BY <1>3, <1>6, <1>10 DEF w


\* While all points fit an i64, shares of an open pool can be credited.
LEMMA PoolCreditable ==
  ASSUME NEW s, IsState(s), InOrder(s), Held(s) + Pooled(s) <= I64Max,
         NEW id \in OpenIn(s), NEW entries \in [Users -> Nat],
         \A u \in Users : entries[u] <= s.markets[id].total_staked,
         \A u \in Users \ DOMAIN s.accounts : entries[u] = 0
  PROVE  Creditable(s.accounts, entries)
<1> DEFINE T == s.markets[id].total_staked
           f == [m \in DOMAIN s.markets |-> Pledge(s.markets[m])]
           g == [u \in DOMAIN s.accounts |-> s.accounts[u].balance]
<1>1. T \in Nat /\ T <= Pooled(s) /\ Pooled(s) \in Nat /\ Held(s) \in Nat
  <2>1. IsFiniteSet(DOMAIN s.markets) /\ Pooled(s) = SumFunctionOnSet(f, DOMAIN s.markets)
    BY PooledAsPledges DEF InOrder
  <2>2. \A m \in DOMAIN s.markets : f[m] \in Nat
    BY MarketFacts
  <2>3. id \in DOMAIN s.markets /\ f[id] = T /\ T \in Nat
    BY MarketFacts DEF OpenIn, Pledge
  <2> HIDE DEF f
  <2> QED
    BY <2>1, <2>2, <2>3, SumBounds, LedgerTyped
<1>2. ASSUME NEW u \in DOMAIN s.accounts
      PROVE  s.accounts[u].balance \in Nat /\ s.accounts[u].balance <= Held(s)
  <2>1. Held(s) = SumFunctionOnSet(g, DOMAIN s.accounts)
    BY SumOfMap DEF Held
  <2>2. IsFiniteSet(DOMAIN s.accounts) /\ \A v \in DOMAIN s.accounts : g[v] \in Nat
    BY AccountFacts
  <2>3. g[u] = s.accounts[u].balance
    OBVIOUS
  <2> HIDE DEF g
  <2> QED
    BY <2>1, <2>2, <2>3, SumBounds
<1>3. \A u \in Users : entries[u] \in Nat /\ entries[u] <= T
  OBVIOUS
<1> HIDE DEF T
<1>4. entries \in [Users -> Points]
  <2>1. \A u \in Users : entries[u] \in Points
    BY <1>1, <1>3, I64MaxAssumption DEF Points
  <2> QED
    BY <2>1
<1>5. ASSUME NEW u \in Recipients(entries)
      PROVE  u \in DOMAIN s.accounts /\ s.accounts[u].balance + entries[u] <= I64Max
  <2>1. u \in Users /\ u \in DOMAIN s.accounts
    BY DEF Recipients
  <2> QED
    BY <1>1, <1>2, <1>3, <2>1, I64MaxAssumption
<1> QED
  BY <1>4, <1>5 DEF Creditable

\* All the stakes of an open market can be returned.
LEMMA StakesCreditable ==
  ASSUME NEW s, IsState(s), InOrder(s), Held(s) + Pooled(s) <= I64Max, NEW id \in OpenIn(s)
  PROVE  Creditable(s.accounts, AllStakes(s.markets[id]))
<1> DEFINE market == s.markets[id]
           all == AllStakes(market)
<1>1. market \in Market /\ Tallied(market, DOMAIN s.accounts)
  BY MarketFacts DEF InOrder, OpenIn
<1>2. all = [u \in Users |-> all[u]] /\ \A u \in Users : all[u] \in Nat
  BY <1>1, StakesTyped DEF AllStakes
<1>3. SumFunction(all) = market.total_staked
  BY <1>1 DEF Tallied
<1>4. ASSUME NEW u \in Users \ DOMAIN s.accounts PROVE all[u] = 0
  <2> DEFINE f == market.bets[u]
  <2>1. all[u] = SumFunctionOnSet(f, Outcomes)
    BY DEF AllStakes, Stakes
  <2>2. \A o \in Outcomes : f[o] = 0 /\ f[o] \in Int
    BY <1>1 DEF Tallied
  <2> HIDE DEF f
  <2>3. SumFunctionOnSet(f, Outcomes) = SumFunctionOnSet(f, {})
    BY <2>2, OutcomesAssumption, SumSupport
  <2> QED
    BY <2>1, <2>3, SumNone
<1> HIDE DEF all
<1>5. \A u \in Users : all[u] <= market.total_staked
  <2>1. SumFunction(all) = SumFunctionOnSet(all, Users)
    BY <1>2, SumOfMap
  <2> QED
    BY <1>2, <1>3, <2>1, UsersAssumption, SumBounds
<1>6. all \in [Users -> Nat]
  BY <1>2
<1>7. Creditable(s.accounts, all)
  BY <1>4, <1>5, <1>6, PoolCreditable
<1> QED
  BY <1>7 DEF all

\* A decision of one event that applies to a valid state is accepted.
LEMMA FinishAccepts ==
  ASSUME NEW s, IsState(s), NEW e, Applicable(s, e), IsState(Effect(s, e))
  PROVE  Finish(s, <<e>>) # {}
<1>1. Len(<<e>>) = 1 /\ <<e>>[1] = e
  OBVIOUS
<1>2. ApplyDecision(s, <<e>>) = Apply(s, e)
  BY <1>1 DEF ApplyDecision, ApplyNth
<1>3. Apply(s, e) = Effect(s, e)
  BY StateIsValid DEF Apply
<1> QED
  BY <1>2, <1>3, StateIsValid DEF Finish
=============================================================================
