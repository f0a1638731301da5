--------------------------- MODULE EconomyProofs ---------------------------
(***************************************************************************)
(* Proofs about one guild's economy, for every set of members and markets, *)
(* every policy and every sequence of wall-clock readings.                 *)
(***************************************************************************)
EXTENDS Economy, DomainProofs

-----------------------------------------------------------------------------
(* The inductive invariant: besides its type and the schedule, a member who  *)
(* has not joined was never granted anything.                                *)

NothingBeforeJoining == \A u \in Users \ Enrolled : granted[u] = 0

IInv == TypeOK /\ NothingBeforeJoining /\ GrantsMatchSchedule

\* Commands other than a join or a grant leave policy, members and due times alone.
SameSchedule(s, r) ==
  /\ r.policy = s.policy
  /\ DOMAIN r.accounts = DOMAIN s.accounts
  /\ \A u \in DOMAIN s.accounts : r.accounts[u].next_grant = s.accounts[u].next_grant

\* A step that leaves policy, members and due times alone keeps the invariant.
LEMMA FrameStep ==
  ASSUME IInv, IsState(state'), SameSchedule(state, state'), now' \in Times,
         UNCHANGED history
  PROVE  IInv'
  BY DEF IInv, TypeOK, NothingBeforeJoining, GrantsMatchSchedule, Enrolled,
         SameSchedule, history

\* The invariant holds of a process that starts on an empty history.
LEMMA InitInv == Init => IInv
<1> SUFFICES ASSUME Init PROVE IInv
  OBVIOUS
<1>1. IsState(state)
  BY DEF Init, IsState, IsMap, EmptyState, EmptyMap
<1>2. Enrolled = {}
  BY DEF Init, EmptyState, EmptyMap, Enrolled
<1>3. 0 \in Time
  BY I64MaxAssumption DEF Time
<1> QED
  BY <1>1, <1>2, <1>3 DEF Init, IInv, TypeOK, NothingBeforeJoining, GrantsMatchSchedule

-----------------------------------------------------------------------------
(* One lemma per command.                                                    *)

\* A member's join: either a repetition without events or a complete enrollment.
LEMMA JoinOutcome ==
  ASSUME IsState(state), NEW actor \in Actors, NEW time \in Time, NEW defaults \in Policy,
         NEW events \in DecideJoin(state, actor, time, defaults)
  PROVE  LET r == ApplyDecision(state, events)
             u == actor.user
         IN  \/ events = << >> /\ r = state
             \/ /\ events # << >> /\ events[Len(events)].amount = r.policy.amount
                /\ IsState(r) /\ r.policy \in Policy
                /\ Enrolled # {} => r.policy = state.policy
                /\ u \in Users \ Enrolled
                /\ DOMAIN r.accounts = Enrolled \cup {u}
                /\ r.accounts[u].next_grant = time + r.policy.interval
                /\ r.accounts[u].balance = r.policy.amount
                /\ \A v \in Enrolled : r.accounts[v] = state.accounts[v]
                /\ r.markets = state.markets
<1> DEFINE r == ApplyDecision(state, events)
           u == actor.user
           policy == IF state.policy = NoPolicy THEN defaults ELSE state.policy
           d == [type |-> "GuildEconomyInitialized", policy |-> policy]
           f == [type |-> "MemberEnrolled", user |-> u, enrolled_at |-> time]
           g == [type |-> "PointsGranted", user |-> u, reason |-> "Initial",
                 amount |-> policy.amount, from_due |-> time, through_due |-> time,
                 next_grant |-> time + policy.interval]
<1>1. u \in Users
  BY ActorsAssumption DEF DecideJoin, Human, Actor
<1>2. CASE u \in Enrolled
  <2>1. events \in Finish(state, << >>)
    BY <1>2 DEF DecideJoin, Enrolled
  <2> QED
    BY <2>1, FinishNone
<1>3. CASE u \notin Enrolled /\ state.policy = NoPolicy
  <2>1. events \in Finish(state, <<d, f, g>>)
    BY <1>3 DEF DecideJoin, Enrolled
  <2> DEFINE s == Effect(state, d)
  <2> HIDE DEF d, f, g
  <2>2. /\ events = <<d, f, g>> /\ Applicable(state, d) /\ Applicable(s, f)
        /\ Applicable(Effect(s, f), g) /\ r = Effect(Effect(s, f), g)
    BY <2>1, FinishThree
  <2>3. d.type = "GuildEconomyInitialized" /\ d.policy = policy /\ policy \in Policy
    BY <1>3 DEF d
  <2>4. /\ IsState(s) /\ s = [state EXCEPT !.policy = policy]
        /\ Enrolled = {}
    BY <2>2, <2>3, InitializationTyped DEF Enrolled
  <2>5. s.policy = policy /\ s.accounts = state.accounts /\ s.markets = state.markets
    BY <2>4 DEF IsState
  <2> HIDE DEF s, policy
  <2>6. /\ IsState(r) /\ r.policy = policy
        /\ DOMAIN r.accounts = DOMAIN s.accounts \cup {u}
        /\ r.accounts[u].next_grant = time + policy.interval
        /\ r.accounts[u].balance = policy.amount /\ r.markets = s.markets
    <3>1. /\ f = [type |-> "MemberEnrolled", user |-> u, enrolled_at |-> time]
          /\ g = [type |-> "PointsGranted", user |-> u, reason |-> "Initial",
                  amount |-> s.policy.amount, from_due |-> time, through_due |-> time,
                  next_grant |-> time + s.policy.interval]
      BY <2>5 DEF f, g
    <3>2. LET q == Effect(Effect(s, f), g)
          IN  /\ IsState(q) /\ q.policy = s.policy
              /\ DOMAIN q.accounts = DOMAIN s.accounts \cup {u}
              /\ q.accounts[u].next_grant = time + s.policy.interval
              /\ q.accounts[u].balance = s.policy.amount /\ q.markets = s.markets
      <4>1. IsState(s) /\ Applicable(s, f) /\ Applicable(Effect(s, f), g)
        BY <2>2, <2>4
      <4> QED
        BY <1>1, <3>1, <4>1, EnrollAndGrant
    <3> QED
      BY <2>2, <2>5, <3>2
  <2>7. events # << >> /\ events[Len(events)].amount = policy.amount
    BY <2>2 DEF g
  <2> QED
    BY <1>1, <1>3, <2>3, <2>4, <2>5, <2>6, <2>7 DEF Enrolled
<1>4. CASE u \notin Enrolled /\ state.policy # NoPolicy
  <2>1. events \in Finish(state, <<f, g>>) /\ policy = state.policy
    BY <1>4 DEF DecideJoin, Enrolled
  <2> HIDE DEF f, g
  <2>2. /\ events = <<f, g>> /\ Applicable(state, f)
        /\ Applicable(Effect(state, f), g) /\ r = Effect(Effect(state, f), g)
    BY <2>1, FinishTwo
  <2>3. /\ IsState(r) /\ r.policy = policy /\ policy \in Policy
        /\ DOMAIN r.accounts = Enrolled \cup {u}
        /\ r.accounts[u].next_grant = time + policy.interval
        /\ r.accounts[u].balance = policy.amount /\ r.markets = state.markets
        /\ \A v \in Enrolled : r.accounts[v] = state.accounts[v]
    BY <1>1, <2>1, <2>2, EnrollAndGrant DEF f, g, Enrolled
  <2>4. events # << >> /\ events[Len(events)].amount = policy.amount
    BY <2>2 DEF g
  <2> QED
    BY <1>1, <1>4, <2>1, <2>3, <2>4
<1> QED
  BY <1>2, <1>3, <1>4

\* The typing facts of the invariant, unfolded.
LEMMA InvTypes ==
  ASSUME IInv
  PROVE  /\ IsState(state)
         /\ \A u \in Enrolled : u \in Users /\ state.accounts[u] \in Account
         /\ \A u \in Users : granted[u] \in Nat /\ enrolled_at[u] \in Nat
  BY PoliciesAssumption, I64MaxAssumption DEF IInv, TypeOK, IsState, IsMap, Enrolled, Time

\* What a command may do to the members of the state before it.
MembersKept == \A u \in Enrolled :
    u \in DOMAIN state'.accounts /\ state'.accounts[u].next_grant = state.accounts[u].next_grant

\* A step keeps the books in order and, if points were conserved, conserves them.
Accounted == InOrder(state) => InOrder(state') /\ (PointsConserved => PointsConserved')

\* PointsConserved in terms of the ledger.
LEMMA Conserved == PointsConserved <=> Held(state) + Pooled(state) = SumFunction(granted)
  BY DEF PointsConserved, Held, Pooled, OpenIn, OpenMarkets, Enrolled

\* The points ever granted are an amount.
LEMMA GrantedTyped ==
  ASSUME IInv
  PROVE  SumFunction(granted) = SumFunctionOnSet(granted, Users) /\ SumFunction(granted) \in Nat
<1>1. granted = [u \in Users |-> granted[u]] /\ \A u \in Users : granted[u] \in Nat
  BY DEF IInv, TypeOK
<1>2. SumFunction(granted) = SumFunctionOnSet(granted, Users)
  BY <1>1, SumOfMap
<1> QED
  BY <1>1, <1>2, UsersAssumption, SumBounds

\* The ledger and the points granted grow by the same amount.
LEMMA BooksAccounted ==
  ASSUME IInv, NEW amount \in Int, InOrder(state) => Books(state, state', amount),
         SumFunction(granted') = SumFunction(granted) + amount
  PROVE  Accounted
<1> SUFFICES ASSUME InOrder(state)
             PROVE  InOrder(state') /\ (PointsConserved => PointsConserved')
  BY DEF Accounted
<1>1. /\ InOrder(state') /\ Held(state) \in Nat /\ Pooled(state) \in Nat
      /\ Held(state') + Pooled(state') = Held(state) + Pooled(state) + amount
  BY DEF Books
<1>2. PointsConserved' <=> Held(state') + Pooled(state') = SumFunction(granted')
  BY DEF PointsConserved, Held, Pooled, OpenIn, OpenMarkets, Enrolled
<1> QED
  BY <1>1, <1>2, Conserved, GrantedTyped

\* A step that changes neither the state nor what was granted.
LEMMA NothingAccounted ==
  ASSUME state' = state, granted' = granted
  PROVE  Accounted
  BY DEF Accounted, PointsConserved, Enrolled, OpenMarkets

\* A step that grants a member what the ledger grows by.
LEMMA GrantAccounted ==
  ASSUME IInv, NEW u \in Users, NEW x \in Nat, granted' = [granted EXCEPT ![u] = granted[u] + x],
         InOrder(state) => Books(state, state', x)
  PROVE  Accounted
<1>1. granted = [v \in Users |-> granted[v]] /\ \A v \in Users : granted[v] \in Nat
  BY DEF IInv, TypeOK
<1>2. /\ granted' = [v \in Users |-> granted'[v]] /\ granted'[u] = granted[u] + x
      /\ \A v \in Users : granted[v] \in Int /\ granted'[v] \in Int
      /\ \A v \in Users \ {u} : granted'[v] = granted[v]
  BY <1>1
<1>3. SumFunction(granted') = SumFunctionOnSet(granted', Users)
  BY <1>2, SumOfMap
<1>4. SumFunctionOnSet(granted', Users) = SumFunctionOnSet(granted, Users) + granted'[u] - granted[u]
  BY <1>2, UsersAssumption, SumChange
<1>5. SumFunction(granted') = SumFunction(granted) + x
  BY <1>2, <1>3, <1>4, GrantedTyped
<1>6. x \in Int
  OBVIOUS
<1> QED
  BY <1>5, <1>6, BooksAccounted

\* decide_join: the member joins on schedule, the others are left alone.
LEMMA JoinStep ==
  ASSUME IInv, NEW actor \in Actors, NEW policy \in Policies, NEW time \in Times,
         Join(actor, policy, time)
  PROVE  IInv' /\ MembersKept /\ Accounted
<1> DEFINE u == actor.user
<1>1. time \in Time /\ time \in Nat
  BY TimesAssumption, I64MaxAssumption DEF Time
<1>2. PICK events \in DecideJoin(state, actor, time, policy) :
        /\ Commit(events, time)
        /\ IF events = << >>
           THEN UNCHANGED history
           ELSE /\ enrolled_at' = [enrolled_at EXCEPT ![u] = time]
                /\ granted' = [granted EXCEPT ![u] = @ + events[Len(events)].amount]
  BY DEF Join
<1>3. state' = ApplyDecision(state, events) /\ now' = time
  BY <1>2 DEF Commit
<1>4. CASE events = << >> /\ state' = state
  <2>1. SameSchedule(state, state') /\ IsState(state') /\ MembersKept
    BY <1>4, InvTypes DEF SameSchedule, MembersKept, Enrolled
  <2>2. Accounted
    BY <1>2, <1>4, NothingAccounted DEF history
  <2> QED
    BY <1>2, <1>3, <1>4, <2>1, <2>2, FrameStep
<1>5. CASE /\ events # << >> /\ events[Len(events)].amount = state'.policy.amount
           /\ IsState(state') /\ state'.policy \in Policy
           /\ Enrolled # {} => state'.policy = state.policy
           /\ u \in Users \ Enrolled
           /\ DOMAIN state'.accounts = Enrolled \cup {u}
           /\ state'.accounts[u].next_grant = time + state'.policy.interval
           /\ state'.accounts[u].balance = state'.policy.amount
           /\ \A v \in Enrolled : state'.accounts[v] = state.accounts[v]
           /\ state'.markets = state.markets
  <2>1. /\ state'.policy.amount \in Nat /\ state'.policy.interval \in Nat
        /\ granted[u] = 0
    BY <1>5, I64MaxAssumption DEF IInv, NothingBeforeJoining, Policy
  <2>2. /\ enrolled_at' = [enrolled_at EXCEPT ![u] = time]
        /\ granted' = [granted EXCEPT ![u] = state'.policy.amount]
    BY <1>2, <1>5, <2>1, InvTypes
  <2>3. TypeOK'
    BY <1>1, <1>3, <1>5, <2>1, <2>2 DEF IInv, TypeOK
  <2>4. NothingBeforeJoining'
    BY <1>5, <2>2 DEF IInv, TypeOK, NothingBeforeJoining, Enrolled
  <2>5. GrantsMatchSchedule'
    <3>1. ASSUME NEW v \in Enrolled'
          PROVE  (granted[v] * state.policy.interval
                    = state.policy.amount * (state.accounts[v].next_grant - enrolled_at[v]))'
      <4>1. CASE v = u
        BY <1>1, <1>5, <2>1, <2>2, <4>1 DEF IInv, TypeOK
      <4>2. CASE v # u
        <5>1. v \in Enrolled /\ v \in Users
          BY <1>5, <4>2, InvTypes DEF Enrolled
        <5> QED
          BY <1>5, <2>2, <4>2, <5>1 DEF IInv, TypeOK, GrantsMatchSchedule
      <4> QED
        BY <4>1, <4>2
    <3> QED
      BY <3>1 DEF GrantsMatchSchedule
  <2>6. Accounted
    <3> DEFINE x == state'.accounts[u].balance
    <3>1. x \in Nat /\ u \in Users /\ granted' = [granted EXCEPT ![u] = granted[u] + x]
      <4>1. x = state'.policy.amount /\ x \in Nat /\ u \in Users
        BY <1>5, <2>1
      <4> HIDE DEF x, u
      <4>2. granted[u] + x = state'.policy.amount
        BY <2>1, <4>1
      <4> QED
        BY <2>2, <4>1, <4>2
    <3>2. /\ u \notin DOMAIN state.accounts
          /\ DOMAIN state'.accounts = DOMAIN state.accounts \cup {u}
          /\ \A v \in DOMAIN state.accounts : state'.accounts[v] = state.accounts[v]
      BY <1>5 DEF Enrolled
    <3> HIDE DEF u
    <3>3. Held(state') = Held(state) + x
      BY <3>1, <3>2, InvTypes, HeldInsert
    <3> HIDE DEF x
    <3>4. InOrder(state) => Books(state, state', x)
      BY <1>5, <3>1, <3>2, <3>3, InvTypes, AccountsBooks
    <3> QED
      BY <3>1, <3>4, GrantAccounted
  <2> QED
    BY <1>5, <2>3, <2>4, <2>5, <2>6 DEF IInv, MembersKept
<1> QED
  BY <1>1, <1>2, <1>3, <1>4, <1>5, InvTypes, PoliciesAssumption, JoinOutcome

\* A grant: one made too early has no events; any other covers every due time
\* up to the time it was accepted.
LEMMA GrantOutcome ==
  ASSUME IsState(state), NEW user \in Users, NEW time \in Time,
         NEW events \in DecideGrant(state, SystemActor, user, time)
  PROVE  LET r == ApplyDecision(state, events)
             account == state.accounts[user]
             interval == state.policy.interval
             e == events[1]
         IN  \/ events = << >> /\ r = state
             \/ /\ events # << >> /\ user \in Enrolled
                /\ e.amount \in Nat /\ e.next_grant \in Int
                /\ e.amount * interval
                        = state.policy.amount * (e.next_grant - account.next_grant)
                /\ e.next_grant - interval <= time /\ time < e.next_grant
                /\ IsState(r) /\ r.policy = state.policy
                /\ r.accounts = [state.accounts EXCEPT ![user] =
                        [balance |-> account.balance + e.amount, next_grant |-> e.next_grant]]
                /\ r.markets = state.markets
<1> DEFINE r == ApplyDecision(state, events)
           account == state.accounts[user]
           interval == state.policy.interval
           e == DueGrant(state, user, time)
<1>1. state.policy # NoPolicy /\ user \in Enrolled
  BY DEF DecideGrant, Enrolled
<1>2. CASE time < account.next_grant
  <2>1. events \in Finish(state, << >>)
    BY <1>1, <1>2 DEF DecideGrant, Enrolled, SystemActor
  <2> QED
    BY <2>1, FinishNone
<1>3. CASE ~(time < account.next_grant)
  <2>1. events \in Finish(state, <<e>>)
    BY <1>1, <1>3 DEF DecideGrant, Enrolled, SystemActor
  <2>2. /\ state.policy \in Policy /\ account \in Account
        /\ interval \in Nat \ {0} /\ state.policy.amount \in Nat
        /\ account.next_grant \in Nat /\ time \in Nat
        /\ time - account.next_grant \in Nat
    BY <1>1, <1>3, I64MaxAssumption DEF IsState, IsMap, Policy, Account, Time, Enrolled
  <2> DEFINE count == (time - account.next_grant) \div interval
  <2>3. /\ count \in Nat /\ interval * count <= time - account.next_grant
        /\ time - account.next_grant < interval * count + interval
    BY <2>2, DivisionBounds
  <2>4. /\ e.type = "PointsGranted" /\ e.user = user
        /\ e.through_due = account.next_grant + interval * ((count + 1) - 1)
        /\ e.amount = state.policy.amount * (count + 1)
        /\ e.next_grant = e.through_due + interval
    BY DEF DueGrant
  <2> HIDE DEF e, count
  <2>5. /\ e.through_due = account.next_grant + interval * count
        /\ e.through_due \in Int /\ e.amount \in Int
    BY <2>2, <2>3, <2>4
  <2>6. events = <<e>> /\ Applicable(state, e) /\ r = Effect(state, e)
    BY <2>1, FinishOne
  <2>7. IsState(r) /\ CanGrant(state, e) /\ r = ApplyGrant(state, e)
    BY <2>4, <2>5, <2>6, GrantTyped
  <2>8. /\ e.amount \in Nat /\ e.next_grant \in Int
        /\ e.amount * interval = state.policy.amount * (e.next_grant - account.next_grant)
    BY <2>4, <2>5, <2>7, GrantArithmetic
  <2>9. e.next_grant - interval <= time /\ time < e.next_grant
    BY <2>2, <2>3, <2>4, <2>5
  <2>10. /\ r.policy = state.policy /\ r.markets = state.markets
         /\ r.accounts = [state.accounts EXCEPT ![user] =
                [balance |-> account.balance + e.amount, next_grant |-> e.next_grant]]
    BY <2>4, <2>7 DEF ApplyGrant, IsState
  <2>11. events # << >> /\ events[1] = e
    BY <2>6
  <2> QED
    BY <1>1, <2>7, <2>8, <2>9, <2>10, <2>11
<1> QED
  BY <1>2, <1>3

\* Granting x on the way from n to n2 extends a schedule that began at b.
LEMMA ScheduleExtends ==
  ASSUME NEW g \in Int, NEW x \in Int, NEW i \in Int, NEW a \in Int,
         NEW n \in Int, NEW n2 \in Int, NEW b \in Int,
         g * i = a * (n - b), x * i = a * (n2 - n)
  PROVE  (g + x) * i = a * (n2 - b)
<1>1. (g + x) * i = g * i + x * i
  OBVIOUS
<1>2. ASSUME NEW c \in Int, NEW d \in Int PROVE a * (c + d) = a * c + a * d
  OBVIOUS
<1>3. n2 - b = (n - b) + (n2 - n) /\ n - b \in Int /\ n2 - n \in Int
  OBVIOUS
<1>4. a * (n2 - b) = a * (n - b) + a * (n2 - n)
  BY <1>2, <1>3
<1> QED
  BY <1>1, <1>4

\* The bounds of GrantsCatchUp, as a relation between two states.
CaughtUp == \A u \in Enrolled :
    state'.accounts[u].next_grant # state.accounts[u].next_grant =>
        /\ state'.accounts[u].next_grant - state'.policy.interval <= now'
        /\ now' < state'.accounts[u].next_grant

\* A step without grants satisfies the catch-up property.
LEMMA KeptIsCaughtUp == ASSUME MembersKept PROVE CaughtUp
  BY DEF MembersKept, CaughtUp

\* decide_grant and apply_grant extend the schedule of one member.
LEMMA GrantStep ==
  ASSUME IInv, NEW user \in Users, NEW time \in Times, Grant(user, time)
  PROVE  IInv' /\ CaughtUp /\ Accounted
<1>1. time \in Time
  BY TimesAssumption
<1>2. PICK events \in DecideGrant(state, SystemActor, user, time) :
        /\ Commit(events, time)
        /\ UNCHANGED enrolled_at
        /\ IF events = << >>
           THEN UNCHANGED granted
           ELSE granted' = [granted EXCEPT ![user] = @ + events[1].amount]
  BY DEF Grant
<1>3. state' = ApplyDecision(state, events) /\ now' = time
  BY <1>2 DEF Commit
<1> DEFINE account == state.accounts[user]
           e == events[1]
           interval == state.policy.interval
<1>4. CASE events = << >> /\ state' = state
  <2>1. SameSchedule(state, state') /\ IsState(state') /\ MembersKept
    BY <1>4, InvTypes DEF SameSchedule, MembersKept, Enrolled
  <2>2. UNCHANGED history
    BY <1>2, <1>3, <1>4 DEF history
  <2>3. Accounted
    BY <1>4, <2>2, NothingAccounted DEF history
  <2> QED
    BY <1>3, <2>1, <2>2, <2>3, FrameStep, KeptIsCaughtUp
<1>5. CASE /\ events # << >> /\ user \in Enrolled
           /\ e.amount \in Nat /\ e.next_grant \in Int
           /\ e.amount * interval = state.policy.amount * (e.next_grant - account.next_grant)
           /\ e.next_grant - interval <= time /\ time < e.next_grant
           /\ IsState(state') /\ state'.policy = state.policy
           /\ state'.accounts = [state.accounts EXCEPT ![user] =
                [balance |-> account.balance + e.amount, next_grant |-> e.next_grant]]
           /\ state'.markets = state.markets
  <2>1. granted' = [granted EXCEPT ![user] = @ + e.amount] /\ enrolled_at' = enrolled_at
    BY <1>2, <1>5
  <2>2. /\ Enrolled' = Enrolled
        /\ state'.accounts[user].next_grant = e.next_grant
        /\ \A v \in Enrolled : v # user => state'.accounts[v] = state.accounts[v]
    BY <1>5 DEF Enrolled
  <2>3. TypeOK'
    BY <1>3, <1>5, <2>1 DEF IInv, TypeOK
  <2>4. NothingBeforeJoining'
    BY <1>5, <2>1, <2>2 DEF IInv, TypeOK, NothingBeforeJoining
  <2>5. GrantsMatchSchedule'
    <3>1. ASSUME NEW v \in Enrolled
          PROVE  granted'[v] * interval
                    = state.policy.amount * (state'.accounts[v].next_grant - enrolled_at[v])
      <4>1. /\ v \in Users /\ granted[v] \in Nat /\ enrolled_at[v] \in Nat
            /\ granted[v] * interval
                    = state.policy.amount * (state.accounts[v].next_grant - enrolled_at[v])
        BY InvTypes DEF IInv, GrantsMatchSchedule
      <4>2. CASE v = user
        <5>1. granted'[v] = granted[v] + e.amount
          BY <2>1, <4>1, <4>2 DEF IInv, TypeOK
        <5>2. /\ account.next_grant \in Int
              /\ interval \in Int /\ state.policy.amount \in Int
          BY <1>5, InvTypes, I64MaxAssumption DEF Account, Time, IsState, Policy, NoPolicy
        <5> DEFINE g == granted[v]
                   x == e.amount
                   a == state.policy.amount
                   n == account.next_grant
                   m == e.next_grant
                   b == enrolled_at[v]
        <5>3. /\ g \in Int /\ x \in Int /\ interval \in Int /\ a \in Int
              /\ n \in Int /\ m \in Int /\ b \in Int
              /\ g * interval = a * (n - b) /\ x * interval = a * (m - n)
          BY <1>5, <4>1, <4>2, <5>2
        <5>4. (g + x) * interval = a * (m - b)
          <6> HIDE DEF g, x, interval, a, n, m, b
          <6> QED
            BY <5>3, ScheduleExtends
        <5> QED
          BY <2>2, <4>2, <5>1, <5>4
      <4>3. CASE v # user
        BY <2>1, <2>2, <4>1, <4>3 DEF IInv, TypeOK
      <4> QED
        BY <4>2, <4>3
    <3> QED
      BY <1>5, <2>1, <2>2, <3>1 DEF GrantsMatchSchedule
  <2>6. CaughtUp
    BY <1>3, <1>5, <2>2 DEF CaughtUp
  <2>7. Accounted
    <3>1. /\ user \in DOMAIN state.accounts /\ DOMAIN state'.accounts = DOMAIN state.accounts
          /\ \A v \in DOMAIN state.accounts \ {user} : state'.accounts[v] = state.accounts[v]
          /\ state'.accounts[user].balance = account.balance + e.amount
      BY <1>5, <2>2 DEF Enrolled
    <3>2. account.balance \in Nat
      BY <3>1, InvTypes, AccountFacts
    <3> HIDE DEF account, e
    <3>3. Held(state') = Held(state) + state'.accounts[user].balance - state.accounts[user].balance
      <4>1. state'.accounts[user].balance \in Int
        BY <1>5, <3>1, <3>2
      <4> QED
        BY <3>1, <4>1, InvTypes, HeldChange
    <3>4. InOrder(state) => Held(state') = Held(state) + e.amount
      BY <1>5, <3>1, <3>2, <3>3, InvTypes, LedgerTyped DEF account
    <3>5. InOrder(state) => Books(state, state', e.amount)
      BY <1>5, <3>1, <3>4, InvTypes, AccountsBooks
    <3> QED
      BY <1>5, <2>1, <3>5, GrantAccounted
  <2> QED
    BY <2>3, <2>4, <2>5, <2>6, <2>7 DEF IInv
<1> QED
  BY <1>1, <1>3, <1>4, <1>5, InvTypes, GrantOutcome

\* The state of a command that leaves policy, members, due times and points alone.
Frame(r) ==
  /\ IsState(r) /\ SameSchedule(state, r)
  /\ InOrder(state) => Books(state, r, 0)

\* A command that leaves policy, members, due times and points alone.
LEMMA CommitFrame ==
  ASSUME IInv, NEW events, NEW time \in Times, Commit(events, time), UNCHANGED history,
         LET r == ApplyDecision(state, events) IN Frame(r)
  PROVE  IInv' /\ MembersKept /\ Accounted
<1>1. /\ IsState(state') /\ SameSchedule(state, state') /\ now' \in Times
      /\ UNCHANGED history
  BY DEF Commit, Frame
<1>2. Accounted
  <2>1. InOrder(state) => Books(state, state', 0)
    BY DEF Commit, Frame
  <2>2. SumFunction(granted') = SumFunction(granted) + 0
    BY <1>1, GrantedTyped DEF history
  <2> QED
    BY <2>1, <2>2, BooksAccounted
<1> QED
  BY <1>1, <1>2, FrameStep DEF MembersKept, SameSchedule, Enrolled

\* An accepted command without events is such a step.
LEMMA NoEventsFrame ==
  ASSUME IInv, NEW events \in Finish(state, << >>)
  PROVE  Frame(ApplyDecision(state, events))
<1>1. ApplyDecision(state, events) = state
  BY FinishNone
<1>2. InOrder(state) => Books(state, state, 0)
  BY InvTypes, LedgerTyped DEF Books
<1> QED
  BY <1>1, <1>2, InvTypes DEF Frame, SameSchedule

\* decide_create and apply_market_creation.
LEMMA CreateStep ==
  ASSUME IInv, NEW actor \in Actors, NEW id \in Markets, NEW options \in OptionCounts,
         NEW closes_at \in Closings, NEW time \in Times,
         Create(actor, id, options, closes_at, time)
  PROVE  IInv' /\ MembersKept /\ Accounted
<1> DEFINE e == [type |-> "MarketCreated", id |-> id, creator |-> actor.user,
                 options |-> options, created_at |-> time, closes_at |-> closes_at]
<1>1. PICK events \in DecideCreate(state, actor, id, options, closes_at, time) :
        Commit(events, time) /\ UNCHANGED history
  BY DEF Create
<1>2. events \in Finish(state, <<e>>) /\ actor.user \in Enrolled
  BY <1>1 DEF DecideCreate, Enrolled
<1>3. /\ e.type = "MarketCreated" /\ e.id \in Markets /\ e.creator \in Users
      /\ e.options \in Nat /\ e.created_at \in Time /\ e.closes_at \in Time
  BY <1>2, InvTypes, TimesAssumption, ClosingsAssumption, OptionCountsAssumption
<1> HIDE DEF e
<1>4. Applicable(state, e) /\ ApplyDecision(state, events) = Effect(state, e)
  BY <1>2, FinishOne
<1>5. /\ IsState(Effect(state, e))
      /\ Effect(state, e) = [state EXCEPT !.markets = Insert(@, e.id, NewMarket(e))]
  BY <1>3, <1>4, InvTypes, CreationTyped
<1>6. SameSchedule(state, Effect(state, e))
  BY <1>5, InvTypes DEF SameSchedule, IsState
<1>7. InOrder(state) => Books(state, Effect(state, e), 0)
  <2>1. e.id \notin DOMAIN state.markets
    BY <1>3, <1>4 DEF Applicable, CanCreateMarket
  <2> QED
    BY <1>5, <2>1, InvTypes, CreationBooks
<1> QED
  BY <1>1, <1>4, <1>5, <1>6, <1>7, CommitFrame DEF Frame

\* decide Bet and apply_bet.
LEMMA BetStep ==
  ASSUME IInv, NEW actor \in Actors, NEW id \in Markets, NEW outcome \in Outcomes,
         NEW amount \in Stakings, NEW time \in Times, Bet(actor, id, outcome, amount, time)
  PROVE  IInv' /\ MembersKept /\ Accounted
<1> DEFINE e == [type |-> "BetPlaced", id |-> id, user |-> actor.user,
                 outcome |-> outcome, amount |-> amount, accepted_at |-> time]
<1>1. PICK events \in DecideBet(state, actor, id, outcome, amount, time) :
        Commit(events, time) /\ UNCHANGED history
  BY DEF Bet
<1>2. events \in Finish(state, <<e>>) /\ actor.user \in Enrolled
  BY <1>1 DEF DecideBet, Enrolled
<1>3. e.type = "BetPlaced" /\ e.outcome \in Outcomes /\ e.amount \in Int
  BY StakingsAssumption
<1> HIDE DEF e
<1>4. Applicable(state, e) /\ ApplyDecision(state, events) = Effect(state, e)
  BY <1>2, FinishOne
<1>5. /\ IsState(Effect(state, e)) /\ CanBet(state, e)
      /\ Effect(state, e) = ApplyBet(state, e)
  BY <1>3, <1>4, InvTypes, BetTyped
<1>6. SameSchedule(state, Effect(state, e))
  <2>1. /\ Effect(state, e).policy = state.policy
        /\ Effect(state, e).accounts =
              [state.accounts EXCEPT ![e.user] = Debited(state.accounts[e.user], e)]
    BY <1>5, InvTypes DEF ApplyBet, IsState
  <2>2. e.user \in DOMAIN state.accounts
    BY <1>5 DEF CanBet
  <2>3. Debited(state.accounts[e.user], e).next_grant = state.accounts[e.user].next_grant
    BY <2>2, InvTypes DEF Debited, Account, Enrolled
  <2> QED
    BY <2>1, <2>2, <2>3 DEF SameSchedule
<1>7. InOrder(state) => Books(state, Effect(state, e), 0)
  BY <1>3, <1>5, InvTypes, BetBooks
<1> QED
  BY <1>1, <1>4, <1>5, <1>6, <1>7, CommitFrame DEF Frame

\* Crediting an allocation changes balances only.
LEMMA CreditFrame ==
  ASSUME NEW s, IsState(s), NEW r, NEW entries, Creditable(s.accounts, entries),
         r.policy = s.policy, r.accounts = Credit(s.accounts, entries)
  PROVE  SameSchedule(s, r)
  BY CreditTyped DEF SameSchedule, IsState

\* decide_resolve and apply_resolution.
LEMMA ResolveStep ==
  ASSUME IInv, NEW actor \in Actors, NEW id \in Markets, NEW outcome \in Outcomes,
         NEW membership \in Evidence, NEW time \in Times,
         Resolve(actor, id, outcome, membership, time)
  PROVE  IInv' /\ MembersKept /\ Accounted
<1> DEFINE market == state.markets[id]
           e == [type |-> "MarketResolved", id |-> id, outcome |-> outcome,
                 resolver |-> actor.user, settled_at |-> time,
                 payouts |-> Payouts(market, outcome),
                 refunded |-> NoWinners(market, outcome)]
<1>1. PICK events \in DecideResolve(state, actor, id, outcome, time, membership) :
        Commit(events, time) /\ UNCHANGED history
  BY DEF Resolve
<1>2. events \in Finish(state, <<e>>)
  BY <1>1 DEF DecideResolve
<1>3. e.type = "MarketResolved" /\ e.outcome \in Outcomes /\ e.refunded \in BOOLEAN
  BY DEF NoWinners
<1> HIDE DEF e
<1>4. Applicable(state, e) /\ ApplyDecision(state, events) = Effect(state, e)
  BY <1>2, FinishOne
<1>5. /\ IsState(Effect(state, e)) /\ Effect(state, e).policy = state.policy
      /\ Effect(state, e).accounts = Credit(state.accounts, e.payouts)
      /\ Creditable(state.accounts, e.payouts)
  BY <1>3, <1>4, InvTypes, ResolutionTyped
<1>6. SameSchedule(state, Effect(state, e))
  BY <1>5, InvTypes, CreditFrame
<1>7. InOrder(state) => Books(state, Effect(state, e), 0)
  <2>1. CanResolve(state, e) /\ Effect(state, e) = ApplyResolution(state, e)
    BY <1>3, <1>4 DEF Applicable, Effect
  <2> QED
    BY <1>5, <2>1, InvTypes, ResolutionBooks
<1> QED
  BY <1>1, <1>4, <1>5, <1>6, <1>7, CommitFrame DEF Frame

\* decide_cancel and apply_cancellation.
LEMMA CancelStep ==
  ASSUME IInv, NEW actor \in Actors, NEW id \in Markets, NEW time \in Times,
         Cancel(actor, id, time)
  PROVE  IInv' /\ MembersKept /\ Accounted
<1> DEFINE e == [type |-> "MarketCancelled", id |-> id, moderator |-> actor.user,
                 cancelled_at |-> time, refunds |-> AllStakes(state.markets[id])]
<1>1. PICK events \in DecideCancel(state, actor, id, time) :
        Commit(events, time) /\ UNCHANGED history
  BY DEF Cancel
<1>2. events \in Finish(state, <<e>>)
  BY <1>1 DEF DecideCancel
<1>3. e.type = "MarketCancelled"
  OBVIOUS
<1> HIDE DEF e
<1>4. Applicable(state, e) /\ ApplyDecision(state, events) = Effect(state, e)
  BY <1>2, FinishOne
<1>5. /\ IsState(Effect(state, e)) /\ Effect(state, e).policy = state.policy
      /\ Effect(state, e).accounts = Credit(state.accounts, e.refunds)
      /\ Creditable(state.accounts, e.refunds)
  BY <1>3, <1>4, InvTypes, CancellationTyped
<1>6. SameSchedule(state, Effect(state, e))
  BY <1>5, InvTypes, CreditFrame
<1>7. InOrder(state) => Books(state, Effect(state, e), 0)
  <2>1. CanCancel(state, e) /\ Effect(state, e) = ApplyCancellation(state, e)
    BY <1>3, <1>4 DEF Applicable, Effect
  <2> QED
    BY <1>5, <2>1, InvTypes, CancellationBooks
<1> QED
  BY <1>1, <1>4, <1>5, <1>6, <1>7, CommitFrame DEF Frame

\* Adding and removing a resolver.
LEMMA ResolverEventFrame ==
  ASSUME IInv, NEW e, e.type \in {"MarketResolverAdded", "MarketResolverRemoved"},
         e.user \in Users, NEW events \in Finish(state, <<e>>)
  PROVE  Frame(ApplyDecision(state, events))
<1>1. Applicable(state, e) /\ ApplyDecision(state, events) = Effect(state, e)
  BY FinishOne
<1>2. /\ IsState(Effect(state, e)) /\ Effect(state, e).policy = state.policy
      /\ Effect(state, e).accounts = state.accounts
  BY <1>1, InvTypes, ResolverChangeTyped
<1>3. InOrder(state) => Books(state, Effect(state, e), 0)
  <2>1. CanChangeResolver(state, e) /\ Effect(state, e) = ApplyResolverChange(state, e)
    BY <1>1 DEF Applicable, Effect
  <2> QED
    BY <1>2, <2>1, InvTypes, ResolverChangeBooks
<1> QED
  BY <1>1, <1>2, <1>3 DEF Frame, SameSchedule

\* decide_add_resolver.
LEMMA AddResolverStep ==
  ASSUME IInv, NEW actor \in Actors, NEW id \in Markets, NEW user \in Users,
         NEW membership \in Evidence, NEW time \in Times,
         AddResolver(actor, id, user, membership, time)
  PROVE  IInv' /\ MembersKept /\ Accounted
<1> DEFINE e == [type |-> "MarketResolverAdded", id |-> id, user |-> user,
                 by |-> actor.user, at |-> time]
<1>1. PICK events \in DecideAddResolver(state, actor, id, user, time, membership) :
        Commit(events, time) /\ UNCHANGED history
  BY DEF AddResolver
<1>2. events \in Finish(state, << >>) \/ events \in Finish(state, <<e>>)
  BY <1>1 DEF DecideAddResolver
<1>3. e.type = "MarketResolverAdded" /\ e.user \in Users
  OBVIOUS
<1> HIDE DEF e
<1>4. Frame(ApplyDecision(state, events))
  BY <1>2, <1>3, NoEventsFrame, ResolverEventFrame
<1> QED
  BY <1>1, <1>4, CommitFrame

\* decide_remove_resolver.
LEMMA RemoveResolverStep ==
  ASSUME IInv, NEW actor \in Actors, NEW id \in Markets, NEW user \in Users,
         NEW time \in Times, RemoveResolver(actor, id, user, time)
  PROVE  IInv' /\ MembersKept /\ Accounted
<1> DEFINE e == [type |-> "MarketResolverRemoved", id |-> id, user |-> user,
                 by |-> actor.user, at |-> time]
<1>1. PICK events \in DecideRemoveResolver(state, actor, id, user, time) :
        Commit(events, time) /\ UNCHANGED history
  BY DEF RemoveResolver
<1>2. events \in Finish(state, << >>) \/ events \in Finish(state, <<e>>)
  BY <1>1 DEF DecideRemoveResolver
<1>3. e.type = "MarketResolverRemoved" /\ e.user \in Users
  OBVIOUS
<1> HIDE DEF e
<1>4. Frame(ApplyDecision(state, events))
  BY <1>2, <1>3, NoEventsFrame, ResolverEventFrame
<1> QED
  BY <1>1, <1>4, CommitFrame

\* Every step of the guild keeps the invariant, grants up to date and conserves points.
LEMMA NextInv == ASSUME IInv, [Next]_vars PROVE IInv' /\ CaughtUp /\ Accounted
<1>1. CASE UNCHANGED vars
  <2>1. Accounted
    BY <1>1, NothingAccounted DEF vars
  <2> QED
    BY <1>1, <2>1 DEF vars, IInv, TypeOK, NothingBeforeJoining, GrantsMatchSchedule, Enrolled,
                      CaughtUp
<1>2. ASSUME NEW time \in Times, NEW user \in Users, Grant(user, time)
      PROVE  IInv' /\ CaughtUp /\ Accounted
  BY <1>2, GrantStep
<1>3. ASSUME NEW time \in Times, NEW actor \in Actors, NEW policy \in Policies,
             Join(actor, policy, time)
      PROVE  IInv' /\ CaughtUp /\ Accounted
  BY <1>3, JoinStep, KeptIsCaughtUp
<1>4. ASSUME NEW time \in Times, NEW actor \in Actors, NEW id \in Markets,
             \/ Cancel(actor, id, time)
             \/ \E options \in OptionCounts, closes_at \in Closings :
                    Create(actor, id, options, closes_at, time)
             \/ \E outcome \in Outcomes, amount \in Stakings :
                    Bet(actor, id, outcome, amount, time)
             \/ \E outcome \in Outcomes, membership \in Evidence :
                    Resolve(actor, id, outcome, membership, time)
             \/ \E user \in Users, membership \in Evidence :
                    AddResolver(actor, id, user, membership, time)
             \/ \E user \in Users : RemoveResolver(actor, id, user, time)
      PROVE  IInv' /\ CaughtUp /\ Accounted
  <2>1. IInv' /\ MembersKept /\ Accounted
    BY <1>4, CancelStep, CreateStep, BetStep, ResolveStep, AddResolverStep, RemoveResolverStep
  <2> QED
    BY <2>1, KeptIsCaughtUp
<1> QED
  BY <1>1, <1>2, <1>3, <1>4 DEF Next

-----------------------------------------------------------------------------
(* Theorems.                                                                 *)

\* The inductive invariant: decisions and transitions of domain.rs keep the state
\* typed, credit nobody before joining and follow the grant schedule.
THEOREM EconomyInvariant == Spec => []IInv
<1>1. IInv /\ [Next]_vars => IInv'
  BY NextInv
<1> QED
  BY InitInv, <1>1, PTL DEF Spec

\* apply_inner never leaves a balance, a pool, a due time or any other part of
\* the state outside its type, whatever is joined, granted, bet and settled.
THEOREM EconomyTypeOK == Spec => []TypeOK
<1>1. IInv => TypeOK
  BY DEF IInv
<1> QED
  BY EconomyInvariant, <1>1, PTL

\* Grants follow each member's schedule exactly: decide_join, decide_grant and
\* apply_grant skip no interval and pay none twice, for every policy, every
\* sequence of clock readings and restarts with another policy.
THEOREM GrantsFollowSchedule == Spec => []GrantsMatchSchedule
<1>1. IInv => GrantsMatchSchedule
  BY DEF IInv
<1> QED
  BY EconomyInvariant, <1>1, PTL

\* A grant covers every interval due by the time decide_grant read, and none
\* beyond it.
THEOREM GrantsAlwaysCatchUp == Spec => GrantsCatchUp
<1>1. IInv /\ [Next]_vars => [CaughtUp]_vars
  BY NextInv
<1>2. [][CaughtUp]_vars => GrantsCatchUp
  BY DEF CaughtUp, GrantsCatchUp
<1> QED
  BY EconomyInvariant, <1>1, <1>2, PTL DEF Spec

\* The books are in order from the start.
LEMMA InitLedger == Init => InOrder(state) /\ PointsConserved
<1> SUFFICES ASSUME Init PROVE InOrder(state) /\ PointsConserved
  OBVIOUS
<1>1. DOMAIN state.accounts = {} /\ DOMAIN state.markets = {}
  BY DEF Init, EmptyState, EmptyMap
<1>2. InOrder(state)
  BY <1>1, FS_EmptySet DEF InOrder
<1>3. Held(state) = 0 /\ Pooled(state) = 0
  <2>1. Enrolled = {} /\ OpenIn(state) = {}
    BY <1>1 DEF Enrolled, OpenIn
  <2> DEFINE f == [u \in {} |-> state.accounts[u].balance]
             p == [m \in {} |-> state.markets[m].total_staked]
  <2>2. Held(state) = SumFunction(f) /\ Pooled(state) = SumFunction(p)
    BY <1>1, <2>1 DEF Held, Pooled
  <2>3. SumFunction(f) = SumFunctionOnSet(f, {}) /\ SumFunction(p) = SumFunctionOnSet(p, {})
    BY SumOfMap
  <2> QED
    BY <2>2, <2>3, SumNone
<1>4. SumFunction(granted) = 0
  <2>1. granted = [u \in Users |-> granted[u]] /\ \A u \in Users : granted[u] \in Int /\ granted[u] = 0
    BY DEF Init
  <2>2. SumFunction(granted) = SumFunctionOnSet(granted, Users)
    BY <2>1, SumOfMap
  <2>3. SumFunctionOnSet(granted, Users) = SumFunctionOnSet(granted, {})
    BY <2>1, UsersAssumption, SumSupport
  <2> QED
    BY <2>2, <2>3, SumNone
<1> QED
  BY <1>2, <1>3, <1>4, Conserved

\* The ledger: the stakes recorded in every market add up to its pool, and what
\* members hold and open markets pool is what was ever granted.
THEOREM LedgerInvariant == Spec => [](InOrder(state) /\ PointsConserved)
<1> DEFINE L == InOrder(state) /\ PointsConserved
<1>1. Init => IInv /\ L
  BY InitInv, InitLedger
<1>2. IInv /\ L /\ [Next]_vars => IInv' /\ L'
  BY NextInv DEF Accounted
<1> QED
  BY <1>1, <1>2, PTL DEF Spec

\* Betting, settling, refunding and cancelling neither create nor destroy a point,
\* however winnings are divided (decide and apply_inner of domain.rs).
THEOREM PointsAreConserved == Spec => []PointsConserved
  BY LedgerInvariant, PTL

-----------------------------------------------------------------------------
(* Payouts and settlements.                                                *)

\* Moving W from one side of a difference of at most W to the other brings no gain.
LEMMA Exchange ==
  ASSUME NEW p \in Int, NEW q \in Int, NEW W \in Nat, p - q <= W
  PROVE  p * p + q * q <= (p - W) * (p - W) + (q + W) * (q + W)
<1> DEFINE d == W - p + q
<1>1. d \in Nat
  OBVIOUS
<1>2. W * d \in Nat
  <2> HIDE DEF d
  <2> QED
    BY <1>1
<1>3. (p - W) * (p - W) + (q + W) * (q + W) = p * p + q * q + 2 * (W * d)
  OBVIOUS
<1> HIDE DEF d
<1>4. p * p + q * q \in Int
  OBVIOUS
<1> QED
  BY <1>2, <1>3, <1>4

\* Moving a point between two winners comes no closer to the exact shares.
LEMMA DividedFairest ==
  ASSUME NEW market, NEW w, Winning(market.total_staked, w),
         NEW u \in Recipients(w), NEW v \in Recipients(w), u # v
  PROVE  LET paid == Divided(market.total_staked, w)
         IN  Deviation(market, w, paid)
                <= Deviation(market, w, [paid EXCEPT ![u] = @ - 1, ![v] = @ + 1])
<1> DEFINE T == market.total_staked
           W == SumFunction(w)
           paid == Divided(T, w)
           moved == [paid EXCEPT ![u] = @ - 1, ![v] = @ + 1]
           miss(x) == paid[x] * W - T * w[x]
           mist(x) == moved[x] * W - T * w[x]
           sq == [x \in Users |-> miss(x) * miss(x)]
           st == [x \in Users |-> mist(x) * mist(x)]
           E == Extra(T, w)
           e(x) == IF x \in E THEN 1 ELSE 0
           b(x) == Floors(T, w)[x]
           f(x) == Fractions(T, w)[x]
<1>1. /\ Deviation(market, w, paid) = SumFunctionOnSet(sq, Users)
      /\ Deviation(market, w, moved) = SumFunctionOnSet(st, Users)
  <2>1. Deviation(market, w, paid) = SumFunction(sq) /\ Deviation(market, w, moved) = SumFunction(st)
    BY DEF Deviation
  <2> QED
    BY <2>1, SumOfMap
<1>2. u \in Users /\ v \in Users
  BY DEF Recipients
<1>3. T \in Nat /\ W \in Nat \ {0} /\ \A x \in Users : w[x] \in Nat
  BY DEF Winning
<1>4. paid \in [Users -> Nat]
  BY DividedInFull
<1>5. \A x \in Users : /\ b(x) \in Nat /\ f(x) \in Nat /\ f(x) < W
                       /\ T * w[x] = W * b(x) + f(x)
                       /\ paid[x] = b(x) + e(x) /\ e(x) \in {0, 1}
  BY FloorShares DEF Divided
<1>6. e(u) = 1 /\ e(v) = 0 => f(v) <= f(u)
  <2> SUFFICES ASSUME e(u) = 1, e(v) = 0 PROVE f(v) <= f(u)
    OBVIOUS
  <2>1. u \in E /\ v \in Recipients(w) \ E
    OBVIOUS
  <2> QED
    BY <2>1, ExtraLargest
<1>7. /\ \A x \in Users \ {u, v} : moved[x] = paid[x]
      /\ moved[u] = paid[u] - 1 /\ moved[v] = paid[v] + 1
      /\ \A x \in Users : moved[x] \in Int
  BY <1>2, <1>4
<1> HIDE DEF W, paid, moved, E, e, b, f
<1>8. ASSUME NEW x \in Users
      PROVE  miss(x) \in Int /\ mist(x) \in Int /\ miss(x) = e(x) * W - f(x)
  <2>1. paid[x] * W = W * b(x) + e(x) * W
    BY <1>3, <1>5
  <2>2. paid[x] * W \in Int /\ moved[x] * W \in Int /\ T * w[x] \in Int /\ W * b(x) \in Int
        /\ e(x) * W \in Int
    BY <1>3, <1>4, <1>5, <1>7
  <2> QED
    BY <1>5, <2>1, <2>2
<1>9. mist(u) = miss(u) - W /\ mist(v) = miss(v) + W
  <2>1. (paid[u] - 1) * W = paid[u] * W - W /\ (paid[v] + 1) * W = paid[v] * W + W
    BY <1>2, <1>3, <1>4
  <2>2. /\ paid[u] * W \in Int /\ paid[v] * W \in Int
        /\ T * w[u] \in Int /\ T * w[v] \in Int
    BY <1>2, <1>3, <1>4
  <2> QED
    BY <1>3, <1>7, <2>1, <2>2
<1>10. \A x \in Users \ {u, v} : mist(x) = miss(x)
  BY <1>7
<1>11. miss(u) - miss(v) <= W
  <2>1. CASE e(u) = 1 /\ e(v) = 0
    BY <1>2, <1>3, <1>5, <1>6, <1>8, <2>1
  <2>2. CASE e(u) = e(v)
    <3>1. e(u) * W = e(v) * W /\ e(u) * W \in Int
      BY <1>2, <1>3, <1>5, <2>2
    <3> QED
      BY <1>2, <1>3, <1>5, <1>8, <3>1
  <2>3. CASE e(u) = 0 /\ e(v) = 1
    BY <1>2, <1>3, <1>5, <1>8, <2>3
  <2> QED
    BY <1>2, <1>5, <2>1, <2>2, <2>3
<1> DEFINE p == miss(u)
           q == miss(v)
<1>12. p \in Int /\ q \in Int /\ p - q <= W /\ W \in Nat /\ mist(u) = p - W /\ mist(v) = q + W
  BY <1>2, <1>3, <1>8, <1>9, <1>11
<1>13. /\ sq[u] = p * p /\ sq[v] = q * q
       /\ st[u] = (p - W) * (p - W) /\ st[v] = (q + W) * (q + W)
  BY <1>2, <1>12
<1>14. \A x \in Users : sq[x] \in Int /\ st[x] \in Int
  BY <1>8
<1>15. \A x \in Users \ {u, v} : st[x] = sq[x]
  BY <1>10
<1> HIDE DEF p, q, sq, st, miss, mist
<1>16. sq[u] + sq[v] <= st[u] + st[v]
  BY <1>12, <1>13, Exchange
<1> DEFINE half == [x \in Users |-> IF x = u THEN st[u] ELSE sq[x]]
<1>17. /\ \A x \in Users : half[x] \in Int
       /\ \A x \in Users \ {u} : half[x] = sq[x]
       /\ \A x \in Users \ {v} : st[x] = half[x]
       /\ half[u] = st[u] /\ half[v] = sq[v]
  BY <1>2, <1>14, <1>15
<1> HIDE DEF half
<1>18. IsFiniteSet(Users)
  BY UsersAssumption
<1>19. SumFunctionOnSet(half, Users) = SumFunctionOnSet(sq, Users) + half[u] - sq[u]
  <2>1. \A x \in Users : sq[x] \in Int /\ half[x] \in Int
    BY <1>14, <1>17
  <2>2. \A x \in Users \ {u} : half[x] = sq[x]
    BY <1>17
  <2> QED
    BY <1>2, <2>1, <2>2, <1>18, SumChange
<1>20. SumFunctionOnSet(st, Users) = SumFunctionOnSet(half, Users) + st[v] - half[v]
  <2>1. \A x \in Users : half[x] \in Int /\ st[x] \in Int
    BY <1>14, <1>17
  <2>2. \A x \in Users \ {v} : st[x] = half[x]
    BY <1>17
  <2> QED
    BY <1>2, <2>1, <2>2, <1>18, SumChange
<1>21. SumFunctionOnSet(sq, Users) \in Int
  BY <1>14, UsersAssumption, SumRemove
<1>22. SumFunctionOnSet(sq, Users) <= SumFunctionOnSet(st, Users)
  BY <1>2, <1>14, <1>16, <1>17, <1>19, <1>20, <1>21
<1> QED
  BY <1>1, <1>22 DEF paid, moved

\* What the division of a pool promises follows from the books alone.
LEMMA FairFromBooks ==
  ASSUME IsState(state), InOrder(state)
  PROVE  PayoutsAreFairest
<1> SUFFICES ASSUME NEW m \in OpenMarkets, NEW o \in Outcomes, ~NoWinners(state.markets[m], o)
             PROVE  LET market == state.markets[m]
                        winners == Stakes(market, {o})
                        paid == Payouts(market, o)
                        moved(u, v) == [paid EXCEPT ![u] = @ - 1, ![v] = @ + 1]
                    IN  /\ SumFunction(paid) = market.total_staked
                        /\ Recipients(paid) = Recipients(winners)
                        /\ \A u \in Recipients(winners), v \in Recipients(winners) :
                                /\ winners[u] > winners[v] => paid[u] >= paid[v]
                                /\ u # v => Deviation(market, winners, paid)
                                                <= Deviation(market, winners, moved(u, v))
  BY DEF PayoutsAreFairest
<1> DEFINE market == state.markets[m]
           w == Stakes(market, {o})
           paid == Payouts(market, o)
           T == market.total_staked
<1>1. market \in Market /\ Tallied(market, DOMAIN state.accounts)
  BY MarketFacts DEF InOrder, OpenMarkets
<1>2. Winning(T, w)
  BY <1>1, WinnersTallied
<1>3. paid = Divided(T, w)
  BY <1>2, PayoutsDivide DEF Payouts
<1>4. SumFunction(paid) = T /\ Recipients(paid) = Recipients(w)
  BY <1>2, <1>3, DividedInFull
<1> HIDE DEF market, w, paid
<1>5. ASSUME NEW u \in Recipients(w), NEW v \in Recipients(w), w[u] > w[v]
      PROVE  paid[u] >= paid[v]
  BY <1>2, <1>3, <1>5, DividedMonotone
<1>6. ASSUME NEW u \in Recipients(w), NEW v \in Recipients(w), u # v
      PROVE  Deviation(market, w, paid)
                <= Deviation(market, w, [paid EXCEPT ![u] = @ - 1, ![v] = @ + 1])
  BY <1>2, <1>3, <1>6, DividedFairest
<1> QED
  BY <1>4, <1>5, <1>6 DEF market, w, paid

\* Markets of an orderly state can be settled while all points fit an i64.
LEMMA SettlesFromBooks ==
  ASSUME IInv, InOrder(state), PointsConserved
  PROVE  OpenMarketsSettle
<1> SUFFICES ASSUME SumFunction(granted) <= I64Max, NEW m \in OpenMarkets
             PROVE  LET market == state.markets[m]
                        moderator == [user |-> market.creator, moderator |-> TRUE, bot |-> FALSE]
                        unavailable ==
                            [kind |-> "Unavailable", user |-> market.creator, bot |-> FALSE]
                    IN  /\ DecideCancel(state, moderator, m, market.created_at) # {}
                        /\ \A o \in {x \in Outcomes : x < market.options} :
                                DecideResolve(state, moderator, m, o, market.closes_at,
                                              unavailable) # {}
  BY DEF OpenMarketsSettle
<1> DEFINE market == state.markets[m]
           moderator == [user |-> market.creator, moderator |-> TRUE, bot |-> FALSE]
           unavailable == [kind |-> "Unavailable", user |-> market.creator, bot |-> FALSE]
<1>1. /\ IsState(state) /\ m \in OpenIn(state) /\ m \in DOMAIN state.markets
      /\ market \in Market /\ market.status = "Open"
      /\ Tallied(market, DOMAIN state.accounts)
  BY MarketFacts, InvTypes DEF OpenMarkets, OpenIn, InOrder
<1>2. Held(state) + Pooled(state) <= I64Max
  BY Conserved
<1>3. Creditable(state.accounts, AllStakes(market))
  BY <1>1, <1>2, StakesCreditable
<1>4. market.creator # System /\ Human(moderator) /\ moderator.moderator
      /\ moderator.user = market.creator
  BY <1>1, UsersAssumption DEF Market, System, Human
<1> HIDE DEF moderator, unavailable
<1>5. DecideCancel(state, moderator, m, market.created_at) # {}
  <2> DEFINE e == [type |-> "MarketCancelled", id |-> m, moderator |-> moderator.user,
                   cancelled_at |-> market.created_at, refunds |-> AllStakes(market)]
  <2>1. /\ e.type = "MarketCancelled" /\ e.id = m /\ e.moderator = moderator.user
        /\ e.refunds = AllStakes(market)
    OBVIOUS
  <2>2. DecideCancel(state, moderator, m, market.created_at) = Finish(state, <<e>>)
    BY <1>1, <1>4 DEF DecideCancel
  <2> HIDE DEF e
  <2>3. CanCancel(state, e)
    BY <1>1, <1>3, <1>4, <2>1 DEF CanCancel
  <2>4. Applicable(state, e)
    BY <2>1, <2>3 DEF Applicable
  <2>5. IsState(Effect(state, e))
    BY <1>1, <2>1, <2>4, CancellationTyped
  <2> QED
    BY <1>1, <2>2, <2>4, <2>5, FinishAccepts
<1>6. ASSUME NEW o \in Outcomes, o < market.options
      PROVE  DecideResolve(state, moderator, m, o, market.closes_at, unavailable) # {}
  <2> DEFINE paid == Payouts(market, o)
             none == NoWinners(market, o)
             w == Stakes(market, {o})
             e == [type |-> "MarketResolved", id |-> m, outcome |-> o,
                   resolver |-> moderator.user, settled_at |-> market.closes_at,
                   payouts |-> paid, refunded |-> none]
  <2>1. /\ e.type = "MarketResolved" /\ e.id = m /\ e.outcome = o
        /\ e.resolver = moderator.user /\ e.settled_at = market.closes_at
        /\ e.payouts = paid /\ e.refunded = none
    OBVIOUS
  <2>2. market.closes_at \in Nat
    BY <1>1, I64MaxAssumption DEF Market, Time
  <2>3. DecideResolve(state, moderator, m, o, market.closes_at, unavailable)
            = Finish(state, <<e>>)
    BY <1>1, <1>4, <1>6, <2>2 DEF DecideResolve, MayResolve, ReadyToResolve
  <2>4. none = (Recipients(w) = {}) /\ none \in BOOLEAN
    BY DEF NoWinners
  <2> HIDE DEF e
  <2>5. /\ Creditable(state.accounts, paid)
        /\ IF none THEN Recipients(w) = {} /\ paid = AllStakes(market)
           ELSE /\ Recipients(w) # {}
                /\ Cardinality(Recipients(paid)) = Cardinality(Recipients(w))
                /\ \A u \in Recipients(w) : paid[u] >= w[u]
                /\ SumFunction(paid) = market.total_staked
    <3>1. CASE none
      BY <1>3, <2>4, <3>1 DEF Payouts
    <3>2. CASE ~none
      <4>1. /\ Winning(market.total_staked, w)
            /\ \A u \in Users \ DOMAIN state.accounts : w[u] = 0
        BY <1>1, <3>2, WinnersTallied
      <4>2. paid = Divided(market.total_staked, w)
        BY <3>2, <4>1, PayoutsDivide DEF Payouts
      <4>3. /\ paid \in [Users -> Nat] /\ SumFunction(paid) = market.total_staked
            /\ Recipients(paid) = Recipients(w)
            /\ \A u \in Users : paid[u] >= w[u] /\ paid[u] <= market.total_staked
            /\ \A u \in Users : w[u] = 0 => paid[u] = 0
        <5> HIDE DEF paid, w
        <5> QED
          BY <4>1, <4>2, DividedInFull
      <4>4. \A u \in Recipients(w) : paid[u] >= w[u]
        BY <4>3 DEF Recipients
      <4> HIDE DEF paid, w, none
      <4>5. Creditable(state.accounts, paid)
        BY <1>1, <1>2, <4>1, <4>3, PoolCreditable
      <4> QED
        BY <2>4, <3>2, <4>3, <4>4, <4>5
    <3> QED
      BY <2>4, <3>1, <3>2
  <2> HIDE DEF paid, none
  <2>6. CanResolve(state, e)
    BY <1>1, <1>4, <1>6, <2>1, <2>2, <2>5 DEF CanResolve
  <2>7. Applicable(state, e)
    BY <2>1, <2>6 DEF Applicable
  <2>8. IsState(Effect(state, e))
    BY <1>1, <2>1, <2>4, <2>7, ResolutionTyped
  <2> QED
    BY <1>1, <2>3, <2>7, <2>8, FinishAccepts
<1> QED
  BY <1>5, <1>6 DEF moderator, unavailable

\* The winners of every outcome of an open market would be paid its whole pool,
\* as close to their exact shares as whole points allow (payouts of domain.rs), for
\* any number of members and any stakes.
THEOREM PayoutsAlwaysFairest == Spec => []PayoutsAreFairest
<1>1. IInv /\ InOrder(state) => PayoutsAreFairest
  BY FairFromBooks, InvTypes
<1> QED
  BY EconomyInvariant, LedgerInvariant, <1>1, PTL

\* As long as all granted points together fit an i64, a moderator can cancel any
\* open market, and resolve it to any of its outcomes once it is closed.
THEOREM MarketsAlwaysSettle == Spec => []OpenMarketsSettle
<1>1. IInv /\ InOrder(state) /\ PointsConserved => OpenMarketsSettle
  BY SettlesFromBooks
<1> QED
  BY EconomyInvariant, LedgerInvariant, <1>1, PTL
=============================================================================
