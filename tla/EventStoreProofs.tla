-------------------------- MODULE EventStoreProofs --------------------------
(***************************************************************************)
(* The event store of one guild, for any tasks, requests, clock readings   *)
(* and any number of faults and crashes.                                   *)
(*                                                                         *)
(* The writes of a transaction that has decided fit the end of the history *)
(* (Fits) because the guild's lock is held from the replay to the COMMIT,  *)
(* also by a session whose client is gone; so every COMMIT extends a       *)
(* history that loads to one that loads.  A success is reported only after *)
(* a receipt was found or written, with a view at least as new.            *)
(*                                                                         *)
(* The store implements Economy: guild, the state Economy would be in, is  *)
(* the projection of the rows (Projected), and the writes of a transaction *)
(* that has decided, or was left to the server, are a command Economy has  *)
(* against that state (Decided), because nobody else commits meanwhile.    *)
(***************************************************************************)
EXTENDS EventStore, DomainProofs, SequenceTheorems

-----------------------------------------------------------------------------
(* The inductive invariant.                                                *)

\* A sequence of anything.
IsSeq(s) == s \in Seq({s[i] : i \in DOMAIN s})

IsTask(x) ==
    x \in [pc : {x.pc}, request : {x.request}, evidence : {x.evidence},
           attempt : {x.attempt}, view : {x.view}, writes : {x.writes}]

\* What a worker executes: a member's request, or a grant of its own.
Known(request) ==
    request \in Requests \/ (request.actor = SystemActor /\ request.command.op = "Grant")

EnvironmentTyped == clock \in Times /\ defaults \in Policies

\* The advisory lock excludes: a transaction past lock_guild is its holder.
LockExcludes ==
    /\ lock \in Workers \cup {NoTask, Orphan}
    /\ \A t \in Workers : task[t].pc \in {"locked", "commit"} => lock = t

\* What connect and load require of the rows, and that receipts stay within them.
HistoryLoads ==
    /\ IsSeq(events)
    /\ Contiguous /\ ReceiptsAgree /\ CommandsWhole /\ EnrollmentsWhole
    /\ IsState(Replay(History))
    /\ \A k \in DOMAIN commands : commands[k].last_revision \in 0 .. LastRevision

\* An enrollment and its initial grant come together.
Enrolls(rows) ==
    \A i \in DOMAIN rows :
        /\ rows[i].event.type = "MemberEnrolled" =>
            /\ i < Len(rows)
            /\ IsInitialGrant(rows[i + 1].event)
            /\ rows[i + 1].event.user = rows[i].event.user
        /\ IsInitialGrant(rows[i].event) =>
            i > 1 /\ rows[i - 1].event.type = "MemberEnrolled"

EventsOf(rows) == [i \in DOMAIN rows |-> rows[i].event]

\* The writes of command k by member a fit the end of a history and its receipts.
Fits(writes, k, a, rows, receipts) ==
    /\ k \notin DOMAIN receipts
    /\ DOMAIN writes.receipts = {k}
    /\ writes.receipts[k].actor = a
    /\ writes.receipts[k].last_revision = Len(rows) + Len(writes.rows)
    /\ IsSeq(writes.rows) /\ Len(writes.rows) \in 0 .. 3
    /\ \A i \in DOMAIN writes.rows :
        /\ writes.rows[i].revision = Len(rows) + i
        /\ writes.rows[i].key = k
        /\ writes.rows[i].accepted_at = writes.receipts[k].accepted_at
        /\ EventTime(writes.rows[i].event, writes.receipts[k].accepted_at)
        /\ EventActor(writes.rows[i].event, a)
    /\ Enrolls(writes.rows)
    /\ IsState(ApplyDecision(Replay(EventsOf(rows)), EventsOf(writes.rows)))

\* A transaction that has decided: its writes fit, and its view is theirs.
CommitFits(x, rows, receipts) ==
    x.pc = "commit" =>
        /\ Fits(x.writes, x.request.key, x.request.actor.user, rows, receipts)
        /\ x.request.command.op # "Announce" =>
            /\ x.writes.view.revision = Len(rows) + Len(x.writes.rows)
            /\ x.writes.view.state =
                    ApplyDecision(Replay(EventsOf(rows)), EventsOf(x.writes.rows))

\* A view is the projection of a committed prefix.
PrefixView(view, rows) ==
    /\ view.revision \in 0 .. Len(rows)
    /\ view.state = Replay(SubSeq(EventsOf(rows), 1, view.revision))

ViewCommitted(x, rows) == x.pc \in {"scan", "publish"} => PrefixView(x.view, rows)

\* A worker about to report success for a member has found or written the receipt.
ReceiptFound(x, receipts) ==
    /\ x.pc \in {"refresh", "publish", "reply"} /\ x.request \in Requests =>
        /\ x.request.key \in DOMAIN receipts
        /\ receipts[x.request.key].actor = x.request.actor.user
        /\ x.pc = "publish" => x.view.revision >= receipts[x.request.key].last_revision
    /\ x.pc = "reply" => x.request \in Requests /\ x.request.command.op = "Announce"

\* What is known of a worker.
Sound(x, rows, receipts) ==
    /\ IsTask(x)
    /\ x.pc \notin {"idle", "scan"} => Known(x.request)
    /\ CommitFits(x, rows, receipts)
    /\ ViewCommitted(x, rows)
    /\ ReceiptFound(x, receipts)

TasksSound ==
    /\ task = [t \in Workers |-> task[t]]
    /\ \A t \in Workers : Sound(task[t], events, commands)

\* The writes left to the server fit as well.
Abandoned(writes, rows, receipts) ==
    \E k \in DOMAIN writes.receipts :
        Fits(writes, k, writes.receipts[k].actor, rows, receipts)

OrphanFits == lock = Orphan => Abandoned(orphan, events, commands)

\* The first part of ReadYourWrites.
Acknowledged ==
    \A request \in Requests :
        <<request.key, request.actor.user>> \in acked =>
            /\ request.key \in DOMAIN commands
            /\ commands[request.key].actor = request.actor.user
            /\ request.command.op # "Announce" =>
                cache.revision >= commands[request.key].last_revision

IInv ==
    /\ TasksSound /\ EnvironmentTyped /\ LockExcludes /\ HistoryLoads /\ OrphanFits
    /\ PrefixView(cache, events) /\ Acknowledged

-----------------------------------------------------------------------------
(* Sequences of any elements.                                              *)

\* A function on 1 .. n is a sequence.
LEMMA SeqIntro ==
  ASSUME NEW s, NEW n \in Nat, s = [i \in 1 .. n |-> s[i]]
  PROVE  IsSeq(s) /\ Len(s) = n /\ DOMAIN s = 1 .. n
<1> DEFINE S == {s[i] : i \in DOMAIN s}
<1>1. DOMAIN s = 1 .. n
  OBVIOUS
<1>2. \A i \in 1 .. n : s[i] \in S
  BY <1>1
<1>3. s \in [1 .. n -> S]
  BY <1>2
<1>4. s \in Seq(S)
  BY <1>3
<1>5. Len(s) = n
  BY <1>1, <1>4
<1> QED
  BY <1>1, <1>4, <1>5 DEF IsSeq

\* What is known of a sequence.
LEMMA SeqFacts ==
  ASSUME NEW s, IsSeq(s)
  PROVE  Len(s) \in Nat /\ DOMAIN s = 1 .. Len(s)
  BY DEF IsSeq

\* The empty sequence and short tuples.
LEMMA SeqTuples ==
  /\ IsSeq(<< >>) /\ Len(<< >>) = 0 /\ DOMAIN << >> = {}
  /\ \A e : IsSeq(<<e>>) /\ Len(<<e>>) = 1 /\ DOMAIN <<e>> = 1 .. 1
  /\ \A e, f : IsSeq(<<e, f>>) /\ Len(<<e, f>>) = 2 /\ DOMAIN <<e, f>> = 1 .. 2
  /\ \A e, f, g : IsSeq(<<e, f, g>>) /\ Len(<<e, f, g>>) = 3 /\ DOMAIN <<e, f, g>> = 1 .. 3
  BY DEF IsSeq

\* Rows inserted after a history.
LEMMA SeqConcat ==
  ASSUME NEW s, NEW r, IsSeq(s), IsSeq(r)
  PROVE  /\ IsSeq(s \o r)
         /\ Len(s \o r) = Len(s) + Len(r)
         /\ DOMAIN (s \o r) = 1 .. Len(s) + Len(r)
         /\ \A i \in 1 .. Len(s) : (s \o r)[i] = s[i]
         /\ \A i \in 1 .. Len(r) : (s \o r)[Len(s) + i] = r[i]
<1> DEFINE S == {s[i] : i \in DOMAIN s} \cup {r[i] : i \in DOMAIN r}
           c == s \o r
<1>1. s \in Seq(S) /\ r \in Seq(S)
  BY DEF IsSeq
<1>2. /\ c \in Seq(S) /\ Len(c) = Len(s) + Len(r)
      /\ \A i \in 1 .. Len(s) : c[i] = s[i]
      /\ \A i \in 1 .. Len(r) : c[Len(s) + i] = r[i]
  BY <1>1
<1>3. DOMAIN c = 1 .. Len(c) /\ Len(c) \in Nat /\ c = [i \in 1 .. Len(c) |-> c[i]]
  <2> HIDE DEF c
  <2> QED
    BY <1>2
<1>4. IsSeq(c)
  <2> HIDE DEF c
  <2> QED
    BY <1>3, SeqIntro
<1> QED
  BY <1>2, <1>3, <1>4

-----------------------------------------------------------------------------
(* Decisions: what decide_with_membership returns passes load's checks.    *)

\* A decision of member a at a time.
Acceptable(s, d, a, time) ==
    /\ IsSeq(d) /\ Len(d) \in 0 .. 3
    /\ \A i \in DOMAIN d : EventTime(d[i], time) /\ EventActor(d[i], a)
    /\ \A i \in DOMAIN d :
        /\ d[i].type = "MemberEnrolled" =>
            i < Len(d) /\ IsInitialGrant(d[i + 1]) /\ d[i + 1].user = d[i].user
        /\ IsInitialGrant(d[i]) => i > 1 /\ d[i - 1].type = "MemberEnrolled"
    /\ IsState(ApplyDecision(s, d))

\* A decision that records nothing.
LEMMA AcceptNone ==
  ASSUME NEW s, IsState(s), NEW d \in Finish(s, << >>), NEW a, NEW time
  PROVE  Acceptable(s, d, a, time)
  BY FinishNone, SeqTuples DEF Acceptable

\* A decision of one event that is not part of an enrollment.
LEMMA AcceptOne ==
  ASSUME NEW s, NEW e, NEW d \in Finish(s, <<e>>), NEW a, NEW time,
         EventTime(e, time), EventActor(e, a),
         e.type # "MemberEnrolled", ~IsInitialGrant(e),
         Applicable(s, e) => IsState(Effect(s, e))
  PROVE  Acceptable(s, d, a, time)
<1>1. d = <<e>> /\ IsState(ApplyDecision(s, d))
  BY FinishOne
<1>2. DOMAIN d = 1 .. 1 /\ Len(d) = 1 /\ IsSeq(d) /\ d[1] = e
  BY <1>1, SeqTuples
<1>3. \A i \in DOMAIN d : i = 1 /\ d[i] = e
  BY <1>2
<1> QED
  BY <1>1, <1>2, <1>3 DEF Acceptable

\* decide_create
LEMMA AcceptCreate ==
  ASSUME NEW s, IsState(s), NEW actor \in Actor, NEW id \in Markets, NEW options \in Nat,
         NEW closes_at \in Time, NEW time \in Time,
         NEW d \in DecideCreate(s, actor, id, options, closes_at, time)
  PROVE  Acceptable(s, d, actor.user, time)
<1> DEFINE e == [type |-> "MarketCreated", id |-> id, creator |-> actor.user,
                 options |-> options, created_at |-> time, closes_at |-> closes_at]
<1>1. d \in Finish(s, <<e>>) /\ actor.user \in Users
  BY DEF DecideCreate, IsState, IsMap
<1>2. /\ e.type = "MarketCreated" /\ e.id \in Markets /\ e.creator \in Users
      /\ e.options \in Nat /\ e.created_at \in Time /\ e.closes_at \in Time
      /\ e.creator = actor.user /\ e.created_at = time
  BY <1>1
<1> HIDE DEF e
<1>3. EventTime(e, time) /\ EventActor(e, actor.user) /\ ~IsInitialGrant(e)
  BY <1>2 DEF EventTime, EventActor, IsInitialGrant
<1>4. Applicable(s, e) => IsState(Effect(s, e))
  BY <1>2, CreationTyped
<1> QED
  BY <1>1, <1>2, <1>3, <1>4, AcceptOne

\* decide_bet
LEMMA AcceptBet ==
  ASSUME NEW s, IsState(s), NEW actor \in Actor, NEW id, NEW outcome \in Outcomes,
         NEW amount \in Nat, NEW time, NEW d \in DecideBet(s, actor, id, outcome, amount, time)
  PROVE  Acceptable(s, d, actor.user, time)
<1> DEFINE e == [type |-> "BetPlaced", id |-> id, user |-> actor.user,
                 outcome |-> outcome, amount |-> amount, accepted_at |-> time]
<1>1. d \in Finish(s, <<e>>)
  BY DEF DecideBet
<1>2. /\ e.type = "BetPlaced" /\ e.outcome \in Outcomes /\ e.amount \in Int
      /\ e.user = actor.user /\ e.accepted_at = time
  OBVIOUS
<1> HIDE DEF e
<1>3. EventTime(e, time) /\ EventActor(e, actor.user) /\ ~IsInitialGrant(e)
  BY <1>2 DEF EventTime, EventActor, IsInitialGrant
<1>4. Applicable(s, e) => IsState(Effect(s, e))
  BY <1>2, BetTyped
<1> QED
  BY <1>1, <1>2, <1>3, <1>4, AcceptOne

\* decide_resolve
LEMMA AcceptResolve ==
  ASSUME NEW s, IsState(s), NEW actor \in Actor, NEW id, NEW outcome \in Outcomes,
         NEW membership, NEW time, NEW d \in DecideResolve(s, actor, id, outcome, time, membership)
  PROVE  Acceptable(s, d, actor.user, time)
<1> DEFINE e == [type |-> "MarketResolved", id |-> id, outcome |-> outcome,
                 resolver |-> actor.user, settled_at |-> time,
                 payouts |-> Payouts(s.markets[id], outcome),
                 refunded |-> NoWinners(s.markets[id], outcome)]
<1>1. d \in Finish(s, <<e>>)
  BY DEF DecideResolve
<1>2. /\ e.type = "MarketResolved" /\ e.outcome \in Outcomes /\ e.refunded \in BOOLEAN
      /\ e.resolver = actor.user /\ e.settled_at = time
  BY DEF NoWinners
<1> HIDE DEF e
<1>3. EventTime(e, time) /\ EventActor(e, actor.user) /\ ~IsInitialGrant(e)
  BY <1>2 DEF EventTime, EventActor, IsInitialGrant
<1>4. Applicable(s, e) => IsState(Effect(s, e))
  BY <1>2, ResolutionTyped
<1> QED
  BY <1>1, <1>2, <1>3, <1>4, AcceptOne

\* decide_cancel
LEMMA AcceptCancel ==
  ASSUME NEW s, IsState(s), NEW actor \in Actor, NEW id, NEW time,
         NEW d \in DecideCancel(s, actor, id, time)
  PROVE  Acceptable(s, d, actor.user, time)
<1> DEFINE e == [type |-> "MarketCancelled", id |-> id, moderator |-> actor.user,
                 cancelled_at |-> time, refunds |-> AllStakes(s.markets[id])]
<1>1. d \in Finish(s, <<e>>)
  BY DEF DecideCancel
<1>2. e.type = "MarketCancelled" /\ e.moderator = actor.user /\ e.cancelled_at = time
  OBVIOUS
<1> HIDE DEF e
<1>3. EventTime(e, time) /\ EventActor(e, actor.user) /\ ~IsInitialGrant(e)
  BY <1>2 DEF EventTime, EventActor, IsInitialGrant
<1>4. Applicable(s, e) => IsState(Effect(s, e))
  BY <1>2, CancellationTyped
<1> QED
  BY <1>1, <1>2, <1>3, <1>4, AcceptOne

\* An event that adds or removes a resolver.
LEMMA AcceptResolverEvent ==
  ASSUME NEW s, IsState(s), NEW e, NEW a, NEW time,
         e.type \in {"MarketResolverAdded", "MarketResolverRemoved"},
         e.user \in Users, e.by = a, e.at = time, NEW d \in Finish(s, <<e>>)
  PROVE  Acceptable(s, d, a, time)
<1>1. EventTime(e, time) /\ EventActor(e, a) /\ ~IsInitialGrant(e)
  BY DEF EventTime, EventActor, IsInitialGrant
<1>2. Applicable(s, e) => IsState(Effect(s, e))
  BY ResolverChangeTyped
<1> QED
  BY <1>1, <1>2, AcceptOne

\* decide_add_resolver and decide_remove_resolver
LEMMA AcceptResolverChange ==
  ASSUME NEW s, IsState(s), NEW actor \in Actor, NEW id, NEW user \in Users,
         NEW membership, NEW time,
         NEW d \in DecideAddResolver(s, actor, id, user, time, membership)
             \cup DecideRemoveResolver(s, actor, id, user, time)
  PROVE  Acceptable(s, d, actor.user, time)
<1> DEFINE e == [type |-> "MarketResolverAdded", id |-> id, user |-> user,
                 by |-> actor.user, at |-> time]
           f == [type |-> "MarketResolverRemoved", id |-> id, user |-> user,
                 by |-> actor.user, at |-> time]
<1>1. d \in Finish(s, << >>) \/ d \in Finish(s, <<e>>) \/ d \in Finish(s, <<f>>)
  BY DEF DecideAddResolver, DecideRemoveResolver
<1>2. /\ e.type = "MarketResolverAdded" /\ e.user \in Users
      /\ e.by = actor.user /\ e.at = time
      /\ f.type = "MarketResolverRemoved" /\ f.user \in Users
      /\ f.by = actor.user /\ f.at = time
  OBVIOUS
<1> HIDE DEF e, f
<1> QED
  BY <1>1, <1>2, AcceptNone, AcceptResolverEvent

\* decide_grant: the grant never runs ahead of the clock.
LEMMA AcceptGrant ==
  ASSUME NEW s, IsState(s), NEW actor, NEW user, NEW time \in Time,
         NEW d \in DecideGrant(s, actor, user, time)
  PROVE  Acceptable(s, d, actor.user, time)
<1> DEFINE account == s.accounts[user]
           interval == s.policy.interval
           e == DueGrant(s, user, time)
<1>1. /\ actor.user = System /\ s.policy # NoPolicy /\ user \in DOMAIN s.accounts
      /\ d \in Finish(s, << >>) \/ (d \in Finish(s, <<e>>) /\ ~(time < account.next_grant))
  BY DEF DecideGrant
<1>2. CASE d \in Finish(s, << >>)
  BY <1>2, AcceptNone
<1>3. CASE d \in Finish(s, <<e>>) /\ ~(time < account.next_grant)
  <2>1. /\ s.policy \in Policy /\ account \in Account
        /\ interval \in Nat \ {0} /\ s.policy.amount \in Nat
        /\ account.next_grant \in Nat /\ time \in Nat
        /\ time - account.next_grant \in Nat
    BY <1>1, <1>3, I64MaxAssumption DEF IsState, IsMap, Policy, Account, Time
  <2> DEFINE count == (time - account.next_grant) \div interval
  <2>2. count \in Nat /\ interval * count <= time - account.next_grant
    BY <2>1, DivisionBounds
  <2>3. /\ e.type = "PointsGranted" /\ e.reason = "Periodic"
        /\ e.through_due = account.next_grant + interval * ((count + 1) - 1)
        /\ e.amount = s.policy.amount * (count + 1)
    BY DEF DueGrant
  <2> HIDE DEF e, count
  <2>4. e.through_due \in Int /\ e.amount \in Int /\ e.through_due <= time
    <3>1. (count + 1) - 1 = count
      BY <2>2
    <3>2. interval * count \in Int /\ s.policy.amount * (count + 1) \in Int
      BY <2>1, <2>2
    <3> HIDE DEF interval, account
    <3> QED
      BY <2>1, <2>2, <2>3, <3>1, <3>2
  <2>5. EventTime(e, time) /\ EventActor(e, actor.user) /\ ~IsInitialGrant(e)
    BY <1>1, <2>3, <2>4 DEF EventTime, EventActor, IsInitialGrant
  <2>6. Applicable(s, e) => IsState(Effect(s, e))
    BY <2>3, <2>4, GrantTyped
  <2> QED
    BY <1>3, <2>3, <2>5, <2>6, AcceptOne
<1> QED
  BY <1>1, <1>2, <1>3

\* decide_join: the enrollment and its initial grant, after the guild's initialization
\* by its first member.
LEMMA AcceptJoin ==
  ASSUME NEW s, IsState(s), NEW actor \in Actor, NEW time \in Time, NEW defaults_ \in Policy,
         NEW d \in DecideJoin(s, actor, time, defaults_)
  PROVE  Acceptable(s, d, actor.user, time)
<1> DEFINE u == actor.user
           policy == IF s.policy = NoPolicy THEN defaults_ ELSE s.policy
           e == [type |-> "GuildEconomyInitialized", policy |-> policy]
           f == [type |-> "MemberEnrolled", user |-> u, enrolled_at |-> time]
           g == [type |-> "PointsGranted", user |-> u, reason |-> "Initial",
                 amount |-> policy.amount, from_due |-> time, through_due |-> time,
                 next_grant |-> time + policy.interval]
<1>1. u \in Users /\ u # System
  BY DEF DecideJoin, Human, Actor
<1>2. /\ e.type = "GuildEconomyInitialized" /\ e.policy = policy
      /\ f.type = "MemberEnrolled" /\ f.user = u /\ f.enrolled_at = time
      /\ g.type = "PointsGranted" /\ g.user = u /\ g.reason = "Initial" /\ g.through_due = time
  OBVIOUS
<1>3. time <= time
  BY I64MaxAssumption DEF Time
<1>4. \/ d \in Finish(s, << >>)
      \/ s.policy = NoPolicy /\ d \in Finish(s, <<e, f, g>>)
      \/ s.policy # NoPolicy /\ d \in Finish(s, <<f, g>>)
  BY DEF DecideJoin
<1>5. /\ f = [type |-> "MemberEnrolled", user |-> u, enrolled_at |-> time]
      /\ g = [type |-> "PointsGranted", user |-> u, reason |-> "Initial",
              amount |-> policy.amount, from_due |-> time, through_due |-> time,
              next_grant |-> time + policy.interval]
  OBVIOUS
<1> HIDE DEF e, f, g, u
<1>6. /\ EventTime(f, time) /\ EventActor(f, u) /\ ~IsInitialGrant(f)
      /\ EventTime(g, time) /\ EventActor(g, u) /\ IsInitialGrant(g)
      /\ EventTime(e, time) /\ EventActor(e, u) /\ ~IsInitialGrant(e)
  BY <1>1, <1>2, <1>3 DEF EventTime, EventActor, IsInitialGrant
<1>7. CASE d \in Finish(s, << >>)
  BY <1>7, AcceptNone DEF u
<1>8. CASE s.policy = NoPolicy /\ d \in Finish(s, <<e, f, g>>)
  <2> DEFINE r == Effect(s, e)
  <2>1. /\ d = <<e, f, g>> /\ Applicable(s, e) /\ Applicable(r, f)
        /\ Applicable(Effect(r, f), g)
        /\ ApplyDecision(s, d) = Effect(Effect(r, f), g)
    BY <1>8, FinishThree
  <2>2. IsState(r) /\ r = [s EXCEPT !.policy = policy]
    BY <1>2, <1>8, <2>1, InitializationTyped
  <2>3. r.policy = policy
    BY <2>2 DEF IsState
  <2> HIDE DEF r, policy
  <2>4. /\ f = [type |-> "MemberEnrolled", user |-> u, enrolled_at |-> time]
        /\ g = [type |-> "PointsGranted", user |-> u, reason |-> "Initial",
                amount |-> r.policy.amount, from_due |-> time, through_due |-> time,
                next_grant |-> time + r.policy.interval]
    BY <1>5, <2>3
  <2>5. IsState(ApplyDecision(s, d))
    <3>1. IsState(r) /\ Applicable(r, f) /\ Applicable(Effect(r, f), g)
      BY <2>1, <2>2
    <3>2. IsState(Effect(Effect(r, f), g))
      BY <1>1, <2>4, <3>1, EnrollAndGrant
    <3> QED
      BY <2>1, <3>2
  <2>6. IsSeq(d) /\ Len(d) = 3 /\ DOMAIN d = 1 .. 3 /\ d[1] = e /\ d[2] = f /\ d[3] = g
    BY <2>1, SeqTuples
  <2>7. \A i \in DOMAIN d : EventTime(d[i], time) /\ EventActor(d[i], u)
    BY <1>6, <2>6
  <2>8. ASSUME NEW i \in DOMAIN d
        PROVE  /\ d[i].type = "MemberEnrolled" =>
                    i < Len(d) /\ IsInitialGrant(d[i + 1]) /\ d[i + 1].user = d[i].user
               /\ IsInitialGrant(d[i]) => i > 1 /\ d[i - 1].type = "MemberEnrolled"
    <3>1. CASE i = 1
      BY <1>2, <1>6, <2>6, <3>1
    <3>2. CASE i = 2
      BY <1>2, <1>6, <2>6, <3>2
    <3>3. CASE i = 3
      BY <1>2, <1>6, <2>6, <3>3
    <3> QED
      BY <2>6, <3>1, <3>2, <3>3
  <2> QED
    BY <2>5, <2>6, <2>7, <2>8 DEF Acceptable, u
<1>9. CASE s.policy # NoPolicy /\ d \in Finish(s, <<f, g>>)
  <2>1. /\ d = <<f, g>> /\ Applicable(s, f) /\ Applicable(Effect(s, f), g)
        /\ ApplyDecision(s, d) = Effect(Effect(s, f), g)
    BY <1>9, FinishTwo
  <2>2. policy = s.policy
    BY <1>9
  <2>3. IsState(ApplyDecision(s, d))
    BY <1>1, <1>5, <2>1, <2>2, EnrollAndGrant
  <2>4. IsSeq(d) /\ Len(d) = 2 /\ DOMAIN d = 1 .. 2 /\ d[1] = f /\ d[2] = g
    BY <2>1, SeqTuples
  <2>5. \A i \in DOMAIN d : EventTime(d[i], time) /\ EventActor(d[i], u)
    BY <1>6, <2>4
  <2>6. ASSUME NEW i \in DOMAIN d
        PROVE  /\ d[i].type = "MemberEnrolled" =>
                    i < Len(d) /\ IsInitialGrant(d[i + 1]) /\ d[i + 1].user = d[i].user
               /\ IsInitialGrant(d[i]) => i > 1 /\ d[i - 1].type = "MemberEnrolled"
    <3>1. CASE i = 1
      BY <1>2, <1>6, <2>4, <3>1
    <3>2. CASE i = 2
      BY <1>2, <1>6, <2>4, <3>2
    <3> QED
      BY <2>4, <3>1, <3>2
  <2> QED
    BY <2>3, <2>4, <2>5, <2>6 DEF Acceptable, u
<1> QED
  BY <1>4, <1>7, <1>8, <1>9

\* The fields of the commands a member may send.
LEMMA CommandFields ==
  ASSUME NEW c \in Commands
  PROVE  \/ c.op \in {"Join", "Announce"}
         \/ c.op = "Create" /\ c.id \in Markets /\ c.options \in Nat /\ c.closes_at \in Time
         \/ c.op = "Bet" /\ c.outcome \in Outcomes /\ c.amount \in Nat
         \/ c.op = "Resolve" /\ c.outcome \in Outcomes
         \/ c.op \in {"AddResolver", "RemoveResolver"} /\ c.user \in Users
         \/ c.op = "Cancel"
  BY DEF Commands

\* Whatever decide_with_membership accepts, load accepts.
LEMMA DecisionsAcceptable ==
  ASSUME NEW s, IsState(s), NEW request, Known(request), request.command.op # "Announce",
         NEW time \in Time, NEW policy \in Policy, NEW membership,
         NEW d \in Decide(s, request.actor, request.command, time, policy, membership)
  PROVE  Acceptable(s, d, request.actor.user, time)
<1> DEFINE actor == request.actor
           c == request.command
<1>1. CASE request.actor = SystemActor /\ c.op = "Grant"
  <2>1. d \in DecideGrant(s, actor, c.user, time)
    BY <1>1 DEF Decide
  <2> QED
    BY <2>1, AcceptGrant
<1>2. CASE request \in Requests
  <2>1. actor \in Actor /\ c \in Commands
    BY <1>2, RequestsAssumption
  <2> HIDE DEF actor, c
  <2>2. d \in Decide(s, actor, c, time, policy, membership) /\ c.op # "Announce"
    BY DEF actor, c
  <2>3. CASE c.op = "Join"
    BY <2>1, <2>2, <2>3, AcceptJoin DEF Decide, actor
  <2>4. CASE c.op = "Create" /\ c.id \in Markets /\ c.options \in Nat /\ c.closes_at \in Time
    BY <2>1, <2>2, <2>4, AcceptCreate DEF Decide, actor
  <2>5. CASE c.op = "Bet" /\ c.outcome \in Outcomes /\ c.amount \in Nat
    BY <2>1, <2>2, <2>5, AcceptBet DEF Decide, actor
  <2>6. CASE c.op = "Resolve" /\ c.outcome \in Outcomes
    BY <2>1, <2>2, <2>6, AcceptResolve DEF Decide, actor
  <2>7. CASE c.op \in {"AddResolver", "RemoveResolver"} /\ c.user \in Users
    BY <2>1, <2>2, <2>7, AcceptResolverChange DEF Decide, actor
  <2>8. CASE c.op = "Cancel"
    BY <2>1, <2>2, <2>8, AcceptCancel DEF Decide, actor
  <2> QED
    BY <2>1, <2>2, <2>3, <2>4, <2>5, <2>6, <2>7, <2>8, CommandFields
<1> QED
  BY <1>1, <1>2 DEF Known

-----------------------------------------------------------------------------
(* A COMMIT extends a history that loads to one that loads.                *)

\* The events of some rows, in order.
LEMMA EventsOfRows ==
  ASSUME NEW rows, IsSeq(rows)
  PROVE  /\ IsSeq(EventsOf(rows)) /\ Len(EventsOf(rows)) = Len(rows)
         /\ \A i \in 1 .. Len(rows) : EventsOf(rows)[i] = rows[i].event
<1> DEFINE h == EventsOf(rows)
<1>1. Len(rows) \in Nat /\ DOMAIN rows = 1 .. Len(rows)
  BY SeqFacts
<1>2. DOMAIN h = 1 .. Len(rows) /\ \A i \in 1 .. Len(rows) : h[i] = rows[i].event
  BY <1>1 DEF EventsOf
<1>3. h = [i \in 1 .. Len(rows) |-> h[i]]
  BY <1>1 DEF EventsOf
<1> HIDE DEF h
<1>4. IsSeq(h) /\ Len(h) = Len(rows)
  BY <1>1, <1>3, SeqIntro
<1> QED
  BY <1>2, <1>4 DEF h

\* The first rows of a history.
LEMMA SubSeqFacts ==
  ASSUME NEW s, IsSeq(s), NEW r \in 0 .. Len(s)
  PROVE  Len(SubSeq(s, 1, r)) = r /\ \A i \in 1 .. r : SubSeq(s, 1, r)[i] = s[i]
<1> DEFINE S == {s[i] : i \in DOMAIN s}
<1>1. Len(s) \in Nat /\ DOMAIN s = 1 .. Len(s) /\ r \in Int
  BY SeqFacts
<1>2. \A i \in 1 .. r : s[i] \in S
  BY <1>1
<1> HIDE DEF S
<1>3. /\ Len(SubSeq(s, 1, r)) = IF 1 <= r THEN r - 1 + 1 ELSE 0
      /\ \A i \in 1 .. r - 1 + 1 : SubSeq(s, 1, r)[i] = s[1 + i - 1]
  BY <1>1, <1>2, SubSeqProperties
<1> QED
  BY <1>1, <1>3

\* A view of the first rows is not touched by rows appended later.
LEMMA PrefixKept ==
  ASSUME NEW rows, NEW more, IsSeq(rows), IsSeq(more), NEW r \in 0 .. Len(rows)
  PROVE  Replay(SubSeq(EventsOf(rows \o more), 1, r)) = Replay(SubSeq(EventsOf(rows), 1, r))
<1> DEFINE h == EventsOf(rows)
           g == EventsOf(rows \o more)
<1>1. Len(rows) \in Nat /\ Len(more) \in Nat
  BY SeqFacts
<1>2. /\ IsSeq(rows \o more) /\ Len(rows \o more) = Len(rows) + Len(more)
      /\ \A i \in 1 .. Len(rows) : (rows \o more)[i] = rows[i]
  BY SeqConcat
<1>3. /\ IsSeq(h) /\ Len(h) = Len(rows)
      /\ \A i \in 1 .. Len(rows) : h[i] = rows[i].event
  BY EventsOfRows
<1>4. /\ IsSeq(g) /\ Len(g) = Len(rows) + Len(more)
      /\ \A i \in 1 .. Len(rows) + Len(more) : g[i] = (rows \o more)[i].event
  BY <1>2, EventsOfRows
<1> HIDE DEF h, g
<1>5. r \in Nat /\ r \in 0 .. Len(h) /\ r \in 0 .. Len(g) /\ \A i \in 1 .. r : h[i] = g[i]
  BY <1>1, <1>2, <1>3, <1>4
<1>6. Len(SubSeq(h, 1, r)) = r /\ \A i \in 1 .. r : SubSeq(h, 1, r)[i] = h[i]
  BY <1>3, <1>5, SubSeqFacts
<1>7. Len(SubSeq(g, 1, r)) = r /\ \A i \in 1 .. r : SubSeq(g, 1, r)[i] = g[i]
  BY <1>4, <1>5, SubSeqFacts
<1>8. Replay(SubSeq(g, 1, r)) = Replay(SubSeq(h, 1, r))
  BY <1>5, <1>6, <1>7, ReplaySame
<1> QED
  BY <1>8 DEF h, g

\* A view of all rows is the replay of the history.
LEMMA WholePrefix ==
  ASSUME NEW rows, IsSeq(rows)
  PROVE  Replay(SubSeq(EventsOf(rows), 1, Len(rows))) = Replay(EventsOf(rows))
<1> DEFINE h == EventsOf(rows)
<1>1. IsSeq(h) /\ Len(h) = Len(rows) /\ Len(h) \in Nat
  BY EventsOfRows, SeqFacts
<1> HIDE DEF h
<1>2. Len(SubSeq(h, 1, Len(h))) = Len(h) /\ \A i \in 1 .. Len(h) : SubSeq(h, 1, Len(h))[i] = h[i]
  BY <1>1, SubSeqFacts
<1>3. Replay(SubSeq(h, 1, Len(h))) = Replay(h)
  BY <1>1, <1>2, ReplaySame
<1> QED
  BY <1>1, <1>3 DEF h

\* The view transact computed is the one load finds after the COMMIT.
LEMMA ReplayRows ==
  ASSUME NEW rows, NEW more, IsSeq(rows), IsSeq(more), Len(more) \in 0 .. 3
  PROVE  Replay(EventsOf(rows \o more)) = ApplyDecision(Replay(EventsOf(rows)), EventsOf(more))
<1> DEFINE h == EventsOf(rows)
           d == EventsOf(more)
           g == EventsOf(rows \o more)
<1>1. Len(rows) \in Nat /\ Len(more) \in Nat
  BY SeqFacts
<1>2. /\ IsSeq(rows \o more) /\ Len(rows \o more) = Len(rows) + Len(more)
      /\ \A i \in 1 .. Len(rows) : (rows \o more)[i] = rows[i]
      /\ \A i \in 1 .. Len(more) : (rows \o more)[Len(rows) + i] = more[i]
  BY SeqConcat
<1>3. /\ Len(h) = Len(rows) /\ \A i \in 1 .. Len(rows) : h[i] = rows[i].event
      /\ Len(d) = Len(more) /\ \A i \in 1 .. Len(more) : d[i] = more[i].event
  BY EventsOfRows
<1>4. /\ Len(g) = Len(rows) + Len(more)
      /\ \A i \in 1 .. Len(rows) + Len(more) : g[i] = (rows \o more)[i].event
  BY <1>2, EventsOfRows
<1> HIDE DEF h, d, g
<1>5. \A i \in 1 .. Len(h) : g[i] = h[i]
  BY <1>1, <1>2, <1>3, <1>4
<1>6. \A i \in 1 .. Len(d) : g[Len(h) + i] = d[i]
  <2> TAKE i \in 1 .. Len(d)
  <2>1. Len(rows) + i \in 1 .. Len(rows) + Len(more) /\ i \in 1 .. Len(more)
    BY <1>1, <1>3
  <2> QED
    BY <1>2, <1>3, <1>4, <2>1
<1>7. Replay(g) = ApplyDecision(Replay(h), d)
  BY <1>1, <1>3, <1>4, <1>5, <1>6, ReplayDecision
<1> QED
  BY <1>7 DEF h, d, g

\* Store: the rows of a command that fits are appended, and its receipt is new.
LEMMA StoreExtends ==
  ASSUME HistoryLoads, NEW w, NEW k, NEW a, Fits(w, k, a, events, commands), Store(w)
  PROVE  /\ HistoryLoads'
         /\ LastRevision' = LastRevision + Len(w.rows)
         /\ DOMAIN commands' = DOMAIN commands \cup {k}
         /\ \A x \in DOMAIN commands : commands'[x] = commands[x]
         /\ commands'[k] = w.receipts[k]
         /\ Replay(History') = ApplyDecision(Replay(History), EventsOf(w.rows))
         /\ \A r \in 0 .. LastRevision :
                Replay(SubSeq(History', 1, r)) = Replay(SubSeq(History, 1, r))
<1> DEFINE n == Len(events)
           m == Len(w.rows)
<1>1. /\ IsSeq(events) /\ IsSeq(w.rows) /\ m \in 0 .. 3 /\ n \in Nat /\ m \in Nat
      /\ DOMAIN events = 1 .. n /\ DOMAIN w.rows = 1 .. m
  BY SeqFacts DEF HistoryLoads, Fits
<1>2. events' = events \o w.rows
  BY DEF Store
<1>3. /\ IsSeq(events') /\ Len(events') = n + m /\ DOMAIN events' = 1 .. n + m
      /\ \A i \in 1 .. n : events'[i] = events[i]
      /\ \A i \in 1 .. m : events'[n + i] = w.rows[i]
  BY <1>1, <1>2, SeqConcat
<1>4. /\ DOMAIN commands' = DOMAIN commands \cup {k}
      /\ \A x \in DOMAIN commands : commands'[x] = commands[x]
      /\ commands'[k] = w.receipts[k] /\ k \notin DOMAIN commands
  BY DEF Store, Fits
<1>5. History = EventsOf(events) /\ History' = EventsOf(events')
  BY DEF History, EventsOf
<1>6. Replay(History') = ApplyDecision(Replay(History), EventsOf(w.rows))
  BY <1>1, <1>2, <1>5, ReplayRows
<1>7. \A r \in 0 .. LastRevision :
          Replay(SubSeq(History', 1, r)) = Replay(SubSeq(History, 1, r))
  BY <1>1, <1>2, <1>5, PrefixKept DEF LastRevision
<1>8. LastRevision' = LastRevision + m
  BY <1>3 DEF LastRevision
<1>9. \A i \in 1 .. n + m : i \in 1 .. n \/ \E j \in 1 .. m : i = n + j
  <2> TAKE i \in 1 .. n + m
  <2>1. i > n => i - n \in 1 .. m /\ i = n + (i - n)
    BY <1>1
  <2> QED
    BY <1>1, <2>1
<1>10. /\ w.receipts[k].last_revision = n + m /\ w.receipts[k].actor = a
       /\ \A i \in 1 .. m :
            /\ w.rows[i].revision = n + i
            /\ w.rows[i].key = k
            /\ w.rows[i].accepted_at = w.receipts[k].accepted_at
            /\ EventTime(w.rows[i].event, w.receipts[k].accepted_at)
            /\ EventActor(w.rows[i].event, a)
  BY <1>1 DEF Fits, LastRevision
<1> HIDE DEF n, m
<1>11. Contiguous'
  <2> SUFFICES ASSUME NEW i \in 1 .. n + m PROVE events'[i].revision = i
    BY <1>3 DEF Contiguous
  <2>1. CASE i \in 1 .. n
    BY <1>1, <1>3, <2>1 DEF HistoryLoads, Contiguous
  <2>2. ASSUME NEW j \in 1 .. m, i = n + j PROVE events'[i].revision = i
    BY <1>3, <1>10, <2>2
  <2> QED
    BY <1>9, <2>1, <2>2
<1>12. ReceiptsAgree'
  <2> DEFINE Agree(row, c) ==
                /\ row.key \in DOMAIN c
                /\ row.accepted_at = c[row.key].accepted_at
                /\ row.revision <= c[row.key].last_revision
                /\ EventTime(row.event, row.accepted_at)
                /\ EventActor(row.event, c[row.key].actor)
  <2> SUFFICES ASSUME NEW i \in 1 .. n + m PROVE Agree(events'[i], commands')
    BY <1>3 DEF ReceiptsAgree
  <2>1. CASE i \in 1 .. n
    <3>1. Agree(events[i], commands)
      BY <1>1, <2>1 DEF HistoryLoads, ReceiptsAgree
    <3> QED
      BY <1>3, <1>4, <2>1, <3>1
  <2>2. ASSUME NEW j \in 1 .. m, i = n + j PROVE Agree(events'[i], commands')
    <3>1. n + j <= n + m
      BY <1>1
    <3> QED
      BY <1>3, <1>4, <1>10, <2>2, <3>1
  <2> QED
    BY <1>9, <2>1, <2>2
<1>13. CommandsWhole'
  <2> SUFFICES ASSUME NEW i \in 1 .. n + m
               PROVE  LET end == commands'[events'[i].key].last_revision
                      IN  end <= n + m /\ \A j \in i .. end : events'[j].key = events'[i].key
    BY <1>3 DEF CommandsWhole, LastRevision
  <2>1. CASE i \in 1 .. n
    <3> DEFINE end == commands[events[i].key].last_revision
    <3>1. events[i].key \in DOMAIN commands /\ end \in 0 .. n
      BY <1>1, <2>1 DEF HistoryLoads, ReceiptsAgree, LastRevision, n
    <3>2. \A j \in i .. end : events[j].key = events[i].key
      BY <1>1, <2>1 DEF HistoryLoads, CommandsWhole
    <3>3. commands'[events'[i].key].last_revision = end /\ events'[i] = events[i]
      BY <1>3, <1>4, <2>1, <3>1
    <3> HIDE DEF end
    <3>4. end <= n + m /\ \A j \in i .. end : events'[j].key = events'[i].key
      <4>1. end <= n /\ end <= n + m
        BY <1>1, <3>1
      <4>2. \A j \in i .. end : j \in 1 .. n
        BY <1>1, <2>1, <3>1
      <4> QED
        BY <1>3, <3>2, <3>3, <4>1, <4>2
    <3> QED
      BY <3>3, <3>4
  <2>2. ASSUME NEW p \in 1 .. m, i = n + p
        PROVE  LET end == commands'[events'[i].key].last_revision
               IN  end <= n + m /\ \A j \in i .. end : events'[j].key = events'[i].key
    <3>1. events'[i].key = k /\ commands'[k].last_revision = n + m
      BY <1>3, <1>4, <1>10, <2>2
    <3>2. ASSUME NEW j \in i .. n + m PROVE events'[j].key = k
      <4>1. j - n \in 1 .. m /\ j = n + (j - n)
        BY <1>1, <2>2
      <4> QED
        BY <1>3, <1>10, <4>1
    <3> QED
      BY <1>1, <3>1, <3>2
  <2> QED
    BY <1>9, <2>1, <2>2
<1>14. EnrollmentsWhole'
  <2>1. ASSUME NEW i \in 1 .. n + m, events'[i].event.type = "MemberEnrolled"
        PROVE  /\ i < n + m
               /\ IsInitialGrant(events'[i + 1].event)
               /\ events'[i + 1].event.user = events'[i].event.user
               /\ events'[i + 1].key = events'[i].key
               /\ events'[i + 1].accepted_at = events'[i].accepted_at
    <3>1. CASE i \in 1 .. n
      <4>1. events'[i] = events[i] /\ i \in DOMAIN events
        BY <1>1, <1>3, <3>1
      <4>2. /\ i < n
            /\ IsInitialGrant(events[i + 1].event)
            /\ events[i + 1].event.user = events[i].event.user
            /\ events[i + 1].key = events[i].key
            /\ events[i + 1].accepted_at = events[i].accepted_at
        BY <2>1, <4>1 DEF HistoryLoads, EnrollmentsWhole, LastRevision, n
      <4>3. i + 1 \in 1 .. n /\ i < n + m
        BY <1>1, <3>1, <4>2
      <4> QED
        BY <1>3, <4>1, <4>2, <4>3
    <3>2. ASSUME NEW j \in 1 .. m, i = n + j
          PROVE  /\ i < n + m
                 /\ IsInitialGrant(events'[i + 1].event)
                 /\ events'[i + 1].event.user = events'[i].event.user
                 /\ events'[i + 1].key = events'[i].key
                 /\ events'[i + 1].accepted_at = events'[i].accepted_at
      <4>1. events'[i] = w.rows[j] /\ j \in DOMAIN w.rows
        BY <1>1, <1>3, <3>2
      <4>2. /\ j < m
            /\ IsInitialGrant(w.rows[j + 1].event)
            /\ w.rows[j + 1].event.user = w.rows[j].event.user
        BY <2>1, <4>1 DEF Fits, Enrolls, m
      <4>3. j + 1 \in 1 .. m /\ i < n + m /\ i + 1 = n + (j + 1)
        BY <1>1, <3>2, <4>2
      <4>4. events'[i + 1] = w.rows[j + 1]
        BY <1>3, <4>3
      <4> QED
        BY <1>10, <4>1, <4>2, <4>3, <4>4
    <3> QED
      BY <1>9, <3>1, <3>2
  <2>2. ASSUME NEW i \in 1 .. n + m, IsInitialGrant(events'[i].event)
        PROVE  i > 1 /\ events'[i - 1].event.type = "MemberEnrolled"
    <3>1. CASE i \in 1 .. n
      <4>1. events'[i] = events[i] /\ i \in DOMAIN events
        BY <1>1, <1>3, <3>1
      <4>2. i > 1 /\ events[i - 1].event.type = "MemberEnrolled"
        BY <2>2, <4>1 DEF HistoryLoads, EnrollmentsWhole
      <4>3. i - 1 \in 1 .. n
        BY <1>1, <3>1, <4>2
      <4> QED
        BY <1>3, <4>2, <4>3
    <3>2. ASSUME NEW j \in 1 .. m, i = n + j
          PROVE  i > 1 /\ events'[i - 1].event.type = "MemberEnrolled"
      <4>1. events'[i] = w.rows[j] /\ j \in DOMAIN w.rows
        BY <1>1, <1>3, <3>2
      <4>2. j > 1 /\ w.rows[j - 1].event.type = "MemberEnrolled"
        BY <2>2, <4>1 DEF Fits, Enrolls
      <4>3. j - 1 \in 1 .. m /\ i > 1 /\ i - 1 = n + (j - 1)
        BY <1>1, <3>2, <4>2
      <4>4. events'[i - 1] = w.rows[j - 1]
        BY <1>3, <4>3
      <4> QED
        BY <4>2, <4>3, <4>4
    <3> QED
      BY <1>9, <3>1, <3>2
  <2> QED
    BY <1>3, <2>1, <2>2 DEF EnrollmentsWhole, LastRevision
<1>15. IsState(Replay(History'))
  BY <1>5, <1>6 DEF Fits
<1>16. \A x \in DOMAIN commands' : commands'[x].last_revision \in 0 .. n + m
  <2> TAKE x \in DOMAIN commands'
  <2>1. CASE x \in DOMAIN commands
    <3>1. commands[x].last_revision \in 0 .. n
      BY <2>1 DEF HistoryLoads, LastRevision, n
    <3> QED
      BY <1>1, <1>4, <2>1, <3>1
  <2>2. CASE x = k
    BY <1>1, <1>4, <1>10, <2>2
  <2> QED
    BY <1>4, <2>1, <2>2
<1>17. HistoryLoads'
  BY <1>3, <1>11, <1>12, <1>13, <1>14, <1>15, <1>16 DEF HistoryLoads, LastRevision
<1> QED
  BY <1>4, <1>6, <1>7, <1>8, <1>17 DEF m

-----------------------------------------------------------------------------
(* Steps that leave rows and receipts alone.                               *)

\* The fields of a worker whose pc is set.
LEMMA PcSet ==
  ASSUME NEW x, IsTask(x), NEW pc, NEW y,
         y = [x EXCEPT !.pc = pc]
  PROVE  IsTask(y) /\ y.pc = pc /\ y.request = x.request /\ y.view = x.view /\ y.writes = x.writes
  BY DEF IsTask

\* The same of a worker that begins.
LEMMA IdleFields ==
  IsTask(Idle) /\ Idle.pc = "idle"
  BY DEF IsTask, Idle

\* One worker moves.
LEMMA OneTask ==
  ASSUME TasksSound, NEW t \in Workers, NEW x, task' = [task EXCEPT ![t] = x]
  PROVE  /\ task' = [s \in Workers |-> task'[s]]
         /\ task'[t] = x
         /\ \A s \in Workers \ {t} : task'[s] = task[s]
  BY DEF TasksSound

\* A worker between transactions, with nothing to report, is sound.
LEMMA EarlySound ==
  ASSUME NEW x, IsTask(x), x.pc \in {"idle", "preflight", "verify", "lock", "locked"},
         x.pc # "idle" => Known(x.request), NEW rows, NEW receipts
  PROVE  Sound(x, rows, receipts)
  BY DEF Sound, CommitFits, ViewCommitted, ReceiptFound

\* A step of one worker that changes no row and no receipt.
LEMMA QuietStep ==
  ASSUME IInv, NEW t \in Workers, NEW x, task' = [task EXCEPT ![t] = x],
         Sound(x, events, commands), UNCHANGED <<events, commands>>,
         EnvironmentTyped',
         x.pc \in {"locked", "commit"} => lock' = t,
         \A s \in Workers \ {t} : lock = s => lock' = s,
         lock' \in Workers \cup {NoTask, Orphan},
         lock' = Orphan => Abandoned(orphan', events, commands),
         PrefixView(cache', events),
         Acknowledged'
  PROVE  IInv'
<1>1. /\ task' = [s \in Workers |-> task'[s]] /\ task'[t] = x
      /\ \A s \in Workers \ {t} : task'[s] = task[s]
  BY OneTask DEF IInv
<1>2. TasksSound'
  <2>1. ASSUME NEW s \in Workers PROVE Sound(task'[s], events, commands)
    BY <1>1 DEF IInv, TasksSound
  <2> QED
    BY <1>1, <2>1 DEF TasksSound
<1>3. LockExcludes'
  BY <1>1 DEF IInv, LockExcludes
<1>4. HistoryLoads'
  BY DEF IInv, HistoryLoads, Contiguous, ReceiptsAgree, CommandsWhole, EnrollmentsWhole,
         History, LastRevision
<1>5. OrphanFits'
  BY DEF OrphanFits
<1> QED
  BY <1>2, <1>3, <1>4, <1>5 DEF IInv

\* The same when lock, orphan, cache, acknowledgements and environment stay too.
LEMMA LocalStep ==
  ASSUME IInv, NEW t \in Workers, NEW x, task' = [task EXCEPT ![t] = x],
         Sound(x, events, commands),
         x.pc \in {"locked", "commit"} => lock = t,
         UNCHANGED <<events, commands, lock, orphan, cache, acked, clock, defaults>>
  PROVE  IInv'
<1>1. EnvironmentTyped' /\ Acknowledged' /\ PrefixView(cache', events)
  BY DEF IInv, EnvironmentTyped, Acknowledged
<1>2. lock' \in Workers \cup {NoTask, Orphan}
  BY DEF IInv, LockExcludes
<1>3. lock' = Orphan => Abandoned(orphan', events, commands)
  BY DEF IInv, OrphanFits
<1> QED
  BY <1>1, <1>2, <1>3, QuietStep

\* A worker that ends its transaction, or gives up, without a result.
LEMMA ReleaseStep ==
  ASSUME IInv, NEW t \in Workers, NEW x, task' = [task EXCEPT ![t] = x],
         Sound(x, events, commands), x.pc \notin {"locked", "commit"}, Release(t),
         UNCHANGED <<events, commands, orphan, cache, acked, clock, defaults>>
  PROVE  IInv'
<1>1. EnvironmentTyped' /\ Acknowledged' /\ PrefixView(cache', events)
  BY DEF IInv, EnvironmentTyped, Acknowledged
<1>2. /\ lock' \in Workers \cup {NoTask, Orphan}
      /\ \A s \in Workers \ {t} : lock = s => lock' = s
      /\ lock' = Orphan => lock = Orphan
  BY TasksAssumption DEF IInv, LockExcludes, Release, NoTask, Orphan
<1>3. lock' = Orphan => Abandoned(orphan', events, commands)
  BY <1>2 DEF IInv, OrphanFits
<1> QED
  BY <1>1, <1>2, <1>3, QuietStep

\* Every failure is such a step.
LEMMA FailStep ==
  ASSUME IInv, NEW t \in Workers, Fail(t)
  PROVE  IInv'
<1>1. /\ task' = [task EXCEPT ![t] = Idle] /\ Release(t)
      /\ UNCHANGED <<events, commands, orphan, cache, acked, clock, defaults>>
  BY DEF Fail, Done, database, environment
<1>2. Sound(Idle, events, commands) /\ Idle.pc = "idle"
  BY IdleFields, EarlySound
<1> QED
  BY <1>1, <1>2, ReleaseStep

\* Retry, after a transient failure or a unique violation.
LEMMA RetryStep ==
  ASSUME IInv, NEW t \in Workers, Retry(t), task[t].pc # "idle", task[t].pc # "scan",
         UNCHANGED <<events, commands, orphan, cache, acked, clock, defaults>>
  PROVE  IInv'
<1>1. Release(t)
  BY DEF Retry
<1>2. IsTask(task[t]) /\ Known(task[t].request)
  BY DEF IInv, TasksSound, Sound
<1>3. CASE task[t].attempt < 2 /\ task[t].request.command.op # "Announce"
  <2> DEFINE x == [task[t] EXCEPT !.attempt = task[t].attempt + 1, !.pc = "lock",
                                  !.writes = NoWrites]
  <2>1. task' = [task EXCEPT ![t] = x]
    BY <1>3 DEF Retry
  <2>2. IsTask(x) /\ x.pc = "lock" /\ x.request = task[t].request
    BY <1>2 DEF IsTask
  <2> HIDE DEF x
  <2>3. Sound(x, events, commands)
    BY <1>2, <2>2, EarlySound
  <2> QED
    BY <1>1, <2>1, <2>2, <2>3, ReleaseStep
<1>4. CASE ~(task[t].attempt < 2 /\ task[t].request.command.op # "Announce")
  <2>1. task' = [task EXCEPT ![t] = Idle]
    BY <1>4 DEF Retry, Done
  <2>2. Sound(Idle, events, commands) /\ Idle.pc = "idle"
    BY IdleFields, EarlySound
  <2> QED
    BY <1>1, <2>1, <2>2, ReleaseStep
<1> QED
  BY <1>3, <1>4

\* load's view of the history is a view of all its rows.
LEMMA CommittedIsPrefix ==
  ASSUME IInv
  PROVE  /\ PrefixView(CommittedView, events)
         /\ CommittedView.revision = LastRevision
         /\ CommittedView.state = Replay(History)
<1>1. IsSeq(events) /\ Len(events) \in Nat
  BY SeqFacts DEF IInv, HistoryLoads
<1>2. CommittedView.revision = Len(events) /\ CommittedView.state = Replay(EventsOf(events))
  BY DEF CommittedView, LastRevision, History, EventsOf
<1>3. Replay(SubSeq(EventsOf(events), 1, Len(events))) = Replay(EventsOf(events))
  BY <1>1, WholePrefix
<1> QED
  BY <1>1, <1>2, <1>3 DEF PrefixView, LastRevision, History, EventsOf

-----------------------------------------------------------------------------
(* One lemma per step.                                                     *)

\* Discord delivers an interaction.
LEMMA DeliverStep ==
  ASSUME IInv, NEW t \in Tasks, NEW request \in Requests, Deliver(t, request)
  PROVE  IInv'
<1> DEFINE x == [Idle EXCEPT !.pc = Entry(request), !.request = request]
<1>1. /\ task' = [task EXCEPT ![t] = x] /\ t \in Workers
      /\ UNCHANGED <<events, commands, lock, orphan, cache, acked, clock, defaults>>
  BY DEF Deliver, database, memory, environment, Workers
<1>2. IsTask(x) /\ x.pc = Entry(request) /\ x.request = request
  BY DEF IsTask, Idle
<1>3. x.pc \in {"lock", "preflight"}
  BY <1>2 DEF Entry
<1> HIDE DEF x
<1>4. Sound(x, events, commands)
  BY <1>2, <1>3, EarlySound DEF Known
<1> QED
  BY <1>1, <1>3, <1>4, LocalStep

\* grant_due loads a view and publishes it; its grants are requests of its own.
LEMMA GrantDueStep ==
  ASSUME IInv, Scan \/ Discover \/ IssueGrant
  PROVE  IInv'
<1> DEFINE w == GrantWorker
<1>1. w \in Workers
  BY DEF Workers
<1>2. CASE Scan
  <2> DEFINE x == [Idle EXCEPT !.pc = "scan", !.view = CommittedView]
  <2>1. /\ task' = [task EXCEPT ![w] = x]
        /\ UNCHANGED <<events, commands, lock, orphan, cache, acked, clock, defaults>>
    BY <1>2 DEF Scan, database, memory, environment
  <2>2. IsTask(x) /\ x.pc = "scan" /\ x.view = CommittedView
    BY DEF IsTask, Idle
  <2> HIDE DEF x
  <2>3. Sound(x, events, commands)
    BY <2>2, CommittedIsPrefix DEF Sound, CommitFits, ViewCommitted, ReceiptFound
  <2> QED
    BY <1>1, <2>1, <2>2, <2>3, LocalStep
<1>3. CASE Discover
  <2>1. /\ task' = [task EXCEPT ![w] = Idle] /\ cache' = Newer(task[w].view)
        /\ UNCHANGED <<events, commands, lock, orphan, acked, clock, defaults>>
    BY <1>3 DEF Discover, database, environment
  <2>2. PrefixView(task[w].view, events) /\ PrefixView(cache, events)
    BY <1>1, <1>3 DEF Discover, At, IInv, TasksSound, Sound, ViewCommitted
  <2>3. PrefixView(cache', events) /\ cache'.revision >= cache.revision
    BY <2>1, <2>2 DEF Newer, PrefixView
  <2>4. Sound(Idle, events, commands) /\ Idle.pc = "idle"
    BY IdleFields, EarlySound
  <2>5. Acknowledged'
    <3>1. \A k \in DOMAIN commands : commands[k].last_revision \in Int
      BY DEF IInv, HistoryLoads
    <3> QED
      BY <2>1, <2>2, <2>3, <3>1 DEF IInv, Acknowledged, PrefixView
  <2>6. EnvironmentTyped' /\ lock' \in Workers \cup {NoTask, Orphan}
    BY <2>1 DEF IInv, EnvironmentTyped, LockExcludes
  <2>7. lock' = Orphan => Abandoned(orphan', events, commands)
    BY <2>1 DEF IInv, OrphanFits
  <2> QED
    BY <1>1, <2>1, <2>3, <2>4, <2>5, <2>6, <2>7, QuietStep
<1>4. CASE IssueGrant
  <2>1. PICK d \in due : task' = [task EXCEPT ![w] =
                [Idle EXCEPT !.pc = "preflight",
                             !.request = [key |-> <<"grant", d[1], d[2]>>,
                                          actor |-> SystemActor,
                                          command |-> [op |-> "Grant", user |-> d[1]]]]]
    BY <1>4 DEF IssueGrant
  <2> DEFINE r == [key |-> <<"grant", d[1], d[2]>>, actor |-> SystemActor,
                   command |-> [op |-> "Grant", user |-> d[1]]]
             x == [Idle EXCEPT !.pc = "preflight", !.request = r]
  <2>2. UNCHANGED <<events, commands, lock, orphan, cache, acked, clock, defaults>>
    BY <1>4 DEF IssueGrant, database, memory, environment
  <2>3. IsTask(x) /\ x.pc = "preflight" /\ x.request = r
    BY DEF IsTask, Idle
  <2>4. Known(r)
    BY DEF Known
  <2>5. task' = [task EXCEPT ![w] = x]
    BY <2>1
  <2> HIDE DEF x, r
  <2>6. Sound(x, events, commands)
    BY <2>3, <2>4, EarlySound
  <2> QED
    BY <1>1, <2>2, <2>3, <2>5, <2>6, LocalStep
<1> QED
  BY <1>2, <1>3, <1>4

\* A receipt was found: the worker goes on to report it.
LEMMA RecoveredSound ==
  ASSUME IInv, NEW t \in Workers, task[t].pc \in {"preflight", "locked"},
         HasReceipt(t), ActorMatches(t)
  PROVE  /\ Sound([task[t] EXCEPT !.pc = Recovered(t)], events, commands)
         /\ [task[t] EXCEPT !.pc = Recovered(t)].pc \in {"refresh", "reply"}
<1> DEFINE x == [task[t] EXCEPT !.pc = Recovered(t)]
<1>1. IsTask(task[t]) /\ Known(task[t].request)
  BY DEF IInv, TasksSound, Sound
<1>2. IsTask(x) /\ x.pc = Recovered(t) /\ x.request = task[t].request
  BY <1>1, PcSet
<1>3. x.pc = IF x.request.command.op = "Announce" THEN "reply" ELSE "refresh"
  BY <1>2 DEF Recovered
<1>4. x.request.key \in DOMAIN commands /\ commands[x.request.key].actor = x.request.actor.user
  BY <1>2 DEF HasReceipt, ActorMatches
<1> HIDE DEF x
<1>5. x.request.command.op = "Announce" => x.request \in Requests
  BY <1>1, <1>2 DEF Known
<1>6. Sound(x, events, commands) /\ x.pc \in {"refresh", "reply"}
  BY <1>1, <1>2, <1>3, <1>4, <1>5 DEF Sound, CommitFits, ViewCommitted, ReceiptFound
<1> QED
  BY <1>6 DEF x

\* The first look for a receipt, without a lock.
LEMMA PreflightStep ==
  ASSUME IInv, NEW t \in Workers, Preflight(t) \/ PreflightMismatch(t)
  PROVE  IInv'
<1>1. CASE PreflightMismatch(t)
  BY <1>1, FailStep DEF PreflightMismatch
<1>2. CASE Preflight(t)
  <2> DEFINE to == IF HasReceipt(t) THEN Recovered(t) ELSE "verify"
             x == [task[t] EXCEPT !.pc = to]
  <2>1. /\ task' = [task EXCEPT ![t] = x] /\ task[t].pc = "preflight"
        /\ HasReceipt(t) => ActorMatches(t)
        /\ UNCHANGED <<events, commands, lock, orphan, cache, acked, clock, defaults>>
    BY <1>2 DEF Preflight, At, Goto, database, memory, environment
  <2>2. Sound(x, events, commands) /\ x.pc \in {"refresh", "reply", "verify"}
    <3>1. CASE HasReceipt(t)
      BY <2>1, <3>1, RecoveredSound
    <3>2. CASE ~HasReceipt(t)
      <4>1. IsTask(task[t]) /\ Known(task[t].request)
        BY <2>1 DEF IInv, TasksSound, Sound
      <4>2. IsTask(x) /\ x.pc = "verify" /\ x.request = task[t].request
        BY <3>2, <4>1, PcSet
      <4> HIDE DEF x
      <4> QED
        BY <4>1, <4>2, EarlySound
    <3> QED
      BY <3>1, <3>2
  <2> HIDE DEF x
  <2> QED
    BY <2>1, <2>2, LocalStep
<1> QED
  BY <1>1, <1>2

\* The membership lookup, which holds nothing.
LEMMA VerifyStep ==
  ASSUME IInv, NEW t \in Workers, Verify(t) \/ RejectDestination(t)
  PROVE  IInv'
<1>1. CASE RejectDestination(t)
  BY <1>1, FailStep DEF RejectDestination
<1>2. CASE Verify(t)
  <2>1. PICK evidence : task' = [task EXCEPT ![t].evidence = evidence, ![t].pc = "lock"]
    BY <1>2 DEF Verify
  <2> DEFINE x == [task[t] EXCEPT !.evidence = evidence, !.pc = "lock"]
  <2>2. task[t].pc = "verify" /\ IsTask(task[t]) /\ Known(task[t].request)
    BY <1>2 DEF Verify, At, IInv, TasksSound, Sound
  <2>3. task' = [task EXCEPT ![t] = x]
    BY <2>1 DEF IInv, TasksSound
  <2>4. IsTask(x) /\ x.pc = "lock" /\ x.request = task[t].request
    BY <2>2 DEF IsTask
  <2>5. UNCHANGED <<events, commands, lock, orphan, cache, acked, clock, defaults>>
    BY <1>2 DEF Verify, database, memory, environment
  <2> HIDE DEF x
  <2>6. Sound(x, events, commands)
    BY <2>2, <2>4, EarlySound
  <2> QED
    BY <2>3, <2>4, <2>5, <2>6, LocalStep
<1> QED
  BY <1>1, <1>2

\* The advisory lock is taken only when nobody holds it.
LEMMA LockStep ==
  ASSUME IInv, NEW t \in Workers, Lock(t)
  PROVE  IInv'
<1> DEFINE x == [task[t] EXCEPT !.pc = "locked"]
<1>1. /\ task' = [task EXCEPT ![t] = x] /\ task[t].pc = "lock" /\ lock = NoTask /\ lock' = t
      /\ UNCHANGED <<events, commands, orphan, cache, acked, clock, defaults>>
  BY DEF Lock, At, Goto, database, memory, environment
<1>2. IsTask(task[t]) /\ Known(task[t].request)
  BY <1>1 DEF IInv, TasksSound, Sound
<1>3. IsTask(x) /\ x.pc = "locked" /\ x.request = task[t].request
  BY <1>2, PcSet
<1> HIDE DEF x
<1>4. Sound(x, events, commands)
  BY <1>2, <1>3, EarlySound
<1>5. /\ EnvironmentTyped' /\ Acknowledged' /\ PrefixView(cache', events)
      /\ lock' \in Workers \cup {NoTask, Orphan}
      /\ \A s \in Workers \ {t} : lock = s => lock' = s
      /\ lock' # Orphan
  BY <1>1, TasksAssumption DEF IInv, EnvironmentTyped, Acknowledged
<1> QED
  BY <1>1, <1>3, <1>4, <1>5, QuietStep

\* The second look for a receipt, under the lock.
LEMMA RecoverStep ==
  ASSUME IInv, NEW t \in Workers, Recover(t)
  PROVE  IInv'
<1>1. CASE ~ActorMatches(t)
  BY <1>1, FailStep DEF Recover
<1>2. CASE ActorMatches(t)
  <2> DEFINE x == [task[t] EXCEPT !.pc = Recovered(t)]
  <2>1. /\ task' = [task EXCEPT ![t] = x] /\ Release(t) /\ task[t].pc = "locked"
        /\ HasReceipt(t)
        /\ UNCHANGED <<events, commands, orphan, cache, acked, clock, defaults>>
    BY <1>2 DEF Recover, At, Goto, database, memory, environment
  <2>2. Sound(x, events, commands) /\ x.pc \in {"refresh", "reply"}
    BY <1>2, <2>1, RecoveredSound
  <2> HIDE DEF x
  <2> QED
    BY <2>1, <2>2, ReleaseStep
<1> QED
  BY <1>1, <1>2

\* The rows and the receipt of an acceptable decision fit the history.
LEMMA RowsFit ==
  ASSUME HistoryLoads, NEW t, ~HasReceipt(t), NEW d,
         Acceptable(Replay(History), d, task[t].request.actor.user, clock),
         NEW w, w.rows = RowsOf(t, d, LastRevision),
         w.receipts = Receipt(t, LastRevision + Len(d))
  PROVE  /\ Fits(w, task[t].request.key, task[t].request.actor.user, events, commands)
         /\ Len(w.rows) = Len(d) /\ EventsOf(w.rows) = d
<1> DEFINE k == task[t].request.key
           a == task[t].request.actor.user
           n == Len(events)
           r == w.rows
<1>1. IsSeq(d) /\ Len(d) \in 0 .. 3 /\ Len(d) \in Nat /\ DOMAIN d = 1 .. Len(d) /\ n \in Nat
  BY SeqFacts DEF Acceptable, HistoryLoads
<1>2. /\ DOMAIN w.receipts = {k} /\ w.receipts[k].actor = a
      /\ w.receipts[k].accepted_at = clock /\ w.receipts[k].last_revision = n + Len(d)
  BY DEF Receipt, LastRevision
<1>3. DOMAIN r = 1 .. Len(d) /\ r = [i \in 1 .. Len(d) |-> r[i]]
  BY <1>1 DEF RowsOf
<1>4. \A i \in 1 .. Len(d) :
        r[i].revision = n + i /\ r[i].key = k /\ r[i].accepted_at = clock /\ r[i].event = d[i]
  BY <1>1 DEF RowsOf, LastRevision
<1> HIDE DEF k, a, n, r
<1>5. IsSeq(r) /\ Len(r) = Len(d)
  BY <1>1, <1>3, SeqIntro
<1>6. EventsOf(r) = d
  <2>1. d = [i \in 1 .. Len(d) |-> d[i]]
    BY <1>1 DEF IsSeq
  <2>2. EventsOf(r) = [i \in 1 .. Len(d) |-> d[i]]
    BY <1>3, <1>4 DEF EventsOf
  <2> QED
    BY <2>1, <2>2
<1>7. Enrolls(r)
  <2>1. \A i \in 1 .. Len(d) :
          /\ d[i].type = "MemberEnrolled" =>
              i < Len(d) /\ IsInitialGrant(d[i + 1]) /\ d[i + 1].user = d[i].user
          /\ IsInitialGrant(d[i]) => i > 1 /\ d[i - 1].type = "MemberEnrolled"
    BY <1>1 DEF Acceptable
  <2>2. \A i \in 1 .. Len(d) :
          (i < Len(d) => i + 1 \in 1 .. Len(d)) /\ (i > 1 => i - 1 \in 1 .. Len(d))
    BY <1>1
  <2>3. ASSUME NEW i \in 1 .. Len(d), d[i].type = "MemberEnrolled"
        PROVE  /\ i < Len(d) /\ IsInitialGrant(r[i + 1].event)
               /\ r[i + 1].event.user = r[i].event.user
    BY <1>4, <2>1, <2>2, <2>3
  <2>4. ASSUME NEW i \in 1 .. Len(d), IsInitialGrant(d[i])
        PROVE  i > 1 /\ r[i - 1].event.type = "MemberEnrolled"
    BY <1>4, <2>1, <2>2, <2>4
  <2> QED
    BY <1>3, <1>4, <1>5, <2>3, <2>4 DEF Enrolls
<1>8. \A i \in 1 .. Len(d) : EventTime(d[i], clock) /\ EventActor(d[i], a)
  BY <1>1 DEF Acceptable, a
<1>9. IsState(ApplyDecision(Replay(EventsOf(events)), d))
  BY DEF Acceptable, History, EventsOf
<1>10. k \notin DOMAIN commands
  BY DEF HasReceipt, k
<1>11. Fits(w, k, a, events, commands)
  BY <1>1, <1>2, <1>3, <1>4, <1>5, <1>6, <1>7, <1>8, <1>9, <1>10 DEF Fits, n, r
<1> QED
  BY <1>5, <1>6, <1>11 DEF k, a, r

\* transact: what it decides under the lock, against a replay, fits the history.
LEMMA TransactStep ==
  ASSUME IInv, NEW t \in Workers, Transact(t)
  PROVE  IInv'
<1> DEFINE request == task[t].request
           s == Replay(History)
           decisions == Decide(s, request.actor, request.command, clock, defaults,
                               task[t].evidence)
           W(d) == [ rows |-> RowsOf(t, d, LastRevision),
                     receipts |-> Receipt(t, LastRevision + Len(d)),
                     channel |-> channel,
                     accepted |-> clock,
                     view |-> [revision |-> LastRevision + Len(d),
                               state |-> ApplyDecision(s, d)] ]
<1>1. /\ task[t].pc = "locked" /\ lock = t /\ IsTask(task[t]) /\ Known(request)
      /\ ~HasReceipt(t) /\ request.command.op # "Announce" /\ HistoryLoads /\ IsState(s)
      /\ clock \in Time /\ defaults \in Policy /\ IsSeq(events) /\ Len(events) \in Nat
  BY SeqFacts, TimesAssumption, PoliciesAssumption
     DEF Transact, At, IInv, LockExcludes, TasksSound, Sound, EnvironmentTyped, HistoryLoads
<1>2. CommittedView.revision = LastRevision /\ CommittedView.state = s
  BY DEF CommittedView
<1>3. \/ decisions = {} /\ Fail(t)
      \/ \E d \in decisions :
            /\ IF Retryable(request.command, d)
               THEN /\ Release(t)
                    /\ task' = [task EXCEPT ![t].pc = "publish", ![t].view = CommittedView]
               ELSE /\ UNCHANGED lock
                    /\ task' = [task EXCEPT ![t].pc = "commit", ![t].writes = W(d)]
            /\ UNCHANGED <<database, orphan, memory, environment, acked, guild>>
  BY <1>2 DEF Transact
<1> HIDE DEF s
<1>4. CASE Fail(t)
  BY <1>4, FailStep
<1>5. ASSUME NEW d \in decisions, Retryable(request.command, d), Release(t),
             task' = [task EXCEPT ![t].pc = "publish", ![t].view = CommittedView],
             UNCHANGED <<database, orphan, memory, environment, acked, guild>>
      PROVE  IInv'
  <2> DEFINE x == [task[t] EXCEPT !.pc = "publish", !.view = CommittedView]
  <2>1. task' = [task EXCEPT ![t] = x]
    BY <1>5 DEF IInv, TasksSound
  <2>2. IsTask(x) /\ x.pc = "publish" /\ x.request = request /\ x.view = CommittedView
    BY <1>1 DEF IsTask
  <2> HIDE DEF x
  <2>3. request \notin Requests
    BY <1>5, RequestsAssumption, CommandFields DEF Retryable
  <2>4. Sound(x, events, commands)
    BY <1>1, <2>2, <2>3, CommittedIsPrefix DEF Sound, CommitFits, ViewCommitted, ReceiptFound
  <2>5. UNCHANGED <<events, commands, orphan, cache, acked, clock, defaults>>
    BY <1>5 DEF database, memory, environment
  <2> QED
    BY <1>5, <2>1, <2>2, <2>4, <2>5, ReleaseStep
<1>6. ASSUME NEW d \in decisions, UNCHANGED lock,
             task' = [task EXCEPT ![t].pc = "commit", ![t].writes = W(d)],
             UNCHANGED <<database, orphan, memory, environment, acked, guild>>
      PROVE  IInv'
  <2> DEFINE w == W(d)
             x == [task[t] EXCEPT !.pc = "commit", !.writes = w]
  <2>1. /\ w.rows = RowsOf(t, d, LastRevision)
        /\ w.receipts = Receipt(t, LastRevision + Len(d))
        /\ w.view.revision = LastRevision + Len(d) /\ w.view.state = ApplyDecision(s, d)
    OBVIOUS
  <2> HIDE DEF w
  <2>2. task' = [task EXCEPT ![t] = x]
    BY <1>6 DEF IInv, TasksSound, w
  <2>3. IsTask(x) /\ x.pc = "commit" /\ x.request = request /\ x.writes = w
    BY <1>1 DEF IsTask
  <2>4. Acceptable(s, d, request.actor.user, clock)
    BY <1>1, DecisionsAcceptable
  <2> HIDE DEF x, W
  <2>5. /\ Fits(w, request.key, request.actor.user, events, commands)
        /\ Len(w.rows) = Len(d) /\ EventsOf(w.rows) = d
    BY <1>1, <2>1, <2>4, RowsFit DEF s
  <2>6. s = Replay(EventsOf(events)) /\ LastRevision = Len(events)
    BY DEF s, History, EventsOf, LastRevision
  <2>7. CommitFits(x, events, commands)
    BY <2>1, <2>3, <2>5, <2>6 DEF CommitFits
  <2>8. Sound(x, events, commands)
    BY <1>1, <2>3, <2>7 DEF Sound, ViewCommitted, ReceiptFound
  <2>9. UNCHANGED <<events, commands, lock, orphan, cache, acked, clock, defaults>>
    BY <1>6 DEF database, memory, environment
  <2> QED
    BY <1>1, <2>2, <2>8, <2>9, LocalStep
<1> QED
  BY <1>3, <1>4, <1>5, <1>6

\* configure_announcements: the welcome of a new destination is a legal event.
LEMMA AcceptWelcome ==
  ASSUME NEW s, IsState(s), NEW a, a # System, NEW time
  PROVE  /\ Acceptable(s, << >>, a, time)
         /\ Acceptable(s, <<[type |-> "AnnouncementsEnabled",
                             moderator |-> a, enabled_at |-> time]>>, a, time)
<1> DEFINE e == [type |-> "AnnouncementsEnabled", moderator |-> a, enabled_at |-> time]
<1>1. s # Invalid
  BY StateIsValid
<1>2. Acceptable(s, << >>, a, time)
  <2>1. ApplyDecision(s, << >>) = s
    BY DEF ApplyDecision, ApplyNth
  <2>2. << >> \in Finish(s, << >>)
    BY <1>1, <2>1 DEF Finish
  <2> QED
    BY <2>2, AcceptNone
<1>3. e.type = "AnnouncementsEnabled" /\ e.moderator = a /\ e.enabled_at = time
  OBVIOUS
<1> HIDE DEF e
<1>4. Applicable(s, e) /\ Effect(s, e) = s
  BY <1>3 DEF Applicable, Effect
<1>5. ApplyDecision(s, <<e>>) = s
  BY <1>1, <1>4 DEF ApplyDecision, ApplyNth, Apply
<1>6. <<e>> \in Finish(s, <<e>>)
  BY <1>1, <1>5 DEF Finish
<1>7. EventTime(e, time) /\ EventActor(e, a) /\ ~IsInitialGrant(e) /\ e.type # "MemberEnrolled"
  BY <1>3 DEF EventTime, EventActor, IsInitialGrant
<1>8. Acceptable(s, <<e>>, a, time)
  BY <1>4, <1>6, <1>7, AcceptOne
<1> QED
  BY <1>2, <1>8 DEF e

\* configure_announcements, which does not replay, writes rows that fit as well.
LEMMA ConfigureStep ==
  ASSUME IInv, NEW t \in Workers, Configure(t)
  PROVE  IInv'
<1> DEFINE request == task[t].request
           a == request.actor.user
           s == Replay(History)
           welcome == IF request.command.channel # 0 /\ request.command.channel # channel
                      THEN <<[type |-> "AnnouncementsEnabled",
                              moderator |-> a, enabled_at |-> clock]>>
                      ELSE << >>
           w == [ rows |-> RowsOf(t, welcome, LastRevision),
                  receipts |-> Receipt(t, LastRevision + Len(welcome)),
                  channel |-> request.command.channel,
                  view |-> NoView,
                  accepted |-> guild.accepted ]
           x == [task[t] EXCEPT !.pc = "commit", !.writes = w]
<1>1. /\ task[t].pc = "locked" /\ lock = t /\ IsTask(task[t]) /\ Known(request)
      /\ ~HasReceipt(t) /\ request.command.op = "Announce" /\ HistoryLoads /\ IsState(s)
  BY DEF Configure, At, IInv, LockExcludes, TasksSound, Sound, HistoryLoads
<1>2. task' = [task EXCEPT ![t].pc = "commit", ![t].writes = w]
  BY DEF Configure
<1>3. a # System
  BY <1>1, RequestsAssumption DEF Known
<1>4. Acceptable(s, welcome, a, clock)
  BY <1>1, <1>3, AcceptWelcome
<1> HIDE DEF welcome, s
<1>5. /\ w.rows = RowsOf(t, welcome, LastRevision)
      /\ w.receipts = Receipt(t, LastRevision + Len(welcome))
  OBVIOUS
<1> HIDE DEF w
<1>6. task' = [task EXCEPT ![t] = x]
  BY <1>2 DEF IInv, TasksSound
<1>7. IsTask(x) /\ x.pc = "commit" /\ x.request = request /\ x.writes = w
  BY <1>1 DEF IsTask
<1> HIDE DEF x
<1>8. Fits(w, request.key, a, events, commands)
  BY <1>1, <1>4, <1>5, RowsFit DEF s
<1>9. Sound(x, events, commands)
  BY <1>1, <1>7, <1>8 DEF Sound, CommitFits, ViewCommitted, ReceiptFound
<1>10. UNCHANGED <<events, commands, lock, orphan, cache, acked, clock, defaults>>
  BY DEF Configure, database, memory, environment
<1> QED
  BY <1>1, <1>6, <1>9, <1>10, LocalStep

\* Writes that fit violate no primary key.
LEMMA FitsUnique ==
  ASSUME HistoryLoads, NEW w, NEW k, NEW a, Fits(w, k, a, events, commands)
  PROVE  Unique(w)
<1>1. IsSeq(events) /\ IsSeq(w.rows) /\ Contiguous
  BY DEF HistoryLoads, Fits
<1>2. /\ Len(events) \in Nat /\ DOMAIN events = 1 .. Len(events)
      /\ Len(w.rows) \in Nat /\ DOMAIN w.rows = 1 .. Len(w.rows)
  BY <1>1, SeqFacts
<1>3. DOMAIN w.receipts \cap DOMAIN commands = {}
  BY DEF Fits
<1>4. ASSUME NEW i \in DOMAIN w.rows, NEW j \in DOMAIN events
      PROVE  w.rows[i].revision # events[j].revision
  <2>1. w.rows[i].revision = Len(events) + i /\ events[j].revision = j
    BY <1>1 DEF Fits, Contiguous
  <2> QED
    BY <1>2, <2>1
<1> QED
  BY <1>3, <1>4 DEF Unique

\* After a COMMIT the other workers are as sound as before.
LEMMA OthersKept ==
  ASSUME IInv, NEW w, NEW k, NEW a, Fits(w, k, a, events, commands), Store(w),
         NEW x, Sound(x, events, commands), x.pc # "commit"
  PROVE  Sound(x, events', commands')
<1>1. /\ HistoryLoads /\ IsSeq(events) /\ IsSeq(w.rows) /\ Len(w.rows) \in Nat
      /\ Len(events) \in Nat
  BY SeqFacts DEF IInv, HistoryLoads, Fits
<1>2. /\ LastRevision' = LastRevision + Len(w.rows)
      /\ DOMAIN commands' = DOMAIN commands \cup {k}
      /\ \A y \in DOMAIN commands : commands'[y] = commands[y]
      /\ \A r \in 0 .. LastRevision :
              Replay(SubSeq(History', 1, r)) = Replay(SubSeq(History, 1, r))
  BY <1>1, StoreExtends
<1>3. ViewCommitted(x, events')
  <2>1. \A r \in 0 .. Len(events) :
          Replay(SubSeq(EventsOf(events'), 1, r)) = Replay(SubSeq(EventsOf(events), 1, r))
    BY <1>2 DEF History, EventsOf, LastRevision
  <2>2. Len(events') = Len(events) + Len(w.rows)
    BY <1>2 DEF LastRevision
  <2>3. 0 .. Len(events) \subseteq 0 .. Len(events')
    BY <1>1, <2>2
  <2> QED
    BY <2>1, <2>3 DEF Sound, ViewCommitted, PrefixView
<1>4. ReceiptFound(x, commands')
  BY <1>2 DEF Sound, ReceiptFound
<1> QED
  BY <1>3, <1>4 DEF Sound, CommitFits

\* The published view and the acknowledgements are kept by a COMMIT too.
LEMMA PublishedKept ==
  ASSUME IInv, NEW w, NEW k, NEW a, Fits(w, k, a, events, commands), Store(w),
         UNCHANGED <<cache, acked>>
  PROVE  PrefixView(cache', events') /\ Acknowledged'
<1>1. /\ HistoryLoads /\ IsSeq(events) /\ IsSeq(w.rows) /\ Len(w.rows) \in Nat
      /\ Len(events) \in Nat
  BY SeqFacts DEF IInv, HistoryLoads, Fits
<1>2. /\ LastRevision' = LastRevision + Len(w.rows)
      /\ DOMAIN commands' = DOMAIN commands \cup {k}
      /\ \A y \in DOMAIN commands : commands'[y] = commands[y]
      /\ \A r \in 0 .. LastRevision :
              Replay(SubSeq(History', 1, r)) = Replay(SubSeq(History, 1, r))
  BY <1>1, StoreExtends
<1>3. PrefixView(cache', events')
  <2>1. \A r \in 0 .. Len(events) :
          Replay(SubSeq(EventsOf(events'), 1, r)) = Replay(SubSeq(EventsOf(events), 1, r))
    BY <1>2 DEF History, EventsOf, LastRevision
  <2>2. 0 .. Len(events) \subseteq 0 .. Len(events')
    BY <1>1, <1>2 DEF LastRevision
  <2> QED
    BY <2>1, <2>2 DEF IInv, PrefixView
<1>4. Acknowledged'
  BY <1>2 DEF IInv, Acknowledged
<1> QED
  BY <1>3, <1>4

\* COMMIT: never a unique violation, and the worker goes on with the committed view.
LEMMA CommitTxStep ==
  ASSUME IInv, NEW t \in Workers, CommitTx(t)
  PROVE  IInv'
<1> DEFINE request == task[t].request
           w == task[t].writes
           k == request.key
           a == request.actor.user
           to == IF request.command.op = "Announce" THEN "reply" ELSE "publish"
           x == [task[t] EXCEPT !.pc = to, !.view = w.view, !.writes = NoWrites]
<1>1. /\ task[t].pc = "commit" /\ lock = t /\ Known(request) /\ IsTask(task[t])
      /\ Fits(w, k, a, events, commands) /\ HistoryLoads
      /\ request.command.op # "Announce" =>
            /\ w.view.revision = Len(events) + Len(w.rows)
            /\ w.view.state = ApplyDecision(Replay(EventsOf(events)), EventsOf(w.rows))
  BY DEF CommitTx, At, IInv, LockExcludes, TasksSound, Sound, CommitFits
<1>2. Unique(w)
  BY <1>1, FitsUnique
<1>3. /\ Store(w) /\ Release(t)
      /\ task' = [task EXCEPT ![t].pc = to, ![t].view = w.view, ![t].writes = NoWrites]
      /\ UNCHANGED <<orphan, cache, clock, defaults, acked>>
  BY <1>2 DEF CommitTx, environment
<1>4. task' = [task EXCEPT ![t] = x]
  BY <1>3 DEF IInv, TasksSound
<1>5. IsTask(x) /\ x.pc = to /\ x.request = request /\ x.view = w.view
  BY <1>1 DEF IsTask
<1>6. to \in {"reply", "publish"} /\ (to = "reply" <=> request.command.op = "Announce")
  OBVIOUS
<1> HIDE DEF x, w, k, a, to
<1>7. /\ task' = [s \in Workers |-> task'[s]] /\ task'[t] = x
      /\ \A s \in Workers \ {t} : task'[s] = task[s]
  BY <1>4, OneTask DEF IInv
<1>8. /\ HistoryLoads'
      /\ LastRevision' = LastRevision + Len(w.rows)
      /\ k \in DOMAIN commands' /\ commands'[k] = w.receipts[k]
      /\ Replay(History') = ApplyDecision(Replay(History), EventsOf(w.rows))
  BY <1>1, <1>3, StoreExtends
<1>9. Sound(x, events', commands')
  <2>1. /\ Len(events') = Len(events) + Len(w.rows) /\ Len(events') \in Nat /\ IsSeq(events')
        /\ w.receipts[k].last_revision = Len(events') /\ w.receipts[k].actor = a
    BY <1>1, <1>8, SeqFacts DEF LastRevision, Fits, HistoryLoads
  <2>2. /\ History = EventsOf(events) /\ History' = EventsOf(events')
        /\ Replay(SubSeq(EventsOf(events'), 1, Len(events'))) = Replay(EventsOf(events'))
    BY <2>1, WholePrefix DEF History, EventsOf
  <2>3. ViewCommitted(x, events')
    BY <1>1, <1>5, <1>6, <1>8, <2>1, <2>2 DEF ViewCommitted, PrefixView
  <2>4. ReceiptFound(x, commands')
    <3>1. x.request.key = k /\ x.request.actor.user = a
      BY <1>5 DEF k, a
    <3>2. x.pc = "publish" => x.view.revision >= commands'[k].last_revision
      BY <1>1, <1>5, <1>6, <1>8, <2>1
    <3>3. x.pc = "reply" => x.request \in Requests /\ x.request.command.op = "Announce"
      BY <1>1, <1>5, <1>6 DEF Known
    <3> QED
      BY <1>8, <2>1, <3>1, <3>2, <3>3 DEF ReceiptFound
  <2> QED
    BY <1>1, <1>5, <1>6, <2>3, <2>4 DEF Sound, CommitFits
<1>10. \A s \in Workers \ {t} : task[s].pc \notin {"locked", "commit"}
  BY <1>1 DEF IInv, LockExcludes
<1>11. TasksSound'
  <2>1. ASSUME NEW s \in Workers \ {t} PROVE Sound(task[s], events', commands')
    <3>1. Sound(task[s], events, commands) /\ task[s].pc # "commit"
      BY <1>10 DEF IInv, TasksSound
    <3> QED
      BY <1>1, <1>3, <3>1, OthersKept
  <2>2. \A s \in Workers : Sound(task'[s], events', commands')
    BY <1>7, <1>9, <2>1
  <2> QED
    BY <1>7, <2>2 DEF TasksSound
<1>12. lock' = NoTask
  BY <1>1, <1>3 DEF Release
<1>13. LockExcludes'
  BY <1>5, <1>6, <1>7, <1>10, <1>12 DEF LockExcludes
<1>14. PrefixView(cache', events') /\ Acknowledged'
  BY <1>1, <1>3, PublishedKept
<1>15. OrphanFits'
  BY <1>12 DEF OrphanFits, NoTask, Orphan
<1>16. EnvironmentTyped'
  BY <1>3 DEF IInv, EnvironmentTyped
<1> QED
  BY <1>8, <1>11, <1>13, <1>14, <1>15, <1>16 DEF IInv

\* The view of a recovered receipt is the whole committed history.
LEMMA RefreshStep ==
  ASSUME IInv, NEW t \in Workers, Refresh(t)
  PROVE  IInv'
<1> DEFINE x == [task[t] EXCEPT !.pc = "publish", !.view = CommittedView]
<1>1. /\ task[t].pc = "refresh" /\ IsTask(task[t]) /\ Known(task[t].request)
      /\ ReceiptFound(task[t], commands)
  BY DEF Refresh, At, IInv, TasksSound, Sound
<1>2. task' = [task EXCEPT ![t] = x]
  BY DEF Refresh, IInv, TasksSound
<1>3. UNCHANGED <<events, commands, lock, orphan, cache, acked, clock, defaults>>
  BY DEF Refresh, database, memory, environment
<1>4. IsTask(x) /\ x.pc = "publish" /\ x.request = task[t].request /\ x.view = CommittedView
  BY <1>1 DEF IsTask
<1> HIDE DEF x
<1>5. \A k \in DOMAIN commands : CommittedView.revision >= commands[k].last_revision
  <2>1. IsSeq(events) /\ Len(events) \in Nat
    BY SeqFacts DEF IInv, HistoryLoads
  <2> QED
    BY <2>1, CommittedIsPrefix DEF IInv, HistoryLoads, LastRevision
<1>6. ReceiptFound(x, commands)
  BY <1>1, <1>4, <1>5 DEF ReceiptFound
<1>7. Sound(x, events, commands)
  BY <1>1, <1>4, <1>6, CommittedIsPrefix DEF Sound, CommitFits, ViewCommitted
<1> QED
  BY <1>2, <1>3, <1>4, <1>7, LocalStep

\* A success is reported with the newer of two committed views published.
LEMMA PublishStep ==
  ASSUME IInv, NEW t \in Workers, Publish(t)
  PROVE  IInv'
<1> DEFINE r == task[t].request
<1>1. /\ task[t].pc = "publish" /\ Known(r) /\ ReceiptFound(task[t], commands)
      /\ PrefixView(task[t].view, events) /\ PrefixView(cache, events)
  BY DEF Publish, At, IInv, TasksSound, Sound, ViewCommitted
<1>2. /\ task' = [task EXCEPT ![t] = Idle] /\ cache' = Newer(task[t].view)
      /\ acked' = acked \cup {<<r.key, r.actor.user>>}
      /\ UNCHANGED <<events, commands, lock, orphan, clock, defaults>>
  BY DEF Publish, Done, Ack, database, environment
<1>3. /\ PrefixView(cache', events) /\ cache'.revision >= cache.revision
      /\ cache'.revision >= task[t].view.revision
      /\ cache'.revision \in Int /\ cache.revision \in Int /\ task[t].view.revision \in Int
  BY <1>1, <1>2 DEF Newer, PrefixView
<1>4. \A k \in DOMAIN commands : commands[k].last_revision \in Int
  BY DEF IInv, HistoryLoads
<1>5. Acknowledged'
  <2> SUFFICES ASSUME NEW q \in Requests, <<q.key, q.actor.user>> \in acked'
               PROVE  /\ q.key \in DOMAIN commands
                      /\ commands[q.key].actor = q.actor.user
                      /\ q.command.op # "Announce" =>
                            cache'.revision >= commands[q.key].last_revision
    BY <1>2 DEF Acknowledged
  <2>1. CASE <<q.key, q.actor.user>> \in acked
    BY <1>3, <1>4, <2>1 DEF IInv, Acknowledged
  <2>2. CASE q.key = r.key /\ q.actor.user = r.actor.user
    <3>1. r \in Requests
      BY <1>1, <2>2, RequestsAssumption DEF Known, SystemActor
    <3>2. /\ r.key \in DOMAIN commands /\ commands[r.key].actor = r.actor.user
          /\ task[t].view.revision >= commands[r.key].last_revision
      BY <1>1, <3>1 DEF ReceiptFound
    <3> QED
      BY <1>3, <1>4, <2>2, <3>2
  <2> QED
    BY <1>2, <2>1, <2>2
<1>6. Sound(Idle, events, commands) /\ Idle.pc = "idle"
  BY IdleFields, EarlySound
<1>7. EnvironmentTyped' /\ lock' \in Workers \cup {NoTask, Orphan}
  BY <1>2 DEF IInv, EnvironmentTyped, LockExcludes
<1>8. lock' = Orphan => Abandoned(orphan', events, commands)
  BY <1>2 DEF IInv, OrphanFits
<1> QED
  BY <1>2, <1>3, <1>5, <1>6, <1>7, <1>8, QuietStep

\* The answer to a configuration change needs no view.
LEMMA ReplyStep ==
  ASSUME IInv, NEW t \in Workers, Reply(t)
  PROVE  IInv'
<1> DEFINE r == task[t].request
<1>1. /\ r \in Requests /\ r.command.op = "Announce"
      /\ r.key \in DOMAIN commands /\ commands[r.key].actor = r.actor.user
  BY DEF Reply, At, IInv, TasksSound, Sound, ReceiptFound
<1>2. /\ task' = [task EXCEPT ![t] = Idle]
      /\ acked' = acked \cup {<<r.key, r.actor.user>>}
      /\ UNCHANGED <<events, commands, lock, orphan, cache, clock, defaults>>
  BY DEF Reply, Done, Ack, database, environment
<1>3. Acknowledged'
  <2> SUFFICES ASSUME NEW q \in Requests, <<q.key, q.actor.user>> \in acked'
               PROVE  /\ q.key \in DOMAIN commands
                      /\ commands[q.key].actor = q.actor.user
                      /\ q.command.op # "Announce" =>
                            cache.revision >= commands[q.key].last_revision
    BY <1>2 DEF Acknowledged
  <2>1. CASE <<q.key, q.actor.user>> \in acked
    BY <2>1 DEF IInv, Acknowledged
  <2>2. CASE q.key = r.key /\ q.actor.user = r.actor.user
    <3>1. q.command.op = "Announce"
      BY <1>1, <2>2, KeysAssumption
    <3> QED
      BY <1>1, <2>2, <3>1
  <2> QED
    BY <1>2, <2>1, <2>2
<1>4. Sound(Idle, events, commands) /\ Idle.pc = "idle"
  BY IdleFields, EarlySound
<1>5. EnvironmentTyped' /\ lock' \in Workers \cup {NoTask, Orphan} /\ PrefixView(cache', events)
  BY <1>2 DEF IInv, EnvironmentTyped, LockExcludes
<1>6. lock' = Orphan => Abandoned(orphan', events, commands)
  BY <1>2 DEF IInv, OrphanFits
<1> QED
  BY <1>2, <1>3, <1>4, <1>5, <1>6, QuietStep

-----------------------------------------------------------------------------
(* Faults and the environment.                                             *)

\* A transaction that fails transiently, or whose connection is lost.
LEMMA FaultStep ==
  ASSUME IInv, NEW t \in Workers, Transient(t) \/ Disconnect(t)
  PROVE  IInv'
<1>1. CASE Transient(t)
  <2>1. /\ Retry(t) /\ task[t].pc # "idle" /\ task[t].pc # "scan"
        /\ UNCHANGED <<events, commands, orphan, cache, acked, clock, defaults>>
    BY <1>1 DEF Transient, database
  <2> QED
    BY <2>1, RetryStep
<1>2. CASE Disconnect(t)
  <2>1. /\ task' = [task EXCEPT ![t] = Idle]
        /\ UNCHANGED <<events, commands, cache, acked, clock, defaults>>
    BY <1>2 DEF Disconnect, Done, database
  <2>2. Sound(Idle, events, commands) /\ Idle.pc = "idle"
    BY IdleFields, EarlySound
  <2>3. CASE task[t].pc = "commit"
    <3>1. orphan' = task[t].writes /\ lock' = Orphan
      BY <1>2, <2>3 DEF Disconnect, At
    <3>2. /\ lock = t
          /\ Fits(task[t].writes, task[t].request.key, task[t].request.actor.user,
                  events, commands)
      BY <2>3 DEF IInv, LockExcludes, TasksSound, Sound, CommitFits
    <3>3. Abandoned(orphan', events, commands)
      BY <3>1, <3>2 DEF Abandoned, Fits
    <3>4. EnvironmentTyped' /\ Acknowledged' /\ PrefixView(cache', events)
      BY <2>1 DEF IInv, EnvironmentTyped, Acknowledged
    <3> QED
      BY <2>1, <2>2, <3>1, <3>2, <3>3, <3>4, QuietStep
  <2>4. CASE task[t].pc # "commit"
    <3>1. Release(t) /\ UNCHANGED orphan
      BY <1>2, <2>4 DEF Disconnect, At
    <3> QED
      BY <2>1, <2>2, <3>1, ReleaseStep
  <2> QED
    BY <2>3, <2>4
<1> QED
  BY <1>1, <1>2

\* The process dies: what it had decided is left to the server, which holds the lock.
LEMMA CrashStep ==
  ASSUME IInv, Crash
  PROVE  IInv'
<1>1. /\ task' = [t \in Workers |-> Idle] /\ cache' = CommittedView
      /\ UNCHANGED <<events, commands, clock, acked>> /\ defaults' \in Policies
  BY DEF Crash, database
<1>2. Sound(Idle, events, commands) /\ Idle.pc = "idle"
  BY IdleFields, EarlySound
<1>3. TasksSound'
  BY <1>1, <1>2 DEF TasksSound
<1>4. HistoryLoads'
  BY <1>1 DEF IInv, HistoryLoads, Contiguous, ReceiptsAgree, CommandsWhole, EnrollmentsWhole,
         History, LastRevision
<1>5. PrefixView(cache', events')
  BY <1>1, CommittedIsPrefix
<1>6. Acknowledged'
  <2>1. \A k \in DOMAIN commands : CommittedView.revision >= commands[k].last_revision
    <3>1. IsSeq(events) /\ Len(events) \in Nat
      BY SeqFacts DEF IInv, HistoryLoads
    <3> QED
      BY <3>1, CommittedIsPrefix DEF IInv, HistoryLoads, LastRevision
  <2> QED
    BY <1>1, <2>1 DEF IInv, Acknowledged
<1>7. EnvironmentTyped'
  BY <1>1 DEF IInv, EnvironmentTyped
<1>8. /\ lock' \in {NoTask, Orphan}
      /\ lock' = Orphan => Abandoned(orphan', events, commands)
  <2>1. CASE lock \in Workers /\ task[lock].pc = "commit"
    <3>1. orphan' = task[lock].writes /\ lock' = Orphan
      BY <2>1 DEF Crash
    <3>2. Fits(task[lock].writes, task[lock].request.key, task[lock].request.actor.user,
               events, commands)
      BY <2>1 DEF IInv, TasksSound, Sound, CommitFits
    <3> QED
      BY <3>1, <3>2 DEF Abandoned, Fits
  <2>2. CASE ~(lock \in Workers /\ task[lock].pc = "commit")
    <3>1. /\ lock' = IF lock \in Workers THEN NoTask ELSE lock
          /\ UNCHANGED orphan
      BY <2>2 DEF Crash
    <3> QED
      BY <3>1 DEF IInv, LockExcludes, OrphanFits, NoTask, Orphan
  <2> QED
    BY <2>1, <2>2
<1>9. LockExcludes' /\ OrphanFits'
  BY <1>1, <1>2, <1>8 DEF LockExcludes, OrphanFits
<1> QED
  BY <1>3, <1>4, <1>5, <1>6, <1>7, <1>9 DEF IInv

\* The server finishes a COMMIT nobody waits for.
LEMMA OrphanCommitStep ==
  ASSUME IInv, OrphanCommit
  PROVE  IInv'
<1>1. /\ lock = Orphan /\ Store(orphan) /\ lock' = NoTask
      /\ UNCHANGED <<task, cache, clock, defaults, acked>>
  BY DEF OrphanCommit, memory, environment
<1>2. PICK k : Fits(orphan, k, orphan.receipts[k].actor, events, commands)
  BY <1>1 DEF IInv, OrphanFits, Abandoned
<1>3. HistoryLoads'
  BY <1>1, <1>2, StoreExtends DEF IInv
<1>4. \A t \in Workers : task[t].pc \notin {"locked", "commit"}
  BY <1>1, TasksAssumption DEF IInv, LockExcludes
<1>5. TasksSound'
  <2>1. ASSUME NEW t \in Workers PROVE Sound(task[t], events', commands')
    <3>1. Sound(task[t], events, commands) /\ task[t].pc # "commit"
      BY <1>4 DEF IInv, TasksSound
    <3> QED
      BY <1>1, <1>2, <3>1, OthersKept
  <2>2. task' = [t \in Workers |-> task'[t]] /\ task' = task
    BY <1>1 DEF IInv, TasksSound
  <2> QED
    BY <2>1, <2>2 DEF TasksSound
<1>6. PrefixView(cache', events') /\ Acknowledged'
  BY <1>1, <1>2, PublishedKept
<1>7. LockExcludes' /\ OrphanFits'
  BY <1>1, <1>4 DEF LockExcludes, OrphanFits, NoTask, Orphan
<1>8. EnvironmentTyped'
  BY <1>1 DEF IInv, EnvironmentTyped
<1> QED
  BY <1>3, <1>5, <1>6, <1>7, <1>8 DEF IInv

\* Steps that leave the workers alone: an aborted session and the clock.
LEMMA QuietEnvironment ==
  ASSUME IInv, OrphanAbort \/ Tick \/ UNCHANGED vars
  PROVE  IInv'
<1>1. /\ UNCHANGED <<task, events, commands, cache, acked, defaults>> /\ clock' \in Times
      /\ \/ UNCHANGED <<lock, orphan>>
         \/ lock = Orphan /\ lock' = NoTask
  BY DEF OrphanAbort, Tick, vars, database, memory, environment, IInv, EnvironmentTyped
<1>2. TasksSound'
  BY <1>1 DEF IInv, TasksSound
<1>3. HistoryLoads'
  BY <1>1 DEF IInv, HistoryLoads, Contiguous, ReceiptsAgree, CommandsWhole, EnrollmentsWhole,
         History, LastRevision
<1>4. PrefixView(cache', events') /\ Acknowledged' /\ EnvironmentTyped'
  BY <1>1 DEF IInv, Acknowledged, EnvironmentTyped
<1>5. LockExcludes' /\ OrphanFits'
  <2>1. CASE UNCHANGED <<lock, orphan>>
    BY <1>1, <2>1 DEF IInv, LockExcludes, OrphanFits
  <2>2. CASE lock = Orphan /\ lock' = NoTask
    BY <1>1, <2>2, TasksAssumption DEF IInv, LockExcludes, OrphanFits, NoTask, Orphan
  <2> QED
    BY <1>1, <2>1, <2>2
<1> QED
  BY <1>2, <1>3, <1>4, <1>5 DEF IInv

\* A guild without history.
LEMMA InitIInv == Init => IInv
<1> SUFFICES ASSUME Init PROVE IInv
  OBVIOUS
<1>1. /\ events = << >> /\ commands = EmptyMap /\ lock = NoTask /\ cache = NoView
      /\ task = [t \in Workers |-> Idle] /\ clock \in Times /\ defaults \in Policies
      /\ acked = {}
  BY DEF Init
<1>2. IsSeq(events) /\ Len(events) = 0 /\ DOMAIN events = {} /\ DOMAIN commands = {}
  BY <1>1, SeqTuples DEF EmptyMap
<1>3. Sound(Idle, events, commands) /\ Idle.pc = "idle"
  BY IdleFields, EarlySound
<1>4. TasksSound
  BY <1>1, <1>3 DEF TasksSound
<1>5. LockExcludes /\ OrphanFits /\ EnvironmentTyped /\ Acknowledged
  BY <1>1, <1>3 DEF LockExcludes, OrphanFits, EnvironmentTyped, Acknowledged, NoTask, Orphan
<1>6. Len(EventsOf(events)) = 0 /\ History = EventsOf(events)
  BY <1>2, EventsOfRows DEF History, EventsOf
<1>7. Replay(EventsOf(events)) = EmptyState
  BY <1>6, ReplayNothing
<1>8. HistoryLoads
  <2>1. IsState(EmptyState)
    BY DEF IsState, EmptyState, IsMap, EmptyMap
  <2> QED
    BY <1>2, <1>6, <1>7, <2>1
    DEF HistoryLoads, Contiguous, ReceiptsAgree, CommandsWhole, EnrollmentsWhole
<1>9. PrefixView(cache, events)
  <2>1. Replay(SubSeq(EventsOf(events), 1, 0)) = EmptyState
    BY <1>2, <1>7, WholePrefix
  <2> QED
    BY <1>1, <1>2, <2>1 DEF PrefixView, NoView
<1> QED
  BY <1>4, <1>5, <1>8, <1>9 DEF IInv

-----------------------------------------------------------------------------
(* The theorems.                                                           *)

\* Every step of the store, its workers and its faults keeps the invariant.
LEMMA NextIInv == IInv /\ [Next]_vars => IInv'
<1> SUFFICES ASSUME IInv, [Next]_vars PROVE IInv'
  OBVIOUS
<1>1. CASE \E t \in Tasks, request \in Requests : Deliver(t, request)
  BY <1>1, DeliverStep
<1>2. ASSUME NEW t \in Workers, Lock(t) \/ Transient(t) \/ Disconnect(t) PROVE IInv'
  BY <1>2, LockStep, FaultStep
<1>3. ASSUME NEW t \in Workers, Step(t) PROVE IInv'
  BY <1>3, PreflightStep, VerifyStep, RecoverStep, TransactStep, ConfigureStep,
     CommitTxStep, RefreshStep, PublishStep, ReplyStep DEF Step
<1>4. CASE Scan \/ Discover \/ IssueGrant
  BY <1>4, GrantDueStep
<1>5. CASE Crash \/ OrphanCommit
  BY <1>5, CrashStep, OrphanCommitStep
<1>6. CASE OrphanAbort \/ Tick \/ UNCHANGED vars
  BY <1>6, QuietEnvironment
<1> QED
  BY <1>1, <1>2, <1>3, <1>4, <1>5, <1>6 DEF Next, Internal

\* The inductive invariant of execute_inner, configure_announcements and grant_due
\* under crashes, lost COMMITs and redeliveries: the advisory lock excludes, what a
\* locked transaction decided fits the end of a history that load accepts, and every
\* view about to be published is a committed prefix that holds the receipt reported.
THEOREM StoreInvariant == Spec => []IInv
<1>1. IInv /\ [Next]_vars => IInv'
  BY NextIInv
<1> QED
  BY <1>1, InitIInv, PTL DEF Spec

\* No transaction that has decided finds its revisions or its receipt taken, and the
\* committed history always loads, for any tasks, requests, faults and clock readings.
THEOREM WritersSerialized == Spec => []WritersNeverCollide
<1>1. IInv => WritersNeverCollide
  <2> SUFFICES ASSUME IInv PROVE WritersNeverCollide
    OBVIOUS
  <2>1. ASSUME NEW t \in Workers, At(t, "commit") PROVE Unique(task[t].writes)
    <3>1. Fits(task[t].writes, task[t].request.key, task[t].request.actor.user,
               events, commands)
      BY <2>1 DEF At, IInv, TasksSound, Sound, CommitFits
    <3> QED
      BY <3>1, FitsUnique DEF IInv
  <2>2. ASSUME lock = Orphan PROVE Unique(orphan)
    <3>1. PICK k : Fits(orphan, k, orphan.receipts[k].actor, events, commands)
      BY <2>2 DEF IInv, OrphanFits, Abandoned
    <3> QED
      BY <3>1, FitsUnique DEF IInv
  <2>3. Loads
    BY StateIsValid DEF IInv, HistoryLoads, Loads
  <2> QED
    BY <2>1, <2>2, <2>3 DEF WritersNeverCollide
<1> QED
  BY <1>1, StoreInvariant, PTL

\* A reported success is committed under the member's name and in the published view,
\* which is always a committed prefix, whatever was redelivered, retried or lost.
THEOREM WritesAreRead == Spec => []ReadYourWrites
<1>1. IInv => ReadYourWrites
  <2> SUFFICES ASSUME IInv PROVE ReadYourWrites
    OBVIOUS
  <2>1. /\ cache.revision \in 0 .. Len(events)
        /\ cache.state = Replay(SubSeq(History, 1, cache.revision))
    BY DEF IInv, PrefixView, History, EventsOf
  <2>2. Len(events) \in Nat
    BY SeqFacts DEF IInv, HistoryLoads
  <2>3. cache.revision <= LastRevision
    BY <2>1, <2>2 DEF LastRevision
  <2> QED
    BY <2>1, <2>3 DEF ReadYourWrites, IInv, Acknowledged
<1> QED
  BY <1>1, StoreInvariant, PTL
-----------------------------------------------------------------------------
(* The refinement.  Economy's instance of Domain is Domain: every decision *)
(* the store takes is one that Economy takes.                              *)

\* Sums over functions.

LEMMA SameSums ==
  /\ \A f, S : Abstract!SumFunctionOnSet(f, S) = SumFunctionOnSet(f, S)
  /\ \A f : Abstract!SumFunction(f) = SumFunction(f)
  BY DEF Abstract!SumFunctionOnSet, SumFunctionOnSet, Abstract!FoldFunctionOnSet,
         FoldFunctionOnSet, Abstract!MapThenFoldSet, MapThenFoldSet,
         Abstract!SumFunction, SumFunction

\* Sums of stakes.
LEMMA SameStakes ==
  /\ \A m, O : Abstract!Stakes(m, O) = Stakes(m, O)
  /\ \A m : Abstract!AllStakes(m) = AllStakes(m)
  BY DEF Abstract!SumFunctionOnSet, SumFunctionOnSet, Abstract!FoldFunctionOnSet,
         FoldFunctionOnSet, Abstract!MapThenFoldSet, MapThenFoldSet,
         Abstract!Stakes, Stakes, Abstract!AllStakes, AllStakes

\* Who has staked on a market, and whether anybody won.
LEMMA SameRecipients ==
  /\ \A x : Abstract!Recipients(x) = Recipients(x)
  /\ \A m, o : Abstract!NoWinners(m, o) = NoWinners(m, o)
  BY SameStakes DEF Abstract!Recipients, Recipients, Abstract!NoWinners, NoWinners

\* The number of recipients.
LEMMA SameCardinality == \A S : Abstract!Cardinality(S) = Cardinality(S)
  BY DEF Abstract!Cardinality, Cardinality, Abstract!IsFiniteSet, IsFiniteSet

\* What a resolution pays.
LEMMA SamePayouts == \A m, o : Abstract!Payouts(m, o) = Payouts(m, o)
<1>1. \A m, o : Abstract!WinningPayouts(m, o) = WinningPayouts(m, o)
  BY DEF Abstract!WinningPayouts, WinningPayouts, Abstract!Stakes, Stakes,
         Abstract!Recipients, Recipients,
         Abstract!SumFunction, SumFunction, Abstract!SumFunctionOnSet, SumFunctionOnSet,
         Abstract!FoldFunctionOnSet, FoldFunctionOnSet, Abstract!MapThenFoldSet, MapThenFoldSet,
         Abstract!Cardinality, Cardinality, Abstract!IsFiniteSet, IsFiniteSet
<1> QED
  BY <1>1, SameStakes, SameRecipients DEF Abstract!Payouts, Payouts

\* Crediting accounts.
LEMMA SameCredit ==
  /\ \A a, x : Abstract!Creditable(a, x) = Creditable(a, x)
  /\ \A a, x : Abstract!Credit(a, x) = Credit(a, x)
  BY DEF Abstract!Creditable, Creditable, Abstract!Credit, Credit, Abstract!Points, Points,
         Abstract!Recipients, Recipients

\* The checks of the events that settle nothing.
LEMMA SameChecks ==
  /\ \A s, e : Abstract!CanInitialize(s, e) = CanInitialize(s, e)
  /\ \A s, e : Abstract!CanEnroll(s, e) = CanEnroll(s, e)
  /\ \A s, e : Abstract!CanGrant(s, e) = CanGrant(s, e)
  /\ \A s, e : Abstract!CanCreateMarket(s, e) = CanCreateMarket(s, e)
  /\ \A s, e : Abstract!CanBet(s, e) = CanBet(s, e)
  /\ \A s, e : Abstract!CanChangeResolver(s, e) = CanChangeResolver(s, e)
  BY DEF Abstract!CanInitialize, CanInitialize, Abstract!CanEnroll, CanEnroll,
         Abstract!CanGrant, CanGrant, Abstract!CanCreateMarket, CanCreateMarket,
         Abstract!CanBet, CanBet,
         Abstract!CanChangeResolver, CanChangeResolver, Abstract!PositivePolicy, PositivePolicy,
         Abstract!NoPolicy, NoPolicy, Abstract!System, System, Abstract!GrantCount, GrantCount,
         Abstract!ValidMarket, ValidMarket

\* The checks of the events that settle a market.
LEMMA SameSettlementChecks ==
  /\ \A s, e : Abstract!CanCancel(s, e) = CanCancel(s, e)
  /\ \A s, e : Abstract!CanResolve(s, e) = CanResolve(s, e)
<1>1. \A s, e : Abstract!CanCancel(s, e) = CanCancel(s, e)
  BY SameStakes, SameCredit, Zenon DEF Abstract!CanCancel, CanCancel, Abstract!System, System
<1>2. \A s, e : Abstract!CanResolve(s, e) = CanResolve(s, e)
  BY SameStakes, SameCredit, SameSums, SameRecipients, SameCardinality
  DEF Abstract!CanResolve, CanResolve, Abstract!System, System
<1> QED
  BY <1>1, <1>2

\* What an applied event changes.
LEMMA SameEffect == \A s, e : Abstract!Effect(s, e) = Effect(s, e)
<1>1. \A s, e : /\ Abstract!ApplyEnrollment(s, e) = ApplyEnrollment(s, e)
                /\ Abstract!ApplyGrant(s, e) = ApplyGrant(s, e)
                /\ Abstract!NewMarket(e) = NewMarket(e)
  BY DEF Abstract!ApplyEnrollment, ApplyEnrollment, Abstract!Insert, Insert,
         Abstract!ApplyGrant, ApplyGrant, Abstract!NewMarket, NewMarket
<1>2. \A s, e : Abstract!ApplyBet(s, e) = ApplyBet(s, e)
  BY DEF Abstract!ApplyBet, ApplyBet, Abstract!Debited, Debited, Abstract!Staked, Staked
<1>3. \A s, e : /\ Abstract!ApplyResolution(s, e) = ApplyResolution(s, e)
                /\ Abstract!ApplyResolverChange(s, e) = ApplyResolverChange(s, e)
                /\ Abstract!ApplyCancellation(s, e) = ApplyCancellation(s, e)
  BY DEF Abstract!ApplyResolution, ApplyResolution, Abstract!Credit, Credit,
         Abstract!ApplyResolverChange, ApplyResolverChange,
         Abstract!ApplyCancellation, ApplyCancellation
<1>4. \A f, k, v : Abstract!Insert(f, k, v) = Insert(f, k, v)
  BY DEF Abstract!Insert, Insert
<1> QED
  BY <1>1, <1>2, <1>3, <1>4 DEF Abstract!Effect, Effect

\* Whether an event applies.
LEMMA SameApplicable == \A s, e : Abstract!Applicable(s, e) = Applicable(s, e)
  BY SameChecks, SameSettlementChecks DEF Abstract!Applicable, Applicable, Abstract!System, System

\* Applying events, one or a decision.
LEMMA SameApply ==
  /\ \A s, e : Abstract!Apply(s, e) = Apply(s, e)
  /\ \A s, d : Abstract!ApplyDecision(s, d) = ApplyDecision(s, d)
  /\ \A s, d : Abstract!Finish(s, d) = Finish(s, d)
<1>1. \A s, e : Abstract!Apply(s, e) = Apply(s, e)
  BY SameApplicable, SameEffect DEF Abstract!Apply, Apply, Abstract!Invalid, Invalid
<1>2. \A s, d, n : Abstract!ApplyNth(s, d, n) = ApplyNth(s, d, n)
  BY <1>1 DEF Abstract!ApplyNth, ApplyNth
<1>3. \A s, d : Abstract!ApplyDecision(s, d) = ApplyDecision(s, d)
  BY <1>2 DEF Abstract!ApplyDecision, ApplyDecision
<1>4. \A s, d : Abstract!Finish(s, d) = Finish(s, d)
  BY <1>3 DEF Abstract!Finish, Finish, Abstract!Invalid, Invalid
<1> QED
  BY <1>1, <1>3, <1>4

\* decide_join and decide_grant.
LEMMA SameJoin ==
  /\ \A s, a, t, p : Abstract!DecideJoin(s, a, t, p) = DecideJoin(s, a, t, p)
  /\ \A s, a, u, t : Abstract!DecideGrant(s, a, u, t) = DecideGrant(s, a, u, t)
  /\ Abstract!SystemActor = SystemActor
<1>1. \A s, a, t, p : Abstract!DecideJoin(s, a, t, p) = DecideJoin(s, a, t, p)
  BY SameApply DEF Abstract!DecideJoin, DecideJoin, Abstract!Human, Human, Abstract!System, System,
     Abstract!NoPolicy, NoPolicy, Abstract!PositivePolicy, PositivePolicy
<1>2. \A s, a, u, t : Abstract!DecideGrant(s, a, u, t) = DecideGrant(s, a, u, t)
  BY SameApply
  DEF Abstract!DecideGrant, DecideGrant, Abstract!DueGrant, DueGrant, Abstract!System,
      System, Abstract!NoPolicy, NoPolicy
<1> QED
  BY <1>1, <1>2 DEF Abstract!SystemActor, SystemActor, Abstract!System, System

\* decide_create, decide_bet, decide_resolve and decide_cancel.
LEMMA SameMarketDecisions ==
  /\ \A s, a, id, n, c, t :
        Abstract!DecideCreate(s, a, id, n, c, t) = DecideCreate(s, a, id, n, c, t)
  /\ \A s, a, id, o, n, t :
        Abstract!DecideBet(s, a, id, o, n, t) = DecideBet(s, a, id, o, n, t)
  /\ \A s, a, id, o, t, e :
        Abstract!DecideResolve(s, a, id, o, t, e) = DecideResolve(s, a, id, o, t, e)
  /\ \A s, a, id, t : Abstract!DecideCancel(s, a, id, t) = DecideCancel(s, a, id, t)
<1>1. \A s, a, id, n, c, t :
        Abstract!DecideCreate(s, a, id, n, c, t) = DecideCreate(s, a, id, n, c, t)
  BY SameApply
  DEF Abstract!DecideCreate, DecideCreate, Abstract!Human, Human, Abstract!System, System,
      Abstract!ValidMarket, ValidMarket
<1>2. \A s, a, id, o, n, t :
        Abstract!DecideBet(s, a, id, o, n, t) = DecideBet(s, a, id, o, n, t)
  BY SameApply DEF Abstract!DecideBet, DecideBet, Abstract!Human, Human, Abstract!System, System,
     Abstract!OpenForBetting, OpenForBetting
<1>3. \A s, a, id, o, t, e :
        Abstract!DecideResolve(s, a, id, o, t, e) = DecideResolve(s, a, id, o, t, e)
  BY SameApply, SamePayouts, SameRecipients
  DEF Abstract!DecideResolve, DecideResolve, Abstract!Human, Human, Abstract!System, System,
      Abstract!MayResolve, MayResolve, Abstract!PresentHuman, PresentHuman,
      Abstract!ReadyToResolve, ReadyToResolve
<1>4. \A s, a, id, t : Abstract!DecideCancel(s, a, id, t) = DecideCancel(s, a, id, t)
  BY SameApply, SameStakes
  DEF Abstract!DecideCancel, DecideCancel, Abstract!Human, Human, Abstract!System, System
<1> QED
  BY <1>1, <1>2, <1>3, <1>4

\* decide_add_resolver and decide_remove_resolver.
LEMMA SameResolverDecisions ==
  /\ \A s, a, id, u, t, e :
        Abstract!DecideAddResolver(s, a, id, u, t, e) = DecideAddResolver(s, a, id, u, t, e)
  /\ \A s, a, id, u, t :
        Abstract!DecideRemoveResolver(s, a, id, u, t) = DecideRemoveResolver(s, a, id, u, t)
  BY SameApply
  DEF Abstract!DecideAddResolver, DecideAddResolver,
      Abstract!DecideRemoveResolver, DecideRemoveResolver,
      Abstract!Human, Human, Abstract!System, System,
      Abstract!MayManageResolvers, MayManageResolvers, Abstract!PresentHuman, PresentHuman

-----------------------------------------------------------------------------
(* What Projection adds up.                                                *)

\* The events that Projection adds up, what each contributes, and the total of a member.
Counted == {"MemberEnrolled", "PointsGranted"}
Figure(event) == IF event.type = "MemberEnrolled" THEN event.enrolled_at ELSE event.amount
About(rows, type, u) ==
    {i \in DOMAIN rows : rows[i].event.type = type /\ rows[i].event.user = u}
Total(rows, type, u) == SumFunction([i \in About(rows, type, u) |-> Figure(rows[i].event)])

\* Every row that counts has a figure.
Figures(rows) ==
    \A i \in DOMAIN rows : rows[i].event.type \in Counted => Figure(rows[i].event) \in Nat

\* Positions after n more rows.
Shifted(S, n) == {n + j : j \in S}

\* The fields of the abstract state.
LEMMA ProjectionFields ==
  ASSUME NEW rows, NEW accepted
  PROVE  Projection(rows, accepted) =
            [state |-> Replay(EventsOf(rows)), accepted |-> accepted,
             enrolled_at |-> [u \in Users |-> Total(rows, "MemberEnrolled", u)],
             granted |-> [u \in Users |-> Total(rows, "PointsGranted", u)]]
<1>1. ASSUME NEW u
      PROVE  /\ [i \in About(rows, "MemberEnrolled", u) |-> Figure(rows[i].event)]
                = [i \in About(rows, "MemberEnrolled", u) |-> rows[i].event.enrolled_at]
             /\ [i \in About(rows, "PointsGranted", u) |-> Figure(rows[i].event)]
                = [i \in About(rows, "PointsGranted", u) |-> rows[i].event.amount]
  BY DEF About, Figure
<1>2. /\ [u \in Users |-> Total(rows, "MemberEnrolled", u)] =
           [u \in Users |-> SumFunction(
              [i \in About(rows, "MemberEnrolled", u) |-> rows[i].event.enrolled_at])]
      /\ [u \in Users |-> Total(rows, "PointsGranted", u)] =
           [u \in Users |-> SumFunction(
              [i \in About(rows, "PointsGranted", u) |-> rows[i].event.amount])]
  BY <1>1 DEF Total
<1> QED
  BY <1>2, Zenon DEF Projection, EventsOf, About

\* The rows about a member after a COMMIT.
LEMMA AboutConcat ==
  ASSUME NEW rows, NEW more, IsSeq(rows), IsSeq(more), NEW type, NEW u
  PROVE  About(rows \o more, type, u) =
            About(rows, type, u) \cup Shifted(About(more, type, u), Len(rows))
<1> DEFINE n == Len(rows)
           m == Len(more)
           c == rows \o more
<1>1. n \in Nat /\ m \in Nat /\ DOMAIN rows = 1 .. n /\ DOMAIN more = 1 .. m
  BY SeqFacts
<1>2. /\ DOMAIN c = 1 .. n + m
      /\ \A i \in 1 .. n : c[i] = rows[i]
      /\ \A i \in 1 .. m : c[n + i] = more[i]
  BY SeqConcat
<1> HIDE DEF n, m, c
<1>3. ASSUME NEW i \in About(c, type, u)
      PROVE  i \in About(rows, type, u) \/ \E j \in About(more, type, u) : i = n + j
  <2>1. i \in 1 .. n + m
    BY <1>2 DEF About
  <2>2. CASE i \in 1 .. n
    BY <1>1, <1>2, <2>2 DEF About
  <2>3. CASE i > n
    <3>1. i - n \in 1 .. m /\ i = n + (i - n)
      BY <1>1, <2>1, <2>3
    <3>2. c[i] = more[i - n]
      BY <1>2, <3>1
    <3> QED
      BY <1>1, <3>1, <3>2 DEF About
  <2> QED
    BY <1>1, <2>1, <2>2, <2>3
<1>4. ASSUME NEW i \in About(rows, type, u) PROVE i \in About(c, type, u) /\ c[i] = rows[i]
  <2>1. i \in 1 .. n /\ i \in 1 .. n + m
    BY <1>1 DEF About
  <2> QED
    BY <1>2, <2>1 DEF About
<1>5. ASSUME NEW j \in About(more, type, u)
      PROVE  n + j \in About(c, type, u) /\ c[n + j] = more[j] /\ n + j \notin DOMAIN rows
  <2>1. j \in 1 .. m /\ n + j \in 1 .. n + m /\ n + j \notin 1 .. n
    BY <1>1 DEF About
  <2> QED
    BY <1>1, <1>2, <2>1 DEF About
<1>6. About(c, type, u) = About(rows, type, u) \cup {n + j : j \in About(more, type, u)}
  BY <1>3, <1>4, <1>5
<1> QED
  BY <1>4, <1>5, <1>6 DEF n, c, Shifted

\* Where the old rows are after a COMMIT.
LEMMA RowKept ==
  ASSUME NEW rows, NEW more, IsSeq(rows), IsSeq(more), NEW i \in DOMAIN rows
  PROVE  (rows \o more)[i] = rows[i]
  BY SeqFacts, SeqConcat

\* Where the new rows are.
LEMMA RowAppended ==
  ASSUME NEW rows, NEW more, IsSeq(rows), IsSeq(more), NEW j \in DOMAIN more
  PROVE  (rows \o more)[Len(rows) + j] = more[j] /\ Len(rows) + j \notin DOMAIN rows
<1>1. /\ Len(rows) \in Nat /\ DOMAIN rows = 1 .. Len(rows)
      /\ Len(more) \in Nat /\ DOMAIN more = 1 .. Len(more)
  BY SeqFacts
<1>2. (rows \o more)[Len(rows) + j] = more[j]
  BY <1>1, SeqConcat
<1>3. j \in Nat /\ j > 0
  BY <1>1
<1> QED
  BY <1>1, <1>2, <1>3

\* Rows that say nothing of a member leave the total alone.
LEMMA TotalKept ==
  ASSUME NEW rows, NEW more, IsSeq(rows), IsSeq(more), NEW type, NEW u,
         \A j \in DOMAIN more : ~(more[j].event.type = type /\ more[j].event.user = u)
  PROVE  Total(rows \o more, type, u) = Total(rows, type, u)
<1>1. About(more, type, u) = {}
  BY DEF About
<1>2. About(rows \o more, type, u) =
            About(rows, type, u) \cup Shifted(About(more, type, u), Len(rows))
  BY AboutConcat
<1>3. \A i \in About(rows, type, u) : (rows \o more)[i] = rows[i]
  BY RowKept DEF About
<1>4. About(rows \o more, type, u) = About(rows, type, u)
  BY <1>1, <1>2 DEF Shifted
<1>5. [i \in About(rows \o more, type, u) |-> Figure((rows \o more)[i].event)]
      = [i \in About(rows, type, u) |-> Figure(rows[i].event)]
  BY <1>3, <1>4
<1> QED
  BY <1>5 DEF Total

\* One row about the member adds its figure.
LEMMA TotalAdds ==
  ASSUME NEW rows, NEW more, IsSeq(rows), IsSeq(more), NEW type \in Counted, NEW u,
         NEW j \in DOMAIN more, more[j].event.type = type, more[j].event.user = u,
         \A i \in DOMAIN more : more[i].event.type = type => i = j,
         Figures(rows), Figure(more[j].event) \in Nat
  PROVE  Total(rows \o more, type, u) = Total(rows, type, u) + Figure(more[j].event)
<1> DEFINE S == About(rows, type, u)
           c == rows \o more
           y == Len(rows) + j
           f == [i \in S |-> Figure(rows[i].event)]
           g == [i \in S \cup {y} |-> Figure(c[i].event)]
<1>1. About(more, type, u) = {j}
  BY DEF About
<1>2. /\ About(c, type, u) = S \cup {y} /\ \A i \in S : c[i] = rows[i]
      /\ c[y] = more[j] /\ y \notin DOMAIN rows
  <2>1. About(c, type, u) = S \cup Shifted(About(more, type, u), Len(rows))
    BY AboutConcat
  <2>2. c[y] = more[j] /\ y \notin DOMAIN rows
    BY RowAppended
  <2>3. \A i \in S : c[i] = rows[i]
    BY RowKept DEF About
  <2> HIDE DEF S, c
  <2> QED
    BY <1>1, <2>1, <2>2, <2>3 DEF Shifted
<1>3. IsFiniteSet(S) /\ y \notin S
  <2>1. DOMAIN rows = 1 .. Len(rows) /\ Len(rows) \in Nat
    BY SeqFacts
  <2>2. IsFiniteSet(1 .. Len(rows))
    BY <2>1, FS_Interval
  <2>3. S \subseteq 1 .. Len(rows)
    BY <2>1 DEF About
  <2> QED
    BY <1>2, <2>1, <2>2, <2>3, FS_Subset
<1>4. \A i \in S : Figure(rows[i].event) \in Nat
  BY DEF Figures, About
<1> HIDE DEF S, c, y
<1>5. \A i \in S : f[i] = g[i] /\ g[i] \in Int
  BY <1>2, <1>4
<1>6. g[y] = Figure(more[j].event) /\ g[y] \in Int
  BY <1>2
<1>7. DOMAIN f = S /\ DOMAIN g = S \cup {y}
  OBVIOUS
<1> HIDE DEF f, g
<1>8. SumFunctionOnSet(g, S \cup {y}) = g[y] + SumFunctionOnSet(g, S)
  BY <1>3, <1>5, <1>6, SumInsert
<1>9. SumFunctionOnSet(f, S) = SumFunctionOnSet(g, S) /\ SumFunctionOnSet(g, S) \in Int
  BY <1>3, <1>5, SumSame, SumRemove
<1>10. /\ Total(c, type, u) = SumFunctionOnSet(g, S \cup {y})
       /\ Total(rows, type, u) = SumFunctionOnSet(f, S)
  BY <1>2, <1>7 DEF Total, SumFunction, f, g, S
<1> QED
  BY <1>6, <1>8, <1>9, <1>10 DEF c

\* Rows that have their figures keep them.
LEMMA FiguresKept ==
  ASSUME NEW rows, NEW more, IsSeq(rows), IsSeq(more), Figures(rows),
         \A i \in DOMAIN more : more[i].event.type \in Counted => Figure(more[i].event) \in Nat
  PROVE  Figures(rows \o more)
<1> DEFINE c == rows \o more
<1>1. /\ Len(rows) \in Nat /\ DOMAIN rows = 1 .. Len(rows)
      /\ DOMAIN more = 1 .. Len(more) /\ Len(more) \in Nat
  BY SeqFacts
<1>2. DOMAIN c = 1 .. Len(rows) + Len(more)
  BY SeqConcat
<1>3. \A i \in DOMAIN rows : c[i] = rows[i]
  BY RowKept
<1>4. \A j \in DOMAIN more : c[Len(rows) + j] = more[j]
  BY RowAppended
<1> HIDE DEF c
<1>5. ASSUME NEW i \in DOMAIN c, c[i].event.type \in Counted PROVE Figure(c[i].event) \in Nat
  <2>1. CASE i \in DOMAIN rows
    BY <1>3, <1>5, <2>1 DEF Figures
  <2>2. CASE i \notin DOMAIN rows
    <3>1. i - Len(rows) \in DOMAIN more /\ i = Len(rows) + (i - Len(rows))
      BY <1>1, <1>2, <2>2
    <3>2. c[i] = more[i - Len(rows)]
      BY <1>4, <3>1
    <3> QED
      BY <1>5, <3>1, <3>2
  <2> QED
    BY <2>1, <2>2
<1>6. Figures(c)
  BY <1>5 DEF Figures
<1> QED
  BY <1>6 DEF c

\* Events that neither enroll nor grant.
Quiet(d) == d = << >> \/ \E e : d = <<e>> /\ e.type \notin Counted

\* Rows that neither enroll nor grant leave every total.
LEMMA QuietTotals ==
  ASSUME NEW rows, NEW more, IsSeq(rows), IsSeq(more), Quiet(EventsOf(more))
  PROVE  /\ \A u : \A type \in Counted : Total(rows \o more, type, u) = Total(rows, type, u)
         /\ Figures(rows) => Figures(rows \o more)
<1>1. DOMAIN more = 1 .. Len(more) /\ Len(more) \in Nat
  BY SeqFacts
<1>2. Len(EventsOf(more)) = Len(more) /\ \A i \in 1 .. Len(more) : EventsOf(more)[i] = more[i].event
  BY EventsOfRows
<1>3. \A i \in DOMAIN more : more[i].event.type \notin Counted
  <2>1. CASE EventsOf(more) = << >>
    BY <1>1, <1>2, <2>1
  <2>2. ASSUME NEW e, EventsOf(more) = <<e>>, e.type \notin Counted
        PROVE  \A i \in DOMAIN more : more[i].event.type \notin Counted
    <3>1. Len(more) = 1 /\ EventsOf(more)[1] = e
      BY <1>2, <2>2
    <3> QED
      BY <1>1, <1>2, <2>2, <3>1
  <2> QED
    BY <2>1, <2>2 DEF Quiet
<1>4. \A u : \A type \in Counted : Total(rows \o more, type, u) = Total(rows, type, u)
  BY <1>3, TotalKept
<1>5. ASSUME Figures(rows) PROVE Figures(rows \o more)
  BY <1>3, <1>5, FiguresKept
<1> QED
  BY <1>4, <1>5

\* A total is a number.
LEMMA TotalInt ==
  ASSUME NEW rows, IsSeq(rows), Figures(rows), NEW type \in Counted, NEW u
  PROVE  Total(rows, type, u) \in Int
<1> DEFINE S == About(rows, type, u)
           f == [i \in S |-> Figure(rows[i].event)]
<1>1. DOMAIN rows = 1 .. Len(rows) /\ Len(rows) \in Nat
  BY SeqFacts
<1>2. IsFiniteSet(S)
  <2>1. IsFiniteSet(1 .. Len(rows)) /\ S \subseteq 1 .. Len(rows)
    BY <1>1, FS_Interval DEF About
  <2> QED
    BY <2>1, FS_Subset
<1>3. \A i \in S : f[i] \in Int
  BY DEF Figures, About
<1>4. DOMAIN f = S /\ Total(rows, type, u) = SumFunctionOnSet(f, DOMAIN f)
  BY DEF Total, SumFunction
<1> HIDE DEF f, S
<1> QED
  BY <1>2, <1>3, <1>4, SumRemove

\* The totals after the row of a periodic grant.
LEMMA GrantTotals ==
  ASSUME NEW rows, NEW more, IsSeq(rows), IsSeq(more), Figures(rows),
         NEW g, EventsOf(more) = <<g>>, g.type = "PointsGranted", g.amount \in Nat
  PROVE  /\ \A v : Total(rows \o more, "MemberEnrolled", v) = Total(rows, "MemberEnrolled", v)
         /\ \A v : Total(rows \o more, "PointsGranted", v) =
                    Total(rows, "PointsGranted", v) + (IF v = g.user THEN g.amount ELSE 0)
         /\ Figures(rows \o more)
<1>1. DOMAIN more = 1 .. Len(more) /\ Len(more) \in Nat
  BY SeqFacts
<1>2. Len(EventsOf(more)) = Len(more) /\ \A i \in 1 .. Len(more) : EventsOf(more)[i] = more[i].event
  BY EventsOfRows
<1>3. Len(more) = 1 /\ EventsOf(more)[1] = g
  BY <1>2
<1>4. 1 \in DOMAIN more /\ more[1].event = g /\ \A i \in DOMAIN more : i = 1
  BY <1>1, <1>2, <1>3
<1>5. Figure(g) = g.amount
  BY DEF Figure
<1>6. \A v : Total(rows \o more, "MemberEnrolled", v) = Total(rows, "MemberEnrolled", v)
  BY <1>4, TotalKept
<1>7. Total(rows \o more, "PointsGranted", g.user) =
            Total(rows, "PointsGranted", g.user) + g.amount
  BY <1>4, <1>5, TotalAdds DEF Counted
<1>8. ASSUME NEW v, v # g.user
      PROVE  Total(rows \o more, "PointsGranted", v) = Total(rows, "PointsGranted", v)
  BY <1>4, <1>8, TotalKept
<1>9. \A v : Total(rows, "PointsGranted", v) \in Int
  BY TotalInt DEF Counted
<1>10. Figures(rows \o more)
  BY <1>4, <1>5, FiguresKept
<1>11. ASSUME NEW v
      PROVE  Total(rows \o more, "PointsGranted", v) =
                Total(rows, "PointsGranted", v) + (IF v = g.user THEN g.amount ELSE 0)
  <2>1. CASE v = g.user
    BY <1>7, <2>1
  <2>2. CASE v # g.user
    BY <1>8, <1>9, <2>2
  <2> QED
    BY <2>1, <2>2
<1> QED
  BY <1>6, <1>10, <1>11

-----------------------------------------------------------------------------
(* What the commands record.                                               *)

\* Who sends commands.
Senders == {request.actor : request \in Requests}

\* A command about a market that is accepted with the events d.
Changes(s, d, actor, time) ==
    \E id \in Markets :
        \/ d \in DecideCancel(s, actor, id, time)
        \/ \E command \in CommandsOf("Create") :
                d \in DecideCreate(s, actor, id, command.options, command.closes_at, time)
        \/ \E outcome \in Outcomes, command \in CommandsOf("Bet") :
                d \in DecideBet(s, actor, id, outcome, command.amount, time)
        \/ \E outcome \in Outcomes, membership \in Evidence :
                d \in DecideResolve(s, actor, id, outcome, time, membership)
        \/ \E user \in Users, membership \in Evidence :
                d \in DecideAddResolver(s, actor, id, user, time, membership)
        \/ \E user \in Users : d \in DecideRemoveResolver(s, actor, id, user, time)

\* A command of Economy.
Commanded(s, d, time) ==
    /\ time \in Times
    /\ \/ \E user \in Users : d \in DecideGrant(s, SystemActor, user, time)
       \/ \E actor \in Senders, policy \in Policies : d \in DecideJoin(s, actor, time, policy)
       \/ \E actor \in Senders : Changes(s, d, actor, time)

MarketEvents == {"MarketCreated", "BetPlaced", "MarketResolved", "MarketResolverAdded",
                 "MarketResolverRemoved", "MarketCancelled"}

\* What happens to a market leaves the members.
LEMMA MarketEventMembers ==
  ASSUME NEW s, IsState(s), NEW e, e.type \in MarketEvents
  PROVE  DOMAIN Effect(s, e).accounts = DOMAIN s.accounts
<1>0. s = [policy |-> s.policy, accounts |-> s.accounts, markets |-> s.markets]
  BY DEF IsState
<1>1. CASE e.type = "MarketCreated"
  <2>1. Effect(s, e) = [s EXCEPT !.markets = Insert(@, e.id, NewMarket(e))]
    BY <1>1 DEF Effect
  <2> QED
    BY <1>0, <2>1
<1>2. CASE e.type = "BetPlaced"
  <2>1. Effect(s, e) = ApplyBet(s, e)
    BY <1>2 DEF Effect
  <2> QED
    BY <1>0, <2>1 DEF ApplyBet
<1>3. CASE e.type = "MarketResolved"
  <2>1. Effect(s, e) = ApplyResolution(s, e)
    BY <1>3 DEF Effect
  <2> QED
    BY <1>0, <2>1 DEF ApplyResolution, Credit
<1>4. CASE e.type \in {"MarketResolverAdded", "MarketResolverRemoved"}
  <2>1. Effect(s, e) = ApplyResolverChange(s, e)
    BY <1>4 DEF Effect
  <2> QED
    BY <1>0, <2>1 DEF ApplyResolverChange
<1>5. CASE e.type = "MarketCancelled"
  <2>1. Effect(s, e) = ApplyCancellation(s, e)
    BY <1>5 DEF Effect
  <2> QED
    BY <1>0, <2>1 DEF ApplyCancellation, Credit
<1> QED
  BY <1>1, <1>2, <1>3, <1>4, <1>5 DEF MarketEvents

\* A command about a market records at most one event, and no member.
LEMMA ChangesQuiet ==
  ASSUME NEW s, IsState(s), NEW d, NEW actor, NEW time, Changes(s, d, actor, time)
  PROVE  Quiet(d) /\ DOMAIN ApplyDecision(s, d).accounts = DOMAIN s.accounts
<1>1. d \in Finish(s, << >>) \/ \E e : e.type \in MarketEvents /\ d \in Finish(s, <<e>>)
  <2>1. PICK id \in Markets :
        \/ d \in DecideCancel(s, actor, id, time)
        \/ \E command \in CommandsOf("Create") :
                d \in DecideCreate(s, actor, id, command.options, command.closes_at, time)
        \/ \E outcome \in Outcomes, command \in CommandsOf("Bet") :
                d \in DecideBet(s, actor, id, outcome, command.amount, time)
        \/ \E outcome \in Outcomes, membership \in Evidence :
                d \in DecideResolve(s, actor, id, outcome, time, membership)
        \/ \E user \in Users, membership \in Evidence :
                d \in DecideAddResolver(s, actor, id, user, time, membership)
        \/ \E user \in Users : d \in DecideRemoveResolver(s, actor, id, user, time)
    BY DEF Changes
  <2>2. CASE d \in DecideCancel(s, actor, id, time)
    <3> DEFINE e == [type |-> "MarketCancelled", id |-> id, moderator |-> actor.user,
                     cancelled_at |-> time, refunds |-> AllStakes(s.markets[id])]
    <3>1. e.type \in MarketEvents /\ d \in Finish(s, <<e>>)
      BY <2>2 DEF DecideCancel, MarketEvents
    <3> QED
      BY <3>1
  <2>3. ASSUME NEW n, NEW c, d \in DecideCreate(s, actor, id, n, c, time)
        PROVE  \E e : e.type \in MarketEvents /\ d \in Finish(s, <<e>>)
    <3> DEFINE e == [type |-> "MarketCreated", id |-> id, creator |-> actor.user,
                      options |-> n, created_at |-> time, closes_at |-> c]
    <3>1. e.type \in MarketEvents /\ d \in Finish(s, <<e>>)
      BY <2>3 DEF DecideCreate, MarketEvents
    <3> QED
      BY <3>1
  <2>4. ASSUME NEW o, NEW n, d \in DecideBet(s, actor, id, o, n, time)
        PROVE  \E e : e.type \in MarketEvents /\ d \in Finish(s, <<e>>)
    <3> DEFINE e == [type |-> "BetPlaced", id |-> id, user |-> actor.user,
                      outcome |-> o, amount |-> n, accepted_at |-> time]
    <3>1. e.type \in MarketEvents /\ d \in Finish(s, <<e>>)
      BY <2>4 DEF DecideBet, MarketEvents
    <3> QED
      BY <3>1
  <2>5. ASSUME NEW o, NEW m, d \in DecideResolve(s, actor, id, o, time, m)
        PROVE  \E e : e.type \in MarketEvents /\ d \in Finish(s, <<e>>)
    <3> DEFINE e == [type |-> "MarketResolved", id |-> id, outcome |-> o,
                      resolver |-> actor.user, settled_at |-> time,
                      payouts |-> Payouts(s.markets[id], o),
                      refunded |-> NoWinners(s.markets[id], o)]
    <3>1. e.type \in MarketEvents /\ d \in Finish(s, <<e>>)
      BY <2>5 DEF DecideResolve, MarketEvents
    <3> QED
      BY <3>1
  <2>6. ASSUME NEW u, NEW m, d \in DecideAddResolver(s, actor, id, u, time, m)
        PROVE  d \in Finish(s, << >>) \/ \E e : e.type \in MarketEvents /\ d \in Finish(s, <<e>>)
    <3> DEFINE e == [type |-> "MarketResolverAdded", id |-> id, user |-> u,
                           by |-> actor.user, at |-> time]
    <3>1. e.type \in MarketEvents /\ (d \in Finish(s, << >>) \/ d \in Finish(s, <<e>>))
      BY <2>6 DEF DecideAddResolver, MarketEvents
    <3> QED
      BY <3>1
  <2>7. ASSUME NEW u, d \in DecideRemoveResolver(s, actor, id, u, time)
        PROVE  d \in Finish(s, << >>) \/ \E e : e.type \in MarketEvents /\ d \in Finish(s, <<e>>)
    <3> DEFINE e == [type |-> "MarketResolverRemoved", id |-> id, user |-> u,
                           by |-> actor.user, at |-> time]
    <3>1. e.type \in MarketEvents /\ (d \in Finish(s, << >>) \/ d \in Finish(s, <<e>>))
      BY <2>7 DEF DecideRemoveResolver, MarketEvents
    <3> QED
      BY <3>1
  <2> QED
    BY <2>1, <2>2, <2>3, <2>4, <2>5, <2>6, <2>7
<1>2. CASE d \in Finish(s, << >>)
  BY <1>2, FinishNone DEF Quiet
<1>3. ASSUME NEW e, e.type \in MarketEvents, d \in Finish(s, <<e>>)
      PROVE  Quiet(d) /\ DOMAIN ApplyDecision(s, d).accounts = DOMAIN s.accounts
  <2>1. d = <<e>> /\ ApplyDecision(s, d) = Effect(s, e)
    BY <1>3, FinishOne
  <2>2. DOMAIN Effect(s, e).accounts = DOMAIN s.accounts
    BY <1>3, MarketEventMembers
  <2>3. e.type \notin Counted
    BY <1>3 DEF MarketEvents, Counted
  <2> QED
    BY <2>1, <2>2, <2>3 DEF Quiet
<1> QED
  BY <1>1, <1>2, <1>3

\* A periodic grant records nothing, or one grant of some amount.
LEMMA GrantShape ==
  ASSUME NEW s, IsState(s), NEW user, NEW time \in Time,
         NEW d \in DecideGrant(s, SystemActor, user, time)
  PROVE  /\ user \in DOMAIN s.accounts
         /\ DOMAIN ApplyDecision(s, d).accounts = DOMAIN s.accounts
         /\ \/ d = << >>
            \/ \E g : d = <<g>> /\ g.type = "PointsGranted" /\ g.user = user /\ g.amount \in Nat
<1> DEFINE g == DueGrant(s, user, time)
           account == s.accounts[user]
           interval == s.policy.interval
           count == (time - account.next_grant) \div interval
<1>1. /\ s.policy # NoPolicy /\ user \in DOMAIN s.accounts
      /\ d \in Finish(s, << >>) \/ (d \in Finish(s, <<g>>) /\ ~(time < account.next_grant))
  BY DEF DecideGrant
<1>2. CASE d \in Finish(s, << >>)
  BY <1>1, <1>2, FinishNone
<1>3. CASE d \in Finish(s, <<g>>) /\ ~(time < account.next_grant)
  <2>1. /\ s.policy.amount \in Nat /\ interval \in Nat \ {0} /\ time - account.next_grant \in Nat
    BY <1>1, <1>3, I64MaxAssumption DEF IsState, IsMap, Policy, Account, Time
  <2>2. count \in Nat
    BY <2>1, DivisionBounds
  <2>3. g.type = "PointsGranted" /\ g.user = user /\ g.amount = s.policy.amount * (count + 1)
    BY DEF DueGrant
  <2> HIDE DEF g, count
  <2>4. g.amount \in Nat
    BY <2>1, <2>2, <2>3
  <2>5. d = <<g>> /\ ApplyDecision(s, d) = Effect(s, g)
    BY <1>3, FinishOne
  <2>6. Effect(s, g) = ApplyGrant(s, g)
    BY <2>3 DEF Effect
  <2>7. s = [policy |-> s.policy, accounts |-> s.accounts, markets |-> s.markets]
    BY DEF IsState
  <2>8. DOMAIN Effect(s, g).accounts = DOMAIN s.accounts
    BY <2>6, <2>7 DEF ApplyGrant
  <2> QED
    BY <1>1, <2>3, <2>4, <2>5, <2>8
<1> QED
  BY <1>1, <1>2, <1>3

\* A join of a new member: the enrollment and the initial grant, perhaps after the
\* guild's initialization.
Joining(d, u, time, g) ==
    \E e, f :
        /\ e.type = "GuildEconomyInitialized"
        /\ f.type = "MemberEnrolled" /\ f.user = u /\ f.enrolled_at = time
        /\ g.type = "PointsGranted" /\ g.user = u /\ g.amount \in Nat
        /\ d = <<f, g>> \/ d = <<e, f, g>>

\* A join of a member records nothing, and changes nothing; of anybody else, a Joining.
LEMMA JoinShape ==
  ASSUME NEW s, IsState(s), NEW actor \in Actor, NEW time \in Time, NEW p \in Policy,
         NEW d \in DecideJoin(s, actor, time, p)
  PROVE  \/ d = << >> /\ ApplyDecision(s, d) = s
         \/ /\ actor.user \in Users /\ actor.user \notin DOMAIN s.accounts
            /\ DOMAIN ApplyDecision(s, d).accounts = DOMAIN s.accounts \cup {actor.user}
            /\ \E g : Joining(d, actor.user, time, g)
<1> DEFINE u == actor.user
           policy == IF s.policy = NoPolicy THEN p ELSE s.policy
           e == [type |-> "GuildEconomyInitialized", policy |-> policy]
           f == [type |-> "MemberEnrolled", user |-> u, enrolled_at |-> time]
           g == [type |-> "PointsGranted", user |-> u, reason |-> "Initial",
                 amount |-> policy.amount, from_due |-> time, through_due |-> time,
                 next_grant |-> time + policy.interval]
<1>1. u \in Users
  BY DEF DecideJoin, Human, Actor
<1>2. /\ e.type = "GuildEconomyInitialized" /\ e.policy = policy
      /\ f.type = "MemberEnrolled" /\ f.user = u /\ f.enrolled_at = time
      /\ g.type = "PointsGranted" /\ g.user = u /\ g.amount = policy.amount
  OBVIOUS
<1>3. policy \in Policy /\ policy.amount \in Nat
  BY I64MaxAssumption DEF IsState, Policy
<1>4. \/ d \in Finish(s, << >>)
      \/ s.policy = NoPolicy /\ d \in Finish(s, <<e, f, g>>)
      \/ s.policy # NoPolicy /\ d \in Finish(s, <<f, g>>)
  BY DEF DecideJoin
<1>5. /\ f = [type |-> "MemberEnrolled", user |-> u, enrolled_at |-> time]
      /\ g = [type |-> "PointsGranted", user |-> u, reason |-> "Initial",
              amount |-> policy.amount, from_due |-> time, through_due |-> time,
              next_grant |-> time + policy.interval]
  OBVIOUS
<1> HIDE DEF e, f, g, u
<1>6. CASE d \in Finish(s, << >>)
  BY <1>6, FinishNone
<1>7. CASE s.policy = NoPolicy /\ d \in Finish(s, <<e, f, g>>)
  <2> DEFINE r == Effect(s, e)
  <2>1. /\ d = <<e, f, g>> /\ Applicable(s, e) /\ Applicable(r, f)
        /\ Applicable(Effect(r, f), g)
        /\ ApplyDecision(s, d) = Effect(Effect(r, f), g)
    BY <1>7, FinishThree
  <2>2. IsState(r) /\ r = [s EXCEPT !.policy = policy]
    BY <1>2, <1>3, <1>7, <2>1, InitializationTyped
  <2>3. r.policy = policy /\ r.accounts = s.accounts
    BY <2>2 DEF IsState
  <2> HIDE DEF r, policy
  <2>4. /\ f = [type |-> "MemberEnrolled", user |-> u, enrolled_at |-> time]
        /\ g = [type |-> "PointsGranted", user |-> u, reason |-> "Initial",
                amount |-> r.policy.amount, from_due |-> time, through_due |-> time,
                next_grant |-> time + r.policy.interval]
    BY <1>5, <2>3
  <2>5. IsState(r) /\ Applicable(r, f) /\ Applicable(Effect(r, f), g)
    BY <2>1, <2>2
  <2>6. /\ u \notin DOMAIN r.accounts
        /\ DOMAIN Effect(Effect(r, f), g).accounts = DOMAIN r.accounts \cup {u}
    BY <1>1, <2>4, <2>5, EnrollAndGrant
  <2>7. Joining(d, u, time, g)
    BY <1>2, <1>3, <2>1, Zenon DEF Joining
  <2> QED
    BY <1>1, <2>1, <2>3, <2>6, <2>7 DEF u
<1>8. CASE s.policy # NoPolicy /\ d \in Finish(s, <<f, g>>)
  <2>1. /\ d = <<f, g>> /\ Applicable(s, f) /\ Applicable(Effect(s, f), g)
        /\ ApplyDecision(s, d) = Effect(Effect(s, f), g)
    BY <1>8, FinishTwo
  <2>2. policy = s.policy
    BY <1>8
  <2>3. /\ u \notin DOMAIN s.accounts
        /\ DOMAIN Effect(Effect(s, f), g).accounts = DOMAIN s.accounts \cup {u}
    BY <1>1, <1>5, <2>1, <2>2, EnrollAndGrant
  <2>4. Joining(d, u, time, g)
    BY <1>2, <1>3, <2>1, Zenon DEF Joining
  <2> QED
    BY <1>1, <2>1, <2>3, <2>4 DEF u
<1> QED
  BY <1>4, <1>6, <1>7, <1>8

\* The totals after the rows of a join.
JoinCounted(rows, after, u, time, amount) ==
    /\ \A v : Total(after, "MemberEnrolled", v) =
                Total(rows, "MemberEnrolled", v) + (IF v = u THEN time ELSE 0)
    /\ \A v : Total(after, "PointsGranted", v) =
                Total(rows, "PointsGranted", v) + (IF v = u THEN amount ELSE 0)
    /\ Figures(after)
    /\ amount \in Nat

\* The grant is the last event of a join.
EndsWith(d, g) == d # << >> /\ d[Len(d)] = g

\* What the rows of a join add.
LEMMA JoinTotals ==
  ASSUME NEW rows, NEW more, IsSeq(rows), IsSeq(more), Figures(rows),
         NEW u, NEW time \in Nat, NEW g, Joining(EventsOf(more), u, time, g)
  PROVE  JoinCounted(rows, rows \o more, u, time, g.amount) /\ EndsWith(EventsOf(more), g)
<1> DEFINE d == EventsOf(more)
<1>1. DOMAIN more = 1 .. Len(more) /\ Len(more) \in Nat
  BY SeqFacts
<1>2. Len(d) = Len(more) /\ \A i \in 1 .. Len(more) : d[i] = more[i].event
  BY EventsOfRows
<1>3. PICK e, f :
        /\ e.type = "GuildEconomyInitialized"
        /\ f.type = "MemberEnrolled" /\ f.user = u /\ f.enrolled_at = time
        /\ g.type = "PointsGranted" /\ g.user = u /\ g.amount \in Nat
        /\ d = <<f, g>> \/ d = <<e, f, g>>
  BY DEF Joining
<1> HIDE DEF d
<1>4. PICK p \in DOMAIN more :
        /\ more[p].event = f /\ p + 1 \in DOMAIN more /\ more[p + 1].event = g
        /\ \A i \in DOMAIN more :
                i = p \/ i = p + 1 \/ more[i].event.type = "GuildEconomyInitialized"
        /\ d # << >> /\ d[Len(d)] = g
  <2>1. CASE d = <<f, g>>
    <3>1. Len(d) = 2 /\ d[1] = f /\ d[2] = g /\ d # << >>
      BY <2>1
    <3>2. 1 \in DOMAIN more /\ 1 + 1 \in DOMAIN more /\ \A i \in DOMAIN more : i = 1 \/ i = 1 + 1
      BY <1>1, <1>2, <3>1
    <3>3. more[1].event = f /\ more[1 + 1].event = g /\ d[Len(d)] = g
      BY <1>1, <1>2, <3>1, <3>2
    <3> QED
      BY <3>1, <3>2, <3>3
  <2>2. CASE d = <<e, f, g>>
    <3>1. Len(d) = 3 /\ d[1] = e /\ d[2] = f /\ d[3] = g /\ d # << >>
      BY <2>2
    <3>2. /\ 1 \in DOMAIN more /\ 2 \in DOMAIN more /\ 2 + 1 \in DOMAIN more
          /\ \A i \in DOMAIN more : i = 1 \/ i = 2 \/ i = 2 + 1
      BY <1>1, <1>2, <3>1
    <3>3. more[1].event = e /\ more[2].event = f /\ more[2 + 1].event = g /\ d[Len(d)] = g
      BY <1>1, <1>2, <3>1, <3>2
    <3> QED
      BY <1>3, <3>1, <3>2, <3>3
  <2> QED
    BY <1>3, <2>1, <2>2
<1>5. p \in Nat /\ p # p + 1
  BY <1>1
<1>6. Figure(f) = time /\ Figure(g) = g.amount
  BY <1>3 DEF Figure
<1>7. \A i \in DOMAIN more :
        /\ more[i].event.type = "MemberEnrolled" => i = p
        /\ more[i].event.type = "PointsGranted" => i = p + 1
  BY <1>3, <1>4
<1>8. /\ Total(rows \o more, "MemberEnrolled", u) = Total(rows, "MemberEnrolled", u) + time
      /\ Total(rows \o more, "PointsGranted", u) = Total(rows, "PointsGranted", u) + g.amount
  <2>1. Total(rows \o more, "MemberEnrolled", u) =
            Total(rows, "MemberEnrolled", u) + Figure(more[p].event)
    BY <1>3, <1>4, <1>6, <1>7, TotalAdds DEF Counted
  <2>2. Total(rows \o more, "PointsGranted", u) =
            Total(rows, "PointsGranted", u) + Figure(more[p + 1].event)
    BY <1>3, <1>4, <1>6, <1>7, TotalAdds DEF Counted
  <2> QED
    BY <1>4, <1>6, <2>1, <2>2
<1>9. ASSUME NEW v, v # u
      PROVE  /\ Total(rows \o more, "MemberEnrolled", v) = Total(rows, "MemberEnrolled", v)
             /\ Total(rows \o more, "PointsGranted", v) = Total(rows, "PointsGranted", v)
  <2>1. \A i \in DOMAIN more : more[i].event.type \in Counted => more[i].event.user # v
    BY <1>3, <1>4, <1>9 DEF Counted
  <2> QED
    BY <2>1, TotalKept DEF Counted
<1>10. \A v : Total(rows, "PointsGranted", v) \in Int /\ Total(rows, "MemberEnrolled", v) \in Int
  BY TotalInt DEF Counted
<1>11. Figures(rows \o more)
  <2>1. \A i \in DOMAIN more : more[i].event.type \in Counted => Figure(more[i].event) \in Nat
    BY <1>3, <1>4, <1>6 DEF Counted
  <2> QED
    BY <2>1, FiguresKept
<1>12. ASSUME NEW v
       PROVE  /\ Total(rows \o more, "MemberEnrolled", v) =
                    Total(rows, "MemberEnrolled", v) + (IF v = u THEN time ELSE 0)
              /\ Total(rows \o more, "PointsGranted", v) =
                    Total(rows, "PointsGranted", v) + (IF v = u THEN g.amount ELSE 0)
  <2>1. CASE v = u
    BY <1>8, <2>1
  <2>2. CASE v # u
    BY <1>9, <1>10, <2>2
  <2> QED
    BY <2>1, <2>2
<1> QED
  BY <1>3, <1>4, <1>11, <1>12 DEF d, JoinCounted, EndsWith

-----------------------------------------------------------------------------
(* The invariant of the refinement, and what a COMMIT does to it.          *)

\* What a COMMIT writes is a command of Economy, or changes the announcements.
Decided(w, g) ==
    LET d == EventsOf(w.rows)
    IN  \/ Commanded(g.state, d, w.accepted)
        \/ /\ w.accepted = g.accepted
           /\ d = << >> \/ \E e : d = <<e>> /\ e.type = "AnnouncementsEnabled"

\* A worker in a transaction has the evidence its command needs.
Prepared(x, g) ==
    /\ x.pc \in {"lock", "locked", "commit"} =>
        (x.request.command.op \in {"Resolve", "AddResolver"} => x.evidence \in Evidence)
    /\ x.pc = "commit" => Decided(x.writes, g)

\* The state of Economy is the projection of the rows.
Projected ==
    /\ guild = Projection(events, guild.accepted)
    /\ guild.accepted \in Times
    /\ Figures(events)
    /\ \A u \in Users : u \notin DOMAIN guild.state.accounts => guild.enrolled_at[u] = 0

\* The invariant of the refinement.
RInv ==
    /\ Projected
    /\ \A t \in Workers : Prepared(task[t], guild)
    /\ lock = Orphan => Decided(orphan, guild)

\* The state, and the history variables, before and after a COMMIT.
LEMMA StoreProjects ==
  ASSUME IInv, Projected, NEW w, NEW k, NEW a, Fits(w, k, a, events, commands), Store(w)
  PROVE  /\ IsSeq(events) /\ IsSeq(w.rows) /\ IsState(guild.state)
         /\ events' = events \o w.rows
         /\ guild' = Projection(events \o w.rows, w.accepted)
         /\ guild.state' = ApplyDecision(guild.state, EventsOf(w.rows))
         /\ IsState(guild.state') /\ guild.accepted' = w.accepted
         /\ guild.enrolled_at = [u \in Users |-> Total(events, "MemberEnrolled", u)]
         /\ guild.granted = [u \in Users |-> Total(events, "PointsGranted", u)]
         /\ guild.enrolled_at' = [u \in Users |-> Total(events \o w.rows, "MemberEnrolled", u)]
         /\ guild.granted' = [u \in Users |-> Total(events \o w.rows, "PointsGranted", u)]
<1>1. IsSeq(events) /\ IsSeq(w.rows) /\ Len(w.rows) \in 0 .. 3
  BY DEF IInv, HistoryLoads, Fits
<1>2. events' = events \o w.rows /\ guild' = Projection(events \o w.rows, w.accepted)
  BY DEF Store
<1>3. /\ guild.state = Replay(EventsOf(events))
      /\ guild.enrolled_at = [u \in Users |-> Total(events, "MemberEnrolled", u)]
      /\ guild.granted = [u \in Users |-> Total(events, "PointsGranted", u)]
  <2> DEFINE g == [state |-> Replay(EventsOf(events)), accepted |-> guild.accepted,
                     enrolled_at |-> [u \in Users |-> Total(events, "MemberEnrolled", u)],
                     granted |-> [u \in Users |-> Total(events, "PointsGranted", u)]]
  <2>1. guild = g
    BY ProjectionFields DEF Projected
  <2>2. /\ g.state = Replay(EventsOf(events))
        /\ g.enrolled_at = [u \in Users |-> Total(events, "MemberEnrolled", u)]
        /\ g.granted = [u \in Users |-> Total(events, "PointsGranted", u)]
    OBVIOUS
  <2> HIDE DEF g
  <2> QED
    BY <2>1, <2>2, Zenon
<1>4. /\ guild.state' = Replay(EventsOf(events \o w.rows)) /\ guild.accepted' = w.accepted
      /\ guild.enrolled_at' = [u \in Users |-> Total(events \o w.rows, "MemberEnrolled", u)]
      /\ guild.granted' = [u \in Users |-> Total(events \o w.rows, "PointsGranted", u)]
  <2> DEFINE g == [state |-> Replay(EventsOf(events \o w.rows)), accepted |-> w.accepted,
                     enrolled_at |-> [u \in Users |-> Total(events \o w.rows, "MemberEnrolled", u)],
                     granted |-> [u \in Users |-> Total(events \o w.rows, "PointsGranted", u)]]
  <2>1. guild' = g
    BY <1>2, ProjectionFields
  <2>2. /\ g.state = Replay(EventsOf(events \o w.rows)) /\ g.accepted = w.accepted
        /\ g.enrolled_at = [u \in Users |-> Total(events \o w.rows, "MemberEnrolled", u)]
        /\ g.granted = [u \in Users |-> Total(events \o w.rows, "PointsGranted", u)]
    OBVIOUS
  <2> HIDE DEF g
  <2> QED
    BY <2>1, <2>2, Zenon
<1>5. guild.state' = ApplyDecision(guild.state, EventsOf(w.rows))
  BY <1>1, <1>3, <1>4, ReplayRows
<1>6. IsState(guild.state) /\ IsState(guild.state')
  BY <1>3, <1>5 DEF IInv, HistoryLoads, Fits, History, EventsOf
<1> QED
  BY <1>1, <1>2, <1>3, <1>4, <1>5, <1>6

\* Rows that neither enroll nor grant leave the history variables.
LEMMA QuietStore ==
  ASSUME IInv, Projected, NEW w, NEW k, NEW a, Fits(w, k, a, events, commands), Store(w),
         Quiet(EventsOf(w.rows)), w.accepted \in Times,
         DOMAIN guild.state.accounts \subseteq DOMAIN guild.state'.accounts
  PROVE  UNCHANGED <<guild.enrolled_at, guild.granted>> /\ Projected'
<1>1. /\ IsSeq(events) /\ IsSeq(w.rows)
      /\ events' = events \o w.rows
      /\ guild' = Projection(events \o w.rows, w.accepted) /\ guild.accepted' = w.accepted
      /\ guild.enrolled_at = [u \in Users |-> Total(events, "MemberEnrolled", u)]
      /\ guild.granted = [u \in Users |-> Total(events, "PointsGranted", u)]
      /\ guild.enrolled_at' = [u \in Users |-> Total(events \o w.rows, "MemberEnrolled", u)]
      /\ guild.granted' = [u \in Users |-> Total(events \o w.rows, "PointsGranted", u)]
  BY StoreProjects
<1>2. /\ \A u : \A type \in Counted : Total(events \o w.rows, type, u) = Total(events, type, u)
      /\ Figures(events \o w.rows)
  BY <1>1, QuietTotals DEF Projected
<1>3. guild.enrolled_at' = guild.enrolled_at /\ guild.granted' = guild.granted
  BY <1>1, <1>2 DEF Counted
<1>4. Projected'
  BY <1>1, <1>2, <1>3 DEF Projected
<1> QED
  BY <1>3, <1>4

\* An announcement change is no step of Economy.
LEMMA AnnouncementRefines ==
  ASSUME IInv, Projected, NEW w, NEW k, NEW a, Fits(w, k, a, events, commands), Store(w),
         w.accepted = guild.accepted, NEW d, d = EventsOf(w.rows),
         d = << >> \/ \E e : d = <<e>> /\ e.type = "AnnouncementsEnabled"
  PROVE  Projected' /\ UNCHANGED Abstract!vars
<1>1. /\ IsState(guild.state) /\ IsState(guild.state') /\ guild.accepted' = w.accepted
      /\ guild.state' = ApplyDecision(guild.state, d)
  BY StoreProjects
<1>2. guild.state' = guild.state /\ Quiet(d)
  <2>1. CASE d = << >>
    BY <1>1, <2>1 DEF ApplyDecision, ApplyNth, Quiet
  <2>2. ASSUME NEW e, d = <<e>>, e.type = "AnnouncementsEnabled"
        PROVE  guild.state' = guild.state /\ Quiet(d)
    <3>1. ApplyDecision(guild.state, d) = Apply(guild.state, e)
      BY <2>2 DEF ApplyDecision, ApplyNth
    <3>2. Apply(guild.state, e) # Invalid
      BY <1>1, <3>1, StateIsValid
    <3>3. Effect(guild.state, e) = guild.state
      BY <2>2 DEF Effect
    <3> QED
      BY <1>1, <2>2, <3>1, <3>2, <3>3 DEF Apply, Quiet, Counted
  <2> QED
    BY <2>1, <2>2
<1>3. UNCHANGED <<guild.enrolled_at, guild.granted>> /\ Projected'
  <2>1. w.accepted \in Times /\ DOMAIN guild.state.accounts \subseteq DOMAIN guild.state'.accounts
    BY <1>2 DEF Projected
  <2> QED
    BY <1>2, <2>1, QuietStore
<1> QED
  BY <1>1, <1>2, <1>3 DEF Abstract!vars

\* A periodic grant is Economy's.
LEMMA GrantRefines ==
  ASSUME IInv, Projected, NEW w, NEW k, NEW a, Fits(w, k, a, events, commands), Store(w),
         w.accepted \in Times, NEW user \in Users, NEW d, d = EventsOf(w.rows),
         d \in DecideGrant(guild.state, SystemActor, user, w.accepted)
  PROVE  Projected' /\ Abstract!Grant(user, w.accepted)
<1> DEFINE time == w.accepted
<1>1. /\ IsSeq(events) /\ IsSeq(w.rows) /\ IsState(guild.state)
      /\ events' = events \o w.rows
      /\ guild' = Projection(events \o w.rows, w.accepted) /\ guild.accepted' = w.accepted
      /\ guild.state' = ApplyDecision(guild.state, d)
      /\ guild.enrolled_at = [u \in Users |-> Total(events, "MemberEnrolled", u)]
      /\ guild.granted = [u \in Users |-> Total(events, "PointsGranted", u)]
      /\ guild.enrolled_at' = [u \in Users |-> Total(events \o w.rows, "MemberEnrolled", u)]
      /\ guild.granted' = [u \in Users |-> Total(events \o w.rows, "PointsGranted", u)]
  BY StoreProjects
<1>2. time \in Time
  BY TimesAssumption
<1>3. /\ DOMAIN guild.state'.accounts = DOMAIN guild.state.accounts
      /\ \/ d = << >>
         \/ \E g : d = <<g>> /\ g.type = "PointsGranted" /\ g.user = user /\ g.amount \in Nat
  BY <1>1, <1>2, GrantShape
<1>4. d \in Abstract!DecideGrant(guild.state, Abstract!SystemActor, user, time)
  BY SameJoin
<1>5. Abstract!Commit(d, time)
  BY <1>1, SameApply DEF Abstract!Commit
<1>6. CASE d = << >>
  <2>1. UNCHANGED <<guild.enrolled_at, guild.granted>> /\ Projected'
    BY <1>3, <1>6, QuietStore DEF Quiet
  <2> QED
    BY <1>4, <1>5, <1>6, <2>1 DEF Abstract!Grant
<1>7. ASSUME NEW g, d = <<g>>, g.type = "PointsGranted", g.user = user, g.amount \in Nat
      PROVE  Projected' /\ Abstract!Grant(user, w.accepted)
  <2>1. /\ \A v : Total(events \o w.rows, "MemberEnrolled", v) =
                    Total(events, "MemberEnrolled", v)
        /\ \A v : Total(events \o w.rows, "PointsGranted", v) =
                    Total(events, "PointsGranted", v) + (IF v = user THEN g.amount ELSE 0)
        /\ Figures(events \o w.rows)
    <3>1. Figures(events)
      BY DEF Projected
    <3>2. /\ \A v : Total(events \o w.rows, "MemberEnrolled", v) =
                      Total(events, "MemberEnrolled", v)
          /\ \A v : Total(events \o w.rows, "PointsGranted", v) =
                      Total(events, "PointsGranted", v) + (IF v = g.user THEN g.amount ELSE 0)
          /\ Figures(events \o w.rows)
      BY <1>1, <1>7, <3>1, GrantTotals, Zenon
    <3> QED
      BY <1>7, <3>2
  <2>2. guild.enrolled_at' = guild.enrolled_at
    BY <1>1, <2>1
  <2>3. d # << >> /\ d[1] = g
    BY <1>7
  <2>4. guild.granted' = [guild.granted EXCEPT ![user] = @ + d[1].amount]
    <3>1. \A v : Total(events, "PointsGranted", v) \in Int
      BY <1>1, TotalInt DEF Projected, Counted
    <3>2. \A v \in Users : guild.granted'[v] =
                IF v = user THEN guild.granted[user] + d[1].amount ELSE guild.granted[v]
      <4> TAKE v \in Users
      <4>1. /\ guild.granted'[v] = Total(events \o w.rows, "PointsGranted", v)
            /\ guild.granted[v] = Total(events, "PointsGranted", v)
            /\ guild.granted[user] = Total(events, "PointsGranted", user)
        BY <1>1, Zenon
      <4>2. /\ Total(events \o w.rows, "PointsGranted", v) =
                  Total(events, "PointsGranted", v) + (IF v = user THEN g.amount ELSE 0)
            /\ Total(events, "PointsGranted", v) \in Int
        BY <2>1, <3>1, Zenon
      <4> QED
        BY <1>7, <2>3, <4>1, <4>2
    <3>3. DOMAIN guild.granted = Users /\ DOMAIN guild.granted' = Users
          /\ guild.granted = [v \in Users |-> guild.granted[v]]
          /\ guild.granted' = [v \in Users |-> guild.granted'[v]]
      BY <1>1
    <3> QED
      BY <3>2, <3>3
  <2>5. Projected'
    BY <1>1, <1>3, <2>1, <2>2 DEF Projected
  <2> QED
    BY <1>4, <1>5, <2>2, <2>3, <2>4, <2>5 DEF Abstract!Grant
<1> QED
  BY <1>3, <1>6, <1>7

\* A join is Economy's, under the policy of the process that decided it.
LEMMA JoinRefines ==
  ASSUME IInv, Projected, NEW w, NEW k, NEW a, Fits(w, k, a, events, commands), Store(w),
         w.accepted \in Times, NEW actor \in Senders, NEW policy \in Policies,
         NEW d, d = EventsOf(w.rows),
         d \in DecideJoin(guild.state, actor, w.accepted, policy)
  PROVE  Projected' /\ Abstract!Join(actor, policy, w.accepted)
<1> DEFINE time == w.accepted
           user == actor.user
<1>1. /\ IsSeq(events) /\ IsSeq(w.rows) /\ IsState(guild.state)
      /\ events' = events \o w.rows
      /\ guild' = Projection(events \o w.rows, w.accepted) /\ guild.accepted' = w.accepted
      /\ guild.state' = ApplyDecision(guild.state, d)
      /\ guild.enrolled_at = [u \in Users |-> Total(events, "MemberEnrolled", u)]
      /\ guild.granted = [u \in Users |-> Total(events, "PointsGranted", u)]
      /\ guild.enrolled_at' = [u \in Users |-> Total(events \o w.rows, "MemberEnrolled", u)]
      /\ guild.granted' = [u \in Users |-> Total(events \o w.rows, "PointsGranted", u)]
  BY StoreProjects
<1>2. time \in Time /\ time \in Nat /\ policy \in Policy /\ actor \in Actor
  <2>1. time \in Time /\ policy \in Policy /\ actor \in Actor
    BY TimesAssumption, PoliciesAssumption, RequestsAssumption DEF Senders
  <2> QED
    BY <2>1, I64MaxAssumption DEF Time
<1>3. \/ d = << >> /\ guild.state' = guild.state
      \/ /\ user \in Users /\ user \notin DOMAIN guild.state.accounts
         /\ DOMAIN guild.state'.accounts = DOMAIN guild.state.accounts \cup {user}
         /\ \E g : Joining(d, user, time, g)
  BY <1>1, <1>2, JoinShape
<1>4. d \in Abstract!DecideJoin(guild.state, actor, time, policy)
  BY SameJoin
<1>5. Abstract!Commit(d, time)
  BY <1>1, SameApply DEF Abstract!Commit
<1>6. CASE d = << >> /\ guild.state' = guild.state
  <2>1. UNCHANGED <<guild.enrolled_at, guild.granted>> /\ Projected'
    BY <1>6, QuietStore DEF Quiet
  <2> QED
    BY <1>4, <1>5, <1>6, <2>1 DEF Abstract!Join, Abstract!history
<1>7. ASSUME user \in Users, user \notin DOMAIN guild.state.accounts,
             DOMAIN guild.state'.accounts = DOMAIN guild.state.accounts \cup {user},
             NEW g, Joining(d, user, time, g)
      PROVE  Projected' /\ Abstract!Join(actor, policy, w.accepted)
  <2> HIDE DEF user, time
  <2>1. /\ \A v : Total(events \o w.rows, "MemberEnrolled", v) =
                    Total(events, "MemberEnrolled", v) + (IF v = user THEN time ELSE 0)
        /\ \A v : Total(events \o w.rows, "PointsGranted", v) =
                    Total(events, "PointsGranted", v) + (IF v = user THEN g.amount ELSE 0)
        /\ Figures(events \o w.rows)
        /\ d # << >> /\ d[Len(d)] = g /\ g.amount \in Nat
    <3>1. Figures(events)
      BY DEF Projected
    <3>2. Joining(EventsOf(w.rows), user, time, g)
      BY <1>7
    <3>3. /\ JoinCounted(events, events \o w.rows, user, time, g.amount)
          /\ EndsWith(EventsOf(w.rows), g)
      BY <1>1, <1>2, <3>1, <3>2, JoinTotals
    <3> QED
      BY <3>3 DEF JoinCounted, EndsWith
  <2>2. \A v : /\ Total(events, "PointsGranted", v) \in Int
               /\ Total(events, "MemberEnrolled", v) \in Int
    BY <1>1, TotalInt DEF Projected, Counted
  <2>3. Total(events, "MemberEnrolled", user) = 0
    BY <1>1, <1>7 DEF Projected
  <2>4. guild.enrolled_at' = [guild.enrolled_at EXCEPT ![user] = time]
    <3>1. \A v \in Users : guild.enrolled_at'[v] = IF v = user THEN time ELSE guild.enrolled_at[v]
      <4> TAKE v \in Users
      <4>1. /\ guild.enrolled_at'[v] = Total(events \o w.rows, "MemberEnrolled", v)
            /\ guild.enrolled_at[v] = Total(events, "MemberEnrolled", v)
        BY <1>1, Zenon
      <4>2. /\ Total(events \o w.rows, "MemberEnrolled", v) =
                  Total(events, "MemberEnrolled", v) + (IF v = user THEN time ELSE 0)
            /\ Total(events, "MemberEnrolled", v) \in Int
        BY <2>1, <2>2, Zenon
      <4> QED
        BY <1>2, <2>3, <4>1, <4>2
    <3>2. /\ guild.enrolled_at = [v \in Users |-> guild.enrolled_at[v]]
          /\ guild.enrolled_at' = [v \in Users |-> guild.enrolled_at'[v]]
      BY <1>1
    <3> QED
      BY <3>1, <3>2
  <2>5. guild.granted' = [guild.granted EXCEPT ![user] = @ + d[Len(d)].amount]
    <3>2. \A v \in Users : guild.granted'[v] =
                IF v = user THEN guild.granted[user] + d[Len(d)].amount ELSE guild.granted[v]
      <4> TAKE v \in Users
      <4>1. /\ guild.granted'[v] = Total(events \o w.rows, "PointsGranted", v)
            /\ guild.granted[v] = Total(events, "PointsGranted", v)
            /\ guild.granted[user] = Total(events, "PointsGranted", user)
        BY <1>1, <1>7, Zenon
      <4>2. /\ Total(events \o w.rows, "PointsGranted", v) =
                  Total(events, "PointsGranted", v) + (IF v = user THEN g.amount ELSE 0)
            /\ Total(events, "PointsGranted", v) \in Int
        BY <2>1, <2>2, Zenon
      <4> QED
        BY <2>1, <4>1, <4>2
    <3>3. DOMAIN guild.granted = Users /\ DOMAIN guild.granted' = Users
          /\ guild.granted = [v \in Users |-> guild.granted[v]]
          /\ guild.granted' = [v \in Users |-> guild.granted'[v]]
      BY <1>1
    <3> QED
      BY <3>2, <3>3
  <2>6. \A u \in Users : u \notin DOMAIN guild.state'.accounts => guild.enrolled_at'[u] = 0
    BY <1>1, <1>7, <2>4 DEF Projected
  <2>7. Projected'
    BY <1>1, <2>1, <2>6 DEF Projected, time
  <2> QED
    BY <1>4, <1>5, <2>1, <2>4, <2>5, <2>7 DEF Abstract!Join, user, time
<1> QED
  BY <1>3, <1>6, <1>7

\* The steps of Economy that are about a market.
MarketStep(actor, time) ==
    \E id \in Markets :
        \/ Abstract!Cancel(actor, id, time)
        \/ \E command \in CommandsOf("Create") :
                Abstract!Create(actor, id, command.options, command.closes_at, time)
        \/ \E outcome \in Outcomes, command \in CommandsOf("Bet") :
                Abstract!Bet(actor, id, outcome, command.amount, time)
        \/ \E outcome \in Outcomes, membership \in Evidence :
                Abstract!Resolve(actor, id, outcome, membership, time)
        \/ \E user \in Users, membership \in Evidence :
                Abstract!AddResolver(actor, id, user, membership, time)
        \/ \E user \in Users : Abstract!RemoveResolver(actor, id, user, time)

\* A command about a market is Economy's.
LEMMA ChangesRefine ==
  ASSUME IInv, Projected, NEW w, NEW k, NEW a, Fits(w, k, a, events, commands), Store(w),
         w.accepted \in Times, NEW actor, NEW d, d = EventsOf(w.rows),
         Changes(guild.state, d, actor, w.accepted)
  PROVE  Projected' /\ MarketStep(actor, w.accepted)
<1> DEFINE time == w.accepted
           s == guild.state
<1>1. /\ IsState(s) /\ guild.accepted' = w.accepted /\ guild.state' = ApplyDecision(s, d)
  BY StoreProjects
<1>2. Quiet(d) /\ DOMAIN guild.state'.accounts = DOMAIN s.accounts
  BY <1>1, ChangesQuiet
<1>3. UNCHANGED <<guild.enrolled_at, guild.granted>> /\ Projected'
  BY <1>2, QuietStore
<1>4. Abstract!Commit(d, time) /\ UNCHANGED Abstract!history
  BY <1>1, <1>3, SameApply DEF Abstract!Commit, Abstract!history
<1> HIDE DEF s, time
<1>5. ASSUME NEW id, d \in DecideCancel(s, actor, id, time)
      PROVE  Abstract!Cancel(actor, id, time)
  BY <1>4, <1>5, SameMarketDecisions DEF Abstract!Cancel, s
<1>6. ASSUME NEW id, NEW n, NEW c, d \in DecideCreate(s, actor, id, n, c, time)
      PROVE  Abstract!Create(actor, id, n, c, time)
  BY <1>4, <1>6, SameMarketDecisions DEF Abstract!Create, s
<1>7. ASSUME NEW id, NEW o, NEW n, d \in DecideBet(s, actor, id, o, n, time)
      PROVE  Abstract!Bet(actor, id, o, n, time)
  BY <1>4, <1>7, SameMarketDecisions DEF Abstract!Bet, s
<1>8. ASSUME NEW id, NEW o, NEW m, d \in DecideResolve(s, actor, id, o, time, m)
      PROVE  Abstract!Resolve(actor, id, o, m, time)
  BY <1>4, <1>8, SameMarketDecisions DEF Abstract!Resolve, s
<1>9. ASSUME NEW id, NEW u, NEW m, d \in DecideAddResolver(s, actor, id, u, time, m)
      PROVE  Abstract!AddResolver(actor, id, u, m, time)
  BY <1>4, <1>9, SameResolverDecisions DEF Abstract!AddResolver, s
<1>10. ASSUME NEW id, NEW u, d \in DecideRemoveResolver(s, actor, id, u, time)
      PROVE  Abstract!RemoveResolver(actor, id, u, time)
  BY <1>4, <1>10, SameResolverDecisions DEF Abstract!RemoveResolver, s
<1>11. MarketStep(actor, time)
  BY <1>5, <1>6, <1>7, <1>8, <1>9, <1>10, Zenon DEF Changes, MarketStep, s, time
<1> QED
  BY <1>3, <1>11 DEF time

\* Every COMMIT is a step of Economy, or none.
LEMMA CommitRefines ==
  ASSUME IInv, Projected, NEW w, NEW k, NEW a, Fits(w, k, a, events, commands), Store(w),
         Decided(w, guild)
  PROVE  Projected' /\ [Abstract!Next]_(Abstract!vars)
<1> DEFINE d == EventsOf(w.rows)
           time == w.accepted
<1>1. \/ Commanded(guild.state, d, time)
      \/ /\ w.accepted = guild.accepted
         /\ d = << >> \/ \E e : d = <<e>> /\ e.type = "AnnouncementsEnabled"
  BY DEF Decided
<1>2. CASE /\ w.accepted = guild.accepted
           /\ d = << >> \/ \E e : d = <<e>> /\ e.type = "AnnouncementsEnabled"
  BY <1>2, AnnouncementRefines
<1>3. CASE Commanded(guild.state, d, time)
  <2>1. time \in Times
    BY <1>3 DEF Commanded
  <2>2. ASSUME NEW user \in Users, d \in DecideGrant(guild.state, SystemActor, user, time)
        PROVE  Projected' /\ Abstract!Next
    <3>1. Projected' /\ Abstract!Grant(user, time)
      BY <2>1, <2>2, GrantRefines
    <3> QED
      BY <2>1, <3>1 DEF Abstract!Next
  <2>3. ASSUME NEW actor \in Senders, NEW policy \in Policies,
               d \in DecideJoin(guild.state, actor, time, policy)
        PROVE  Projected' /\ Abstract!Next
    <3>1. Projected' /\ Abstract!Join(actor, policy, time)
      BY <2>1, <2>3, JoinRefines
    <3> QED
      BY <2>1, <3>1 DEF Abstract!Next, Senders
  <2>4. ASSUME NEW actor \in Senders, Changes(guild.state, d, actor, time)
        PROVE  Projected' /\ Abstract!Next
    <3>1. Projected' /\ MarketStep(actor, time)
      BY <2>1, <2>4, ChangesRefine
    <3> QED
      BY <2>1, <3>1 DEF Abstract!Next, Senders, MarketStep
  <2> QED
    BY <1>3, <2>2, <2>3, <2>4 DEF Commanded
<1> QED
  BY <1>1, <1>2, <1>3

-----------------------------------------------------------------------------
(* The steps that commit nothing.                                          *)

\* Whatever a transaction decides is a command of Economy.
LEMMA DecisionsCommanded ==
  ASSUME NEW s, IsState(s), NEW request, Known(request), request.command.op # "Announce",
         NEW time \in Times, NEW policy \in Policies, NEW evidence,
         request.command.op \in {"Resolve", "AddResolver"} => evidence \in Evidence,
         NEW d \in Decide(s, request.actor, request.command, time, policy, evidence)
  PROVE  Commanded(s, d, time)
<1> DEFINE actor == request.actor
           c == request.command
<1>1. CASE actor = SystemActor /\ c.op = "Grant"
  <2>1. d \in DecideGrant(s, SystemActor, c.user, time)
    BY <1>1 DEF Decide
  <2>2. c.user \in Users
    BY <2>1 DEF DecideGrant, IsState, IsMap
  <2> QED
    BY <2>1, <2>2 DEF Commanded
<1>2. CASE request \in Requests
  <2>1. actor \in Senders /\ c \in Commands
    BY <1>2, RequestsAssumption DEF Senders
  <2>2. c.op \in {"Create", "Bet"} => c \in CommandsOf(c.op)
    BY <1>2 DEF CommandsOf
  <2> HIDE DEF actor, c
  <2>3. d \in Decide(s, actor, c, time, policy, evidence) /\ c.op # "Announce"
        /\ (c.op \in {"Resolve", "AddResolver"} => evidence \in Evidence)
    BY DEF actor, c
  <2>4. CASE c.op = "Join"
    BY <2>1, <2>3, <2>4 DEF Decide, Commanded
  <2>5. CASE c.op # "Join"
    <3>1. Changes(s, d, actor, time)
      <4>1. CASE c.op = "Create" /\ c.id \in Markets
        BY <2>2, <2>3, <4>1 DEF Decide, Changes
      <4>2. CASE c.op = "Bet" /\ c.id \in Markets /\ c.outcome \in Outcomes
        BY <2>2, <2>3, <4>2 DEF Decide, Changes
      <4>3. CASE c.op = "Resolve" /\ c.id \in Markets /\ c.outcome \in Outcomes
        BY <2>3, <4>3 DEF Decide, Changes
      <4>4. CASE c.op = "AddResolver" /\ c.id \in Markets /\ c.user \in Users
        BY <2>3, <4>4 DEF Decide, Changes
      <4>5. CASE c.op = "RemoveResolver" /\ c.id \in Markets /\ c.user \in Users
        BY <2>3, <4>5 DEF Decide, Changes
      <4>6. CASE c.op = "Cancel" /\ c.id \in Markets
        BY <2>3, <4>6 DEF Decide, Changes
      <4> QED
        BY <2>1, <2>3, <2>5, <4>1, <4>2, <4>3, <4>4, <4>5, <4>6 DEF Commands
    <3> QED
      BY <2>1, <3>1 DEF Commanded
  <2> QED
    BY <2>4, <2>5
<1> QED
  BY <1>1, <1>2 DEF Known

\* A worker outside a transaction needs nothing.
LEMMA Unprepared ==
  ASSUME NEW x, NEW g, x.pc \notin {"lock", "locked", "commit"}
  PROVE  Prepared(x, g)
  BY DEF Prepared

\* A step of one worker that commits nothing.
LEMMA PrivateStep ==
  ASSUME IInv, RInv, NEW t \in Workers, NEW x, task' = [task EXCEPT ![t] = x],
         Prepared(x, guild), UNCHANGED <<events, guild>>,
         lock' = Orphan => Decided(orphan', guild)
  PROVE  RInv'
<1>1. /\ task'[t] = x
      /\ \A s \in Workers \ {t} : task'[s] = task[s]
  BY OneTask DEF IInv
<1>2. Projected'
  BY DEF RInv, Projected
<1>3. \A s \in Workers : Prepared(task'[s], guild)
  BY <1>1 DEF RInv
<1> QED
  BY <1>2, <1>3 DEF RInv

\* The same when no session is abandoned.
LEMMA KeptStep ==
  ASSUME IInv, RInv, NEW t \in Workers, NEW x, task' = [task EXCEPT ![t] = x],
         Prepared(x, guild), UNCHANGED <<events, guild, orphan>>,
         lock' = Orphan => lock = Orphan
  PROVE  RInv'
<1>1. lock' = Orphan => Decided(orphan', guild)
  BY DEF RInv
<1> QED
  BY <1>1, PrivateStep

\* Dropping the transaction abandons no session.
LEMMA ReleaseKeeps ==
  ASSUME NEW t, Release(t)
  PROVE  lock' = Orphan => lock = Orphan
  BY DEF Release, NoTask, Orphan

\* Giving up.
LEMMA FailKeeps ==
  ASSUME IInv, RInv, NEW t \in Workers, Fail(t)
  PROVE  RInv'
<1>1. task' = [task EXCEPT ![t] = Idle] /\ Release(t) /\ UNCHANGED <<events, guild, orphan>>
  BY DEF Fail, Done, database
<1>2. Prepared(Idle, guild)
  BY IdleFields, Unprepared
<1> QED
  BY <1>1, <1>2, ReleaseKeeps, KeptStep

\* Another attempt, with the same evidence.
LEMMA RetryKeeps ==
  ASSUME IInv, RInv, NEW t \in Workers, Retry(t),
         task[t].pc \in {"lock", "locked", "commit"}, UNCHANGED <<events, guild, orphan>>
  PROVE  RInv'
<1>1. Release(t) /\ IsTask(task[t]) /\ Prepared(task[t], guild)
  BY DEF Retry, IInv, TasksSound, Sound, RInv
<1>2. CASE task[t].attempt < 2 /\ task[t].request.command.op # "Announce"
  <2> DEFINE x == [task[t] EXCEPT !.attempt = task[t].attempt + 1, !.pc = "lock",
                                  !.writes = NoWrites]
  <2>1. task' = [task EXCEPT ![t] = x]
    BY <1>2 DEF Retry
  <2>2. x.pc = "lock" /\ x.request = task[t].request /\ x.evidence = task[t].evidence
    BY <1>1 DEF IsTask
  <2> HIDE DEF x
  <2>3. Prepared(x, guild)
    BY <1>1, <2>2 DEF Prepared
  <2> QED
    BY <1>1, <2>1, <2>3, ReleaseKeeps, KeptStep
<1>3. CASE ~(task[t].attempt < 2 /\ task[t].request.command.op # "Announce")
  <2>1. task' = [task EXCEPT ![t] = Idle]
    BY <1>3 DEF Retry, Done
  <2>2. Prepared(Idle, guild)
    BY IdleFields, Unprepared
  <2> QED
    BY <1>1, <2>1, <2>2, ReleaseKeeps, KeptStep
<1> QED
  BY <1>2, <1>3

\* Steps of a worker before its transaction.
LEMMA EarlyKeeps ==
  ASSUME IInv, RInv, NEW t \in Workers,
         \/ \E request \in Requests : t \in Tasks /\ Deliver(t, request)
         \/ Preflight(t) \/ PreflightMismatch(t)
         \/ Verify(t) \/ RejectDestination(t)
         \/ Lock(t)
  PROVE  RInv'
<1>0. IsTask(task[t]) /\ Prepared(task[t], guild)
  BY DEF IInv, TasksSound, Sound, RInv
<1>1. ASSUME NEW request \in Requests, Deliver(t, request) PROVE RInv'
  <2> DEFINE x == [Idle EXCEPT !.pc = Entry(request), !.request = request]
  <2>1. task' = [task EXCEPT ![t] = x] /\ UNCHANGED <<events, guild, lock, orphan>>
    BY <1>1 DEF Deliver, database
  <2>2. x.pc = Entry(request) /\ x.request = request
    BY DEF Idle
  <2> HIDE DEF x
  <2>3. Prepared(x, guild)
    BY <2>2 DEF Prepared, Entry
  <2> QED
    BY <2>1, <2>3, KeptStep
<1>2. CASE Preflight(t)
  <2> DEFINE to == IF HasReceipt(t) THEN Recovered(t) ELSE "verify"
             x == [task[t] EXCEPT !.pc = to]
  <2>1. task' = [task EXCEPT ![t] = x] /\ UNCHANGED <<events, guild, lock, orphan>>
    BY <1>2 DEF Preflight, Goto, database
  <2>2. x.pc = to /\ to \in {"refresh", "reply", "verify"}
    BY <1>0 DEF IsTask, Recovered
  <2> HIDE DEF x, to
  <2>3. Prepared(x, guild)
    BY <2>2, Unprepared
  <2> QED
    BY <2>1, <2>3, KeptStep
<1>3. CASE PreflightMismatch(t) \/ RejectDestination(t)
  BY <1>3, FailKeeps DEF PreflightMismatch, RejectDestination
<1>4. CASE Verify(t)
  <2>1. PICK evidence \in EvidenceFor(task[t].request) :
            task' = [task EXCEPT ![t].evidence = evidence, ![t].pc = "lock"]
    BY <1>4 DEF Verify
  <2> DEFINE x == [task[t] EXCEPT !.evidence = evidence, !.pc = "lock"]
  <2>2. task' = [task EXCEPT ![t] = x] /\ UNCHANGED <<events, guild, lock, orphan>>
    BY <1>4, <2>1 DEF Verify, database, IInv, TasksSound
  <2>3. x.pc = "lock" /\ x.request = task[t].request /\ x.evidence = evidence
    BY <1>0 DEF IsTask
  <2>4. task[t].request.command.op \in {"Resolve", "AddResolver"} => evidence \in Evidence
    BY DEF EvidenceFor
  <2> HIDE DEF x
  <2>5. Prepared(x, guild)
    BY <2>3, <2>4 DEF Prepared
  <2> QED
    BY <2>2, <2>5, KeptStep
<1>5. CASE Lock(t)
  <2> DEFINE x == [task[t] EXCEPT !.pc = "locked"]
  <2>1. /\ task' = [task EXCEPT ![t] = x] /\ task[t].pc = "lock" /\ lock' = t
        /\ UNCHANGED <<events, guild, orphan>>
    BY <1>5 DEF Lock, At, Goto, database
  <2>2. x.pc = "locked" /\ x.request = task[t].request /\ x.evidence = task[t].evidence
    BY <1>0 DEF IsTask
  <2> HIDE DEF x
  <2>3. Prepared(x, guild)
    BY <1>0, <2>1, <2>2 DEF Prepared
  <2>4. lock' # Orphan
    BY <2>1, TasksAssumption
  <2> QED
    BY <2>1, <2>3, <2>4, KeptStep
<1> QED
  BY <1>1, <1>2, <1>3, <1>4, <1>5

\* The second look for a receipt, and the steps after the transaction.
LEMMA LateKeeps ==
  ASSUME IInv, RInv, NEW t \in Workers,
         Recover(t) \/ Refresh(t) \/ Publish(t) \/ Reply(t)
  PROVE  RInv'
<1>0. IsTask(task[t])
  BY DEF IInv, TasksSound, Sound
<1>1. CASE Recover(t) /\ ~ActorMatches(t)
  BY <1>1, FailKeeps DEF Recover
<1>2. CASE Recover(t) /\ ActorMatches(t)
  <2> DEFINE x == [task[t] EXCEPT !.pc = Recovered(t)]
  <2>1. /\ task' = [task EXCEPT ![t] = x] /\ Release(t)
        /\ UNCHANGED <<events, guild, orphan>>
    BY <1>2 DEF Recover, Goto, database
  <2>2. x.pc \in {"refresh", "reply"}
    BY <1>0 DEF IsTask, Recovered
  <2> HIDE DEF x
  <2>3. Prepared(x, guild)
    BY <2>2, Unprepared
  <2> QED
    BY <2>1, <2>3, ReleaseKeeps, KeptStep
<1>3. CASE Refresh(t)
  <2> DEFINE x == [task[t] EXCEPT !.pc = "publish", !.view = CommittedView]
  <2>1. task' = [task EXCEPT ![t] = x] /\ UNCHANGED <<events, guild, lock, orphan>>
    BY <1>3 DEF Refresh, database, IInv, TasksSound
  <2>2. x.pc = "publish"
    BY <1>0 DEF IsTask
  <2> HIDE DEF x
  <2>3. Prepared(x, guild)
    BY <2>2, Unprepared
  <2> QED
    BY <2>1, <2>3, KeptStep
<1>4. CASE Publish(t) \/ Reply(t)
  <2>1. task' = [task EXCEPT ![t] = Idle] /\ UNCHANGED <<events, guild, lock, orphan>>
    BY <1>4 DEF Publish, Reply, Done, database
  <2>2. Prepared(Idle, guild)
    BY IdleFields, Unprepared
  <2> QED
    BY <2>1, <2>2, KeptStep
<1> QED
  BY <1>1, <1>2, <1>3, <1>4

\* grant_due, before its grants are commands like any other.
LEMMA GrantDueKeeps ==
  ASSUME IInv, RInv, Scan \/ Discover \/ IssueGrant
  PROVE  RInv'
<1>1. GrantWorker \in Workers
  BY DEF Workers
<1>2. PICK x : /\ task' = [task EXCEPT ![GrantWorker] = x]
               /\ x.pc \in {"scan", "idle", "preflight"}
  <2>1. CASE Scan
    <3> DEFINE x == [Idle EXCEPT !.pc = "scan", !.view = CommittedView]
    <3>1. task' = [task EXCEPT ![GrantWorker] = x]
      BY <2>1 DEF Scan
    <3>2. x.pc = "scan"
      BY DEF Idle
    <3> QED
      BY <3>1, <3>2
  <2>2. CASE Discover
    BY <2>2, IdleFields DEF Discover
  <2>3. CASE IssueGrant
    <3>1. PICK d \in due : task' = [task EXCEPT ![GrantWorker] =
                [Idle EXCEPT !.pc = "preflight",
                             !.request = [key |-> <<"grant", d[1], d[2]>>,
                                          actor |-> SystemActor,
                                          command |-> [op |-> "Grant", user |-> d[1]]]]]
      BY <2>3 DEF IssueGrant
    <3> DEFINE x == [Idle EXCEPT !.pc = "preflight",
                             !.request = [key |-> <<"grant", d[1], d[2]>>,
                                          actor |-> SystemActor,
                                          command |-> [op |-> "Grant", user |-> d[1]]]]
    <3>2. x.pc = "preflight"
      BY DEF Idle
    <3> QED
      BY <3>1, <3>2
  <2> QED
    BY <2>1, <2>2, <2>3
<1>3. UNCHANGED <<events, guild, lock, orphan>>
  BY DEF Scan, Discover, IssueGrant, database
<1>4. Prepared(x, guild)
  BY <1>2, Unprepared
<1> QED
  BY <1>1, <1>2, <1>3, <1>4, KeptStep

\* transact decides a command of Economy against the state of all earlier commits.
LEMMA TransactKeeps ==
  ASSUME IInv, RInv, NEW t \in Workers, Transact(t)
  PROVE  RInv'
<1> DEFINE request == task[t].request
           s == Replay(History)
           decisions == Decide(s, request.actor, request.command, clock, defaults,
                               task[t].evidence)
           W(d) == [ rows |-> RowsOf(t, d, LastRevision),
                     receipts |-> Receipt(t, LastRevision + Len(d)),
                     channel |-> channel,
                     accepted |-> clock,
                     view |-> [revision |-> LastRevision + Len(d),
                               state |-> ApplyDecision(s, d)] ]
<1>1. /\ task[t].pc = "locked" /\ IsTask(task[t]) /\ Known(request)
      /\ ~HasReceipt(t) /\ request.command.op # "Announce" /\ HistoryLoads /\ IsState(s)
      /\ clock \in Times /\ defaults \in Policies /\ Prepared(task[t], guild)
  BY DEF Transact, At, IInv, TasksSound, Sound, EnvironmentTyped, HistoryLoads, RInv
<1>2. CommittedView.revision = LastRevision /\ CommittedView.state = s
  BY DEF CommittedView
<1>3. \/ decisions = {} /\ Fail(t)
      \/ \E d \in decisions :
            /\ IF Retryable(request.command, d)
               THEN /\ Release(t)
                    /\ task' = [task EXCEPT ![t].pc = "publish", ![t].view = CommittedView]
               ELSE /\ UNCHANGED lock
                    /\ task' = [task EXCEPT ![t].pc = "commit", ![t].writes = W(d)]
            /\ UNCHANGED <<database, orphan, memory, environment, acked, guild>>
  BY <1>2 DEF Transact
<1>4. guild.state = s
  <2>1. guild = [state |-> Replay(EventsOf(events)), accepted |-> guild.accepted,
             enrolled_at |-> [u \in Users |-> Total(events, "MemberEnrolled", u)],
             granted |-> [u \in Users |-> Total(events, "PointsGranted", u)]]
    BY ProjectionFields DEF RInv, Projected
  <2>2. guild.state = Replay(EventsOf(events))
    BY <2>1
  <2> QED
    BY <2>2 DEF History, EventsOf
<1> HIDE DEF s
<1>5. CASE Fail(t)
  BY <1>5, FailKeeps
<1>6. ASSUME NEW d \in decisions, Release(t),
             task' = [task EXCEPT ![t].pc = "publish", ![t].view = CommittedView],
             UNCHANGED <<database, orphan, memory, environment, acked, guild>>
      PROVE  RInv'
  <2> DEFINE x == [task[t] EXCEPT !.pc = "publish", !.view = CommittedView]
  <2>1. task' = [task EXCEPT ![t] = x]
    BY <1>6 DEF IInv, TasksSound
  <2>2. x.pc = "publish"
    BY <1>1 DEF IsTask
  <2> HIDE DEF x
  <2>3. Prepared(x, guild)
    BY <2>2, Unprepared
  <2> QED
    BY <1>6, <2>1, <2>3, ReleaseKeeps, KeptStep DEF database
<1>7. ASSUME NEW d \in decisions, UNCHANGED lock,
             task' = [task EXCEPT ![t].pc = "commit", ![t].writes = W(d)],
             UNCHANGED <<database, orphan, memory, environment, acked, guild>>
      PROVE  RInv'
  <2> DEFINE w == W(d)
             x == [task[t] EXCEPT !.pc = "commit", !.writes = w]
  <2>1. /\ w.rows = RowsOf(t, d, LastRevision) /\ w.accepted = clock
        /\ w.receipts = Receipt(t, LastRevision + Len(d))
    OBVIOUS
  <2> HIDE DEF w
  <2>2. task' = [task EXCEPT ![t] = x]
    BY <1>7 DEF IInv, TasksSound, w
  <2>3. x.pc = "commit" /\ x.request = request /\ x.evidence = task[t].evidence /\ x.writes = w
    BY <1>1 DEF IsTask
  <2>4. Acceptable(s, d, request.actor.user, clock)
    <3>1. clock \in Time /\ defaults \in Policy
      BY <1>1, TimesAssumption, PoliciesAssumption
    <3> QED
      BY <1>1, <3>1, DecisionsAcceptable
  <2> HIDE DEF x, W
  <2>5. EventsOf(w.rows) = d
    BY <1>1, <2>1, <2>4, RowsFit DEF s
  <2>6. request.command.op \in {"Resolve", "AddResolver"} => task[t].evidence \in Evidence
    BY <1>1 DEF Prepared
  <2>7. Commanded(s, d, clock)
    BY <1>1, <2>6, DecisionsCommanded
  <2>8. Decided(w, guild)
    BY <1>4, <2>1, <2>5, <2>7 DEF Decided
  <2>9. Prepared(x, guild)
    BY <2>3, <2>6, <2>8 DEF Prepared
  <2> QED
    BY <1>7, <2>2, <2>9, KeptStep DEF database
<1> QED
  BY <1>3, <1>5, <1>6, <1>7

\* configure_announcements records no command of Economy.
LEMMA ConfigureKeeps ==
  ASSUME IInv, RInv, NEW t \in Workers, Configure(t)
  PROVE  RInv'
<1> DEFINE request == task[t].request
           a == request.actor.user
           s == Replay(History)
           e == [type |-> "AnnouncementsEnabled", moderator |-> a, enabled_at |-> clock]
           welcome == IF request.command.channel # 0 /\ request.command.channel # channel
                      THEN <<[type |-> "AnnouncementsEnabled",
                              moderator |-> a, enabled_at |-> clock]>>
                      ELSE << >>
           w == [ rows |-> RowsOf(t, welcome, LastRevision),
                  receipts |-> Receipt(t, LastRevision + Len(welcome)),
                  channel |-> request.command.channel,
                  view |-> NoView,
                  accepted |-> guild.accepted ]
           x == [task[t] EXCEPT !.pc = "commit", !.writes = w]
<1>1. /\ task[t].pc = "locked" /\ IsTask(task[t]) /\ Known(request)
      /\ ~HasReceipt(t) /\ request.command.op = "Announce" /\ HistoryLoads /\ IsState(s)
  BY DEF Configure, At, IInv, TasksSound, Sound, HistoryLoads
<1>2. task' = [task EXCEPT ![t].pc = "commit", ![t].writes = w]
  BY DEF Configure
<1>3. a # System
  BY <1>1, RequestsAssumption DEF Known
<1>4. Acceptable(s, welcome, a, clock)
  BY <1>1, <1>3, AcceptWelcome
<1>5. welcome = << >> \/ (welcome = <<e>> /\ e.type = "AnnouncementsEnabled")
  OBVIOUS
<1> HIDE DEF welcome, s, e
<1>6. /\ w.rows = RowsOf(t, welcome, LastRevision) /\ w.accepted = guild.accepted
      /\ w.receipts = Receipt(t, LastRevision + Len(welcome))
  OBVIOUS
<1> HIDE DEF w
<1>7. task' = [task EXCEPT ![t] = x]
  BY <1>2 DEF IInv, TasksSound
<1>8. x.pc = "commit" /\ x.request = request /\ x.writes = w
  BY <1>1 DEF IsTask
<1> HIDE DEF x
<1>9. EventsOf(w.rows) = welcome
  BY <1>1, <1>4, <1>6, RowsFit DEF s
<1>10. Decided(w, guild)
  BY <1>5, <1>6, <1>9 DEF Decided
<1>11. Prepared(x, guild)
  BY <1>1, <1>8, <1>10 DEF Prepared
<1>12. UNCHANGED <<events, guild, lock, orphan>>
  BY DEF Configure, database
<1> QED
  BY <1>7, <1>11, <1>12, KeptStep

-----------------------------------------------------------------------------
(* The steps of the store are steps of Economy.                            *)

\* COMMIT takes effect as one step of Economy, and no other worker is in a transaction.
LEMMA CommitTxRefines ==
  ASSUME IInv, RInv, NEW t \in Workers, CommitTx(t)
  PROVE  RInv' /\ [Abstract!Next]_(Abstract!vars)
<1> DEFINE request == task[t].request
           w == task[t].writes
           k == request.key
           a == request.actor.user
           to == IF request.command.op = "Announce" THEN "reply" ELSE "publish"
           x == [task[t] EXCEPT !.pc = to, !.view = w.view, !.writes = NoWrites]
<1>1. /\ task[t].pc = "commit" /\ lock = t /\ IsTask(task[t])
      /\ Fits(w, k, a, events, commands) /\ HistoryLoads
      /\ Decided(w, guild) /\ Projected
  BY DEF CommitTx, At, IInv, LockExcludes, TasksSound, Sound, CommitFits, RInv, Prepared
<1>2. Unique(w)
  BY <1>1, FitsUnique
<1>3. /\ Store(w) /\ Release(t)
      /\ task' = [task EXCEPT ![t].pc = to, ![t].view = w.view, ![t].writes = NoWrites]
  BY <1>2 DEF CommitTx
<1>4. task' = [task EXCEPT ![t] = x]
  BY <1>3 DEF IInv, TasksSound
<1>5. x.pc = to /\ to \in {"reply", "publish"}
  BY <1>1 DEF IsTask
<1> HIDE DEF x, w, k, a, to
<1>6. Projected' /\ [Abstract!Next]_(Abstract!vars)
  BY <1>1, <1>3, CommitRefines
<1>7. task'[t] = x /\ \A s \in Workers \ {t} : task'[s] = task[s]
  BY <1>4, OneTask DEF IInv
<1>8. \A s \in Workers \ {t} : task[s].pc \notin {"locked", "commit"}
  BY <1>1 DEF IInv, LockExcludes
<1>9. \A s \in Workers : Prepared(task'[s], guild')
  <2>1. Prepared(x, guild')
    BY <1>5, Unprepared
  <2>2. ASSUME NEW s \in Workers \ {t} PROVE Prepared(task[s], guild')
    BY <1>8 DEF RInv, Prepared
  <2> QED
    BY <1>7, <2>1, <2>2
<1>10. lock' # Orphan
  BY <1>1, <1>3 DEF Release, NoTask, Orphan
<1> QED
  BY <1>6, <1>9, <1>10 DEF RInv

\* A COMMIT left to the server is the same step, later.
LEMMA OrphanCommitRefines ==
  ASSUME IInv, RInv, OrphanCommit
  PROVE  RInv' /\ [Abstract!Next]_(Abstract!vars)
<1>1. /\ lock = Orphan /\ Store(orphan) /\ lock' = NoTask /\ UNCHANGED task
      /\ Decided(orphan, guild) /\ Projected
  BY DEF OrphanCommit, RInv
<1>2. PICK k : Fits(orphan, k, orphan.receipts[k].actor, events, commands)
  BY <1>1 DEF IInv, OrphanFits, Abandoned
<1>3. Projected' /\ [Abstract!Next]_(Abstract!vars)
  BY <1>1, <1>2, CommitRefines
<1>4. \A s \in Workers : task[s].pc \notin {"locked", "commit"}
  BY <1>1, TasksAssumption DEF IInv, LockExcludes
<1>5. \A s \in Workers : Prepared(task'[s], guild')
  BY <1>1, <1>4 DEF RInv, Prepared
<1>6. lock' # Orphan
  BY <1>1 DEF NoTask, Orphan
<1> QED
  BY <1>3, <1>5, <1>6 DEF RInv

\* Faults and the environment commit nothing.
LEMMA FaultKeeps ==
  ASSUME IInv, RInv,
         \/ \E t \in Workers : Transient(t) \/ Disconnect(t)
         \/ Crash \/ OrphanAbort \/ Tick \/ UNCHANGED vars
  PROVE  RInv'
<1>1. ASSUME NEW t \in Workers, Transient(t) PROVE RInv'
  <2>1. /\ Retry(t) /\ task[t].pc \in {"lock", "locked", "commit"}
        /\ UNCHANGED <<events, guild, orphan>>
    BY <1>1 DEF Transient, database
  <2> QED
    BY <2>1, RetryKeeps
<1>2. ASSUME NEW t \in Workers, Disconnect(t) PROVE RInv'
  <2>1. task' = [task EXCEPT ![t] = Idle] /\ UNCHANGED <<events, guild>>
    BY <1>2 DEF Disconnect, Done, database
  <2>2. Prepared(Idle, guild)
    BY IdleFields, Unprepared
  <2>3. lock' = Orphan => Decided(orphan', guild)
    <3>1. CASE task[t].pc = "commit"
      <4>1. orphan' = task[t].writes
        BY <1>2, <3>1 DEF Disconnect, At
      <4> QED
        BY <3>1, <4>1 DEF RInv, Prepared
    <3>2. CASE task[t].pc # "commit"
      <4>1. Release(t) /\ UNCHANGED orphan
        BY <1>2, <3>2 DEF Disconnect, At
      <4> QED
        BY <4>1, ReleaseKeeps DEF RInv
    <3> QED
      BY <3>1, <3>2
  <2> QED
    BY <2>1, <2>2, <2>3, PrivateStep
<1>3. CASE Crash
  <2>1. task' = [t \in Workers |-> Idle] /\ UNCHANGED <<events, guild>>
    BY <1>3 DEF Crash, database
  <2>2. \A t \in Workers : Prepared(task'[t], guild)
    BY <2>1, IdleFields, Unprepared
  <2>3. lock' = Orphan => Decided(orphan', guild)
    <3>1. CASE lock \in Workers /\ task[lock].pc = "commit"
      <4>1. orphan' = task[lock].writes
        BY <1>3, <3>1 DEF Crash
      <4> QED
        BY <3>1, <4>1 DEF RInv, Prepared
    <3>2. CASE ~(lock \in Workers /\ task[lock].pc = "commit")
      <4>1. /\ lock' = IF lock \in Workers THEN NoTask ELSE lock
            /\ UNCHANGED orphan
        BY <1>3, <3>2 DEF Crash
      <4> QED
        BY <4>1 DEF RInv, NoTask, Orphan
    <3> QED
      BY <3>1, <3>2
  <2>4. Projected'
    BY <2>1 DEF RInv, Projected
  <2> QED
    BY <2>1, <2>2, <2>3, <2>4 DEF RInv
<1>4. CASE OrphanAbort \/ Tick \/ UNCHANGED vars
  <2>1. /\ UNCHANGED <<task, events, guild>>
        /\ lock' # Orphan \/ UNCHANGED <<lock, orphan>>
    BY <1>4 DEF OrphanAbort, Tick, vars, database, NoTask, Orphan
  <2>2. Projected'
    BY <2>1 DEF RInv, Projected
  <2> QED
    BY <2>1, <2>2 DEF RInv
<1> QED
  BY <1>1, <1>2, <1>3, <1>4

\* A guild without history is the projection of no rows.
LEMMA InitProjects == Init => RInv /\ Abstract!Init
<1> SUFFICES ASSUME Init PROVE RInv /\ Abstract!Init
  OBVIOUS
<1>1. /\ events = << >> /\ lock = NoTask /\ task = [t \in Workers |-> Idle]
      /\ clock \in Times /\ guild = Projection(<< >>, clock)
  BY DEF Init
<1>2. IsSeq(<< >>) /\ Len(EventsOf(<< >>)) = 0
  BY SeqTuples, EventsOfRows
<1>3. Replay(EventsOf(<< >>)) = EmptyState
  BY <1>2, ReplayNothing
<1>4. \A u : \A type \in Counted : Total(<< >>, type, u) = 0
  <2> TAKE u
  <2> TAKE type \in Counted
  <2> DEFINE f == [i \in About(<< >>, type, u) |-> Figure(<< >>[i].event)]
  <2>1. DOMAIN f = {}
    BY DEF About
  <2>2. Total(<< >>, type, u) = SumFunctionOnSet(f, DOMAIN f)
    BY DEF Total, SumFunction
  <2> HIDE DEF f
  <2> QED
    BY <2>1, <2>2, SumNone
<1>5. guild = [state |-> EmptyState, accepted |-> clock,
               enrolled_at |-> [u \in Users |-> Total(<< >>, "MemberEnrolled", u)],
               granted |-> [u \in Users |-> Total(<< >>, "PointsGranted", u)]]
  BY <1>1, <1>3, ProjectionFields
<1>6. /\ guild.state = EmptyState /\ guild.accepted = clock
      /\ guild.enrolled_at = [u \in Users |-> 0] /\ guild.granted = [u \in Users |-> 0]
  BY <1>4, <1>5 DEF Counted
<1>7. Projected
  BY <1>1, <1>6 DEF Projected, Figures
<1>8. RInv
  <2>1. \A t \in Workers : Prepared(task[t], guild)
    BY <1>1, IdleFields, Unprepared
  <2>2. lock # Orphan
    BY <1>1 DEF NoTask, Orphan
  <2> QED
    BY <1>7, <2>1, <2>2 DEF RInv
<1>9. Abstract!Init
  <2>1. Abstract!EmptyState = EmptyState
    BY DEF Abstract!EmptyState, EmptyState, Abstract!NoPolicy, NoPolicy, Abstract!EmptyMap, EmptyMap
  <2> QED
    BY <1>1, <1>6, <2>1 DEF Abstract!Init
<1> QED
  BY <1>8, <1>9

\* Every step of the store is a step of Economy, or none.
LEMMA NextRefines == IInv /\ RInv /\ [Next]_vars => RInv' /\ [Abstract!Next]_(Abstract!vars)
<1> SUFFICES ASSUME IInv, RInv, [Next]_vars PROVE RInv' /\ [Abstract!Next]_(Abstract!vars)
  OBVIOUS
<1>0. UNCHANGED guild => [Abstract!Next]_(Abstract!vars)
  BY DEF Abstract!vars
<1>1. CASE \E t \in Tasks, request \in Requests : Deliver(t, request)
  <2>1. UNCHANGED guild
    BY <1>1 DEF Deliver
  <2>2. RInv'
    BY <1>1, EarlyKeeps DEF Workers
  <2> QED
    BY <1>0, <2>1, <2>2
<1>2. ASSUME NEW t \in Workers, CommitTx(t) PROVE RInv' /\ [Abstract!Next]_(Abstract!vars)
  BY <1>2, CommitTxRefines
<1>3. CASE OrphanCommit
  BY <1>3, OrphanCommitRefines
<1>4. ASSUME NEW t \in Workers,
             \/ Preflight(t) \/ PreflightMismatch(t) \/ Verify(t) \/ RejectDestination(t)
             \/ Lock(t)
      PROVE  RInv' /\ [Abstract!Next]_(Abstract!vars)
  <2>1. UNCHANGED guild
    BY <1>4 DEF Preflight, PreflightMismatch, Verify, RejectDestination, Lock, Fail
  <2>2. RInv'
    BY <1>4, EarlyKeeps
  <2> QED
    BY <1>0, <2>1, <2>2
<1>5. ASSUME NEW t \in Workers, Recover(t) \/ Refresh(t) \/ Publish(t) \/ Reply(t)
      PROVE  RInv' /\ [Abstract!Next]_(Abstract!vars)
  <2>1. UNCHANGED guild
    BY <1>5 DEF Recover, Refresh, Publish, Reply, Fail
  <2>2. RInv'
    BY <1>5, LateKeeps
  <2> QED
    BY <1>0, <2>1, <2>2
<1>6. ASSUME NEW t \in Workers, Transact(t) \/ Configure(t)
      PROVE  RInv' /\ [Abstract!Next]_(Abstract!vars)
  <2>1. UNCHANGED guild
    BY <1>6 DEF Transact, Configure, Fail
  <2>2. RInv'
    BY <1>6, TransactKeeps, ConfigureKeeps
  <2> QED
    BY <1>0, <2>1, <2>2
<1>7. CASE Scan \/ Discover \/ IssueGrant
  <2>1. UNCHANGED guild
    BY <1>7 DEF Scan, Discover, IssueGrant
  <2>2. RInv'
    BY <1>7, GrantDueKeeps
  <2> QED
    BY <1>0, <2>1, <2>2
<1>8. CASE \/ \E t \in Workers : Transient(t) \/ Disconnect(t)
           \/ Crash \/ OrphanAbort \/ Tick \/ UNCHANGED vars
  <2>1. UNCHANGED guild
    BY <1>8 DEF Transient, Disconnect, Crash, OrphanAbort, Tick, vars
  <2>2. RInv'
    BY <1>8, FaultKeeps
  <2> QED
    BY <1>0, <2>1, <2>2
<1> QED
  BY <1>1, <1>2, <1>3, <1>4, <1>5, <1>6, <1>7, <1>8 DEF Next, Internal, Step

\* The transactions of connect, load, transact, configure_announcements and COMMIT implement
\* one guild's economy, with a command decided and recorded in one step: whatever the tasks,
\* retries, lost replies, crashes and sessions left to the server, the state that the rows
\* replay to changes only as some command decides against all the commands before it.
THEOREM StoreImplementsEconomy == Spec => ImplementsEconomy
<1>1. Init => RInv /\ Abstract!Init
  BY InitProjects
<1>2. IInv /\ RInv /\ [Next]_vars => RInv' /\ [Abstract!Next]_(Abstract!vars)
  BY NextRefines
<1>3. Spec => []IInv
  BY StoreInvariant
<1> QED
  BY <1>1, <1>2, <1>3, PTL DEF Spec, ImplementsEconomy, Abstract!Spec

=============================================================================
