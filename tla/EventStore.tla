----------------------------- MODULE EventStore -----------------------------
(***************************************************************************)
(* The event-sourced store of one guild: prediction_bot/lib/src/store.rs,  *)
(* with the part of announcements/persistence.rs that writes to the same   *)
(* history.                                                                *)
(*                                                                         *)
(* The database holds event rows and command receipts.  Concurrent tasks   *)
(* of the process (Discord handlers, the grant worker) run execute_inner:  *)
(* look for a receipt without a lock, await the membership lookup, then    *)
(* run a transaction under the guild's advisory lock that looks again,     *)
(* replays the history, decides at the time read under the lock, and       *)
(* inserts the rows and the receipt; finally the projection is published   *)
(* to the process's cache of views.  A transaction may fail transiently    *)
(* and be retried, a COMMIT may be lost in either direction, the process   *)
(* may crash and leave its COMMIT behind in the server, the wall clock may *)
(* be set back, and Discord may deliver a request any number of times: a   *)
(* double click sends the same key, as does a redelivery.                  *)
(***************************************************************************)
EXTENDS Domain

CONSTANTS
    Tasks,          \* handler tasks of the process
    GrantWorker,    \* the task that runs grant_due
    Requests,       \* interactions: records [key, actor, command]
    Evidence,       \* what a membership lookup may answer
    Policies,       \* grant policies the process may be started with
    Times,          \* wall-clock readings
    MaxTicks,       \* bound on changes of the clock
    MaxFaults       \* bound on database faults and crashes

Workers == Tasks \cup {GrantWorker}
NoTask == "none"
Orphan == "orphan"      \* a server session whose client has crashed

\* What an interaction may ask for; periodic grants are the grant worker's own.
Commands ==
    [op : {"Join"}]
    \cup [op : {"Create"}, id : Markets, options : Nat, closes_at : Time]
    \cup [op : {"Bet"}, id : Markets, outcome : Outcomes, amount : Nat]
    \cup [op : {"Resolve"}, id : Markets, outcome : Outcomes]
    \cup [op : {"AddResolver", "RemoveResolver"}, id : Markets, user : Users]
    \cup [op : {"Cancel"}, id : Markets]
    \cup [op : {"Announce"}, channel : Nat]

ASSUME TasksAssumption ==
    GrantWorker \notin Tasks /\ NoTask \notin Workers /\ Orphan \notin Workers
ASSUME PoliciesAssumption == Policies \subseteq Policy /\ Policies # {}
ASSUME TimesAssumption == Times \subseteq Time /\ Times # {}
ASSUME BoundsAssumption == MaxTicks \in Nat /\ MaxFaults \in Nat

\* An interaction comes from a Discord member.  A key belongs to one interaction or
\* one submission, so it asks for the announcement settings always or never.
ASSUME RequestsAssumption ==
    \A request \in Requests :
        /\ request.actor \in Actor /\ request.actor.user # System
        /\ request.command \in Commands
ASSUME KeysAssumption ==
    \A request, other \in Requests :
        request.key = other.key =>
            (request.command.op = "Announce") = (other.command.op = "Announce")

VARIABLES
    events,     \* prediction_events, in order: rows [revision, key, accepted_at, event]
    commands,   \* prediction_commands: key -> [actor, accepted_at, last_revision]
    channel,    \* announcement destination, 0 when announcements are off
    lock,       \* holder of the guild's advisory lock
    orphan,     \* the writes of a COMMIT whose client has crashed
    cache,      \* the view the process has published
    task,       \* what each worker is doing
    due,        \* grants found by the running pass of grant_due: <<user, due time>>
    clock,      \* the host's wall clock
    defaults,   \* the policy the process was configured with
    ticks,      \* changes of the clock so far
    faults,     \* database faults and crashes so far
    acked,      \* history: <<key, user>> of every success reported
    guild       \* history: the projection of everything committed

database == <<events, commands, channel>>
memory == <<cache, due>>
environment == <<clock, defaults, ticks, faults>>
vars == <<database, lock, orphan, memory, task, environment, acked, guild>>

-----------------------------------------------------------------------------
(* History: rows, receipts and what load accepts.                          *)

NoView == [revision |-> 0, state |-> EmptyState]
NoWrites ==
    [rows |-> << >>, receipts |-> EmptyMap, channel |-> 0, view |-> NoView, accepted |-> 0]

LastRevision == Len(events)
History == [i \in DOMAIN events |-> events[i].event]

\* validate_event_actor
EventActor(event, actor) ==
    CASE event.type = "GuildEconomyInitialized" -> actor # System
      [] event.type \in {"MemberEnrolled", "BetPlaced"} -> actor = event.user
      [] event.type = "PointsGranted" ->
            actor = (IF event.reason = "Initial" THEN event.user ELSE System)
      [] event.type = "MarketCreated" -> actor = event.creator
      [] event.type = "MarketResolved" -> actor = event.resolver
      [] event.type \in {"MarketResolverAdded", "MarketResolverRemoved"} ->
            actor = event.by
      [] event.type \in {"AnnouncementsEnabled", "MarketCancelled"} ->
            actor = event.moderator

\* validate_event_time
EventTime(event, accepted_at) ==
    CASE event.type = "AnnouncementsEnabled" -> event.enabled_at = accepted_at
      [] event.type = "GuildEconomyInitialized" -> TRUE
      [] event.type = "MemberEnrolled" -> event.enrolled_at = accepted_at
      [] event.type = "PointsGranted" -> event.through_due <= accepted_at
      [] event.type = "MarketCreated" -> event.created_at = accepted_at
      [] event.type = "BetPlaced" -> event.accepted_at = accepted_at
      [] event.type = "MarketResolved" -> event.settled_at = accepted_at
      [] event.type \in {"MarketResolverAdded", "MarketResolverRemoved"} ->
            event.at = accepted_at
      [] event.type = "MarketCancelled" -> event.cancelled_at = accepted_at

IsInitialGrant(event) == event.type = "PointsGranted" /\ event.reason = "Initial"

\* The rows are numbered without a gap, each belongs to a receipt that agrees
\* with it, and the rows of a command are consecutive and end at the receipt's
\* last_revision.
Contiguous == \A i \in DOMAIN events : events[i].revision = i

ReceiptsAgree ==
    \A i \in DOMAIN events :
        LET row == events[i]
        IN  /\ row.key \in DOMAIN commands
            /\ row.accepted_at = commands[row.key].accepted_at
            /\ row.revision <= commands[row.key].last_revision
            /\ EventTime(row.event, row.accepted_at)
            /\ EventActor(row.event, commands[row.key].actor)

CommandsWhole ==
    \A i \in DOMAIN events :
        LET end == commands[events[i].key].last_revision
        IN  end <= LastRevision /\ \A j \in i .. end : events[j].key = events[i].key

\* A MemberEnrolled is followed, in the same command, by its initial grant, and
\* an initial grant follows only an enrollment.
EnrollmentsWhole ==
    /\ \A i \in DOMAIN events : events[i].event.type = "MemberEnrolled" =>
            /\ i < LastRevision
            /\ IsInitialGrant(events[i + 1].event)
            /\ events[i + 1].event.user = events[i].event.user
            /\ events[i + 1].key = events[i].key
            /\ events[i + 1].accepted_at = events[i].accepted_at
    /\ \A i \in DOMAIN events : IsInitialGrant(events[i].event) =>
            i > 1 /\ events[i - 1].event.type = "MemberEnrolled"

Loads ==
    /\ Contiguous
    /\ ReceiptsAgree
    /\ CommandsWhole
    /\ EnrollmentsWhole
    /\ Replay(History) # Invalid

\* Mutant: commands are decided against the published view, not a replay.
CachedView == [revision |-> LastRevision, state |-> cache.state]

\* load: the view of all committed rows.
CommittedView == [revision |-> LastRevision, state |-> Replay(History)]

\* What the committed rows say of the guild, and accepted_at of the last command.
Projection(rows, accepted) ==
    LET revisions(type, u) ==
            {i \in DOMAIN rows : rows[i].event.type = type /\ rows[i].event.user = u}
    IN  [ state |-> Replay([i \in DOMAIN rows |-> rows[i].event]),
          accepted |-> accepted,
          enrolled_at |-> [u \in Users |-> SumFunction(
              [i \in revisions("MemberEnrolled", u) |-> rows[i].event.enrolled_at])],
          granted |-> [u \in Users |-> SumFunction(
              [i \in revisions("PointsGranted", u) |-> rows[i].event.amount])] ]

-----------------------------------------------------------------------------
(* Workers.                                                                *)

\* Commands that need no membership evidence carry none.
Unverified == [kind |-> "Unavailable", user |-> System, bot |-> FALSE]

NoRequest == [key |-> << >>, actor |-> SystemActor, command |-> [op |-> "None"]]

Idle ==
    [ pc        |-> "idle",
      request   |-> NoRequest,
      evidence  |-> Unverified,
      attempt   |-> 0,
      view      |-> NoView,
      writes    |-> NoWrites ]

Init ==
    /\ events = << >> /\ commands = EmptyMap /\ channel = 0
    /\ lock = NoTask /\ orphan = NoWrites
    /\ cache = NoView /\ due = {}
    /\ task = [t \in Workers |-> Idle]
    /\ clock \in Times /\ defaults \in Policies
    /\ ticks = 0 /\ faults = 0
    /\ acked = {}
    /\ guild = Projection(<< >>, clock)

At(t, pc) == task[t].pc = pc
Goto(t, pc) == task' = [task EXCEPT ![t].pc = pc]

\* Mutant: the transaction is ended without giving up the lock.
ReleaseNothing(t) == UNCHANGED lock

\* The advisory lock is released when its transaction ends.
Release(t) == lock' = IF lock = t THEN NoTask ELSE lock
Ack(t) == acked' = acked \cup {<<task[t].request.key, task[t].request.actor.user>>}

\* The worker reports its result; the grant worker goes on with the next grant.
Done(t) ==
    /\ task' = [task EXCEPT ![t] = Idle]
    /\ due' = IF t = GrantWorker
              THEN {d \in due : task[t].request.key # <<"grant", d[1], d[2]>>}
              ELSE due

Fail(t) == Done(t) /\ Release(t) /\ UNCHANGED <<database, orphan, cache, environment, acked, guild>>

\* Disabling announcements (channel 0) is the one change that starts at the lock.
Entry(request) ==
    IF request.command.op = "Announce" /\ request.command.channel = 0
    THEN "lock" ELSE "preflight"

\* A handler starts on an interaction; its key is the interaction's or, for a
\* confirmation, the submission's.
Deliver(t, request) ==
    /\ t \in Tasks /\ At(t, "idle")
    /\ task' = [task EXCEPT ![t] = [Idle EXCEPT !.pc = Entry(request), !.request = request]]
    /\ UNCHANGED <<database, lock, orphan, memory, environment, acked, guild>>

\* grant_due: load a view of the guild ...
Scan ==
    /\ At(GrantWorker, "idle") /\ due = {}
    /\ events # << >> /\ Loads
    /\ task' = [task EXCEPT ![GrantWorker] =
                    [Idle EXCEPT !.pc = "scan", !.view = CommittedView]]
    /\ UNCHANGED <<database, lock, orphan, memory, environment, acked, guild>>

\* Mutant: the last view published wins.
LatestPublished(view) == view

\* publish: the newer of the cached view and this one.
Newer(view) == IF cache.revision >= view.revision THEN cache ELSE view

\* ... publish it, and collect the members with a grant due by the clock.
Discover ==
    /\ At(GrantWorker, "scan")
    /\ cache' = Newer(task[GrantWorker].view)
    /\ LET accounts == cache'.state.accounts
       IN  due' = {<<u, accounts[u].next_grant>> :
                    u \in {v \in DOMAIN accounts : accounts[v].next_grant <= clock}}
    /\ task' = [task EXCEPT ![GrantWorker] = Idle]
    /\ UNCHANGED <<database, lock, orphan, environment, acked, guild>>

\* The grants of a pass are executed one after the other, lowest user first.
IssueGrant ==
    /\ At(GrantWorker, "idle")
    /\ \E d \in due :
        /\ \A other \in due : d[1] <= other[1]
        /\ task' = [task EXCEPT ![GrantWorker] =
                [Idle EXCEPT !.pc = "preflight",
                             !.request = [key |-> <<"grant", d[1], d[2]>>,
                                          actor |-> SystemActor,
                                          command |-> [op |-> "Grant", user |-> d[1]]]]]
    /\ UNCHANGED <<database, lock, orphan, memory, environment, acked, guild>>

HasReceipt(t) == task[t].request.key \in DOMAIN commands
ActorMatches(t) == commands[task[t].request.key].actor = task[t].request.actor.user

\* Where a recovered receipt leads: execute refreshes the view, the announcement
\* configuration answers at once.
Recovered(t) ==
    IF task[t].request.command.op = "Announce" THEN "reply" ELSE "refresh"

\* Look for a receipt before anything else, without a lock.
Preflight(t) ==
    /\ At(t, "preflight")
    /\ HasReceipt(t) => ActorMatches(t)
    /\ Goto(t, IF HasReceipt(t) THEN Recovered(t) ELSE "verify")
    /\ UNCHANGED <<database, lock, orphan, memory, environment, acked, guild>>

PreflightMismatch(t) ==
    At(t, "preflight") /\ HasReceipt(t) /\ ~ActorMatches(t) /\ Fail(t)

\* A settlement looks up its actor, a new resolver is looked up themselves.
EvidenceFor(request) ==
    CASE request.command.op = "Resolve" -> {v \in Evidence : v.user = request.actor.user}
      [] request.command.op = "AddResolver" -> {v \in Evidence : v.user = request.command.user}
      [] OTHER -> {Unverified}

\* Await the membership lookup, holding nothing.
Verify(t) ==
    /\ At(t, "verify")
    /\ \E evidence \in EvidenceFor(task[t].request) :
            task' = [task EXCEPT ![t].evidence = evidence, ![t].pc = "lock"]
    /\ UNCHANGED <<database, lock, orphan, memory, environment, acked, guild>>

\* Discord does not confirm that the bot may post in the chosen channel.
RejectDestination(t) ==
    At(t, "verify") /\ task[t].request.command.op = "Announce" /\ Fail(t)

\* Mutant: the transaction does not wait for the lock.
LockWithoutWaiting(t) ==
    /\ At(t, "lock")
    /\ lock' = t
    /\ Goto(t, "locked")
    /\ UNCHANGED <<database, orphan, memory, environment, acked, guild>>

\* BEGIN, then wait for the guild's advisory lock.
Lock(t) ==
    /\ At(t, "lock")
    /\ lock = NoTask
    /\ lock' = t
    /\ Goto(t, "locked")
    /\ UNCHANGED <<database, orphan, memory, environment, acked, guild>>

\* Another delivery recorded the command meanwhile: end the transaction.
Recover(t) ==
    /\ At(t, "locked")
    /\ HasReceipt(t)
    /\ IF ActorMatches(t)
       THEN /\ Goto(t, Recovered(t)) /\ Release(t)
            /\ UNCHANGED <<database, orphan, memory, environment, acked, guild>>
       ELSE Fail(t)

Receipt(t, last_revision) ==
    [k \in {task[t].request.key} |->
        [actor |-> task[t].request.actor.user, accepted_at |-> clock,
         last_revision |-> last_revision]]

RowsOf(t, decision, revision) ==
    [i \in DOMAIN decision |->
        [revision |-> revision + i, key |-> task[t].request.key,
         accepted_at |-> clock, event |-> decision[i]]]

\* Mutant: a grant that is not due is recorded like any other command.
NeverRetryable(command, decision) == FALSE

\* A grant that is not due yet leaves no receipt: its key stays retryable.
Retryable(command, decision) == command.op = "Grant" /\ decision = << >>

\* transact: replay, read the clock, decide, and insert rows and receipt.
Transact(t) ==
    /\ At(t, "locked")
    /\ ~HasReceipt(t)
    /\ task[t].request.command.op # "Announce"
    /\ Loads
    /\ LET request == task[t].request
           view == CommittedView
           decisions == Decide(view.state, request.actor, request.command, clock,
                               defaults, task[t].evidence)
           writes(decision) ==
                [ rows |-> RowsOf(t, decision, view.revision),
                  receipts |-> Receipt(t, view.revision + Len(decision)),
                  channel |-> channel,
                  accepted |-> clock,
                  view |-> [revision |-> view.revision + Len(decision),
                            state |-> ApplyDecision(view.state, decision)] ]
       IN  IF decisions = {}
           THEN Fail(t)
           ELSE \E decision \in decisions :
                /\ IF Retryable(request.command, decision)
                   THEN /\ Release(t)
                        /\ task' = [task EXCEPT ![t].pc = "publish", ![t].view = view]
                   ELSE /\ UNCHANGED lock
                        /\ task' = [task EXCEPT ![t].pc = "commit",
                                                ![t].writes = writes(decision)]
                /\ UNCHANGED <<database, orphan, memory, environment, acked, guild>>

\* configure_announcements: a new destination is welcomed by an event after the
\* last revision; the history is not replayed.
Configure(t) ==
    /\ At(t, "locked")
    /\ ~HasReceipt(t)
    /\ task[t].request.command.op = "Announce"
    /\ LET request == task[t].request
           destination == request.command.channel
           welcome == IF destination # 0 /\ destination # channel
                      THEN <<[type |-> "AnnouncementsEnabled",
                              moderator |-> request.actor.user, enabled_at |-> clock]>>
                      ELSE << >>
       IN  task' = [task EXCEPT ![t].pc = "commit", ![t].writes =
                [ rows |-> RowsOf(t, welcome, LastRevision),
                  receipts |-> Receipt(t, LastRevision + Len(welcome)),
                  channel |-> destination,
                  view |-> NoView,
                  accepted |-> guild.accepted ]]
    /\ UNCHANGED <<database, lock, orphan, memory, environment, acked, guild>>

\* The primary keys of both tables.
Unique(writes) ==
    /\ DOMAIN writes.receipts \cap DOMAIN commands = {}
    /\ \A i \in DOMAIN writes.rows, j \in DOMAIN events :
            writes.rows[i].revision # events[j].revision

\* The writes of a transaction become visible together.
Store(writes) ==
    /\ events' = events \o writes.rows
    /\ commands' = [k \in DOMAIN commands \cup DOMAIN writes.receipts |->
                        IF k \in DOMAIN commands THEN commands[k] ELSE writes.receipts[k]]
    /\ channel' = writes.channel
    /\ guild' = Projection(events', writes.accepted)

\* Serialization failure, deadlock or unique violation: execute tries the whole
\* transaction again, twice at most; the announcement configuration gives up.
Retry(t) ==
    /\ Release(t)
    /\ IF task[t].attempt < 2 /\ task[t].request.command.op # "Announce"
       THEN /\ task' = [task EXCEPT ![t].attempt = @ + 1, ![t].pc = "lock",
                                    ![t].writes = NoWrites]
            /\ UNCHANGED due
       ELSE Done(t)

CommitTx(t) ==
    /\ At(t, "commit")
    /\ IF Unique(task[t].writes)
       THEN /\ Store(task[t].writes)
            /\ Release(t)
            /\ task' = [task EXCEPT ![t].pc = IF task[t].request.command.op = "Announce"
                                              THEN "reply" ELSE "publish",
                                    ![t].view = task[t].writes.view,
                                    ![t].writes = NoWrites]
            /\ UNCHANGED due
       ELSE Retry(t) /\ UNCHANGED <<database, guild>>
    /\ UNCHANGED <<orphan, cache, environment, acked>>

\* view: reload the committed history.
Refresh(t) ==
    /\ At(t, "refresh")
    /\ Loads
    /\ task' = [task EXCEPT ![t].pc = "publish", ![t].view = CommittedView]
    /\ UNCHANGED <<database, lock, orphan, memory, environment, acked, guild>>

\* publish, then report success.
Publish(t) ==
    /\ At(t, "publish")
    /\ cache' = Newer(task[t].view)
    /\ Done(t) /\ Ack(t)
    /\ UNCHANGED <<database, lock, orphan, environment, guild>>

Reply(t) ==
    /\ At(t, "reply")
    /\ Done(t) /\ Ack(t)
    /\ UNCHANGED <<database, lock, orphan, cache, environment, guild>>

-----------------------------------------------------------------------------
(* Faults and the environment.                                             *)

Fault == faults < MaxFaults /\ faults' = faults + 1

\* A transaction fails transiently before its COMMIT.
Transient(t) ==
    /\ Fault
    /\ task[t].pc \in {"lock", "locked", "commit"}
    /\ Retry(t)
    /\ UNCHANGED <<database, orphan, cache, clock, defaults, ticks, acked, guild>>

\* The connection is lost: the worker reports an error.  A COMMIT under way is
\* left to the server.
Disconnect(t) ==
    /\ Fault
    /\ task[t].pc \in {"preflight", "lock", "locked", "commit", "refresh"}
    /\ Done(t)
    /\ IF At(t, "commit")
       THEN orphan' = task[t].writes /\ lock' = Orphan
       ELSE Release(t) /\ UNCHANGED orphan
    /\ UNCHANGED <<database, cache, clock, defaults, ticks, acked, guild>>

\* The process dies with all its tasks and its cache, and is started again,
\* perhaps with another policy; connect replays the history.
Crash ==
    /\ Fault
    /\ Loads
    /\ task' = [t \in Workers |-> Idle]
    /\ due' = {}
    /\ cache' = CommittedView
    /\ \E policy \in Policies : defaults' = policy
    /\ IF lock \in Workers /\ task[lock].pc = "commit"
       THEN orphan' = task[lock].writes /\ lock' = Orphan
       ELSE /\ lock' = IF lock \in Workers THEN NoTask ELSE lock
            /\ UNCHANGED orphan
    /\ UNCHANGED <<database, clock, ticks, acked, guild>>

\* The server finishes a COMMIT nobody waits for, or aborts the session.
OrphanCommit ==
    /\ lock = Orphan
    /\ Unique(orphan)
    /\ Store(orphan)
    /\ lock' = NoTask /\ orphan' = NoWrites
    /\ UNCHANGED <<memory, task, environment, acked>>

OrphanAbort ==
    /\ lock = Orphan
    /\ lock' = NoTask /\ orphan' = NoWrites
    /\ UNCHANGED <<database, memory, task, environment, acked, guild>>

Tick ==
    /\ ticks < MaxTicks /\ ticks' = ticks + 1
    /\ \E time \in Times \ {clock} : clock' = time
    /\ UNCHANGED <<database, lock, orphan, memory, task, defaults, faults, acked, guild>>

Step(t) ==
    \/ Preflight(t) \/ PreflightMismatch(t) \/ Verify(t) \/ RejectDestination(t)
    \/ Recover(t) \/ Transact(t) \/ Configure(t)
    \/ CommitTx(t) \/ Refresh(t) \/ Publish(t) \/ Reply(t)

\* Everything but the deliveries of Discord.
Internal ==
    \/ \E t \in Workers : Lock(t) \/ Step(t) \/ Transient(t) \/ Disconnect(t)
    \/ Scan \/ Discover \/ IssueGrant
    \/ Crash \/ OrphanCommit \/ OrphanAbort
    \/ Tick

Next ==
    \/ \E t \in Tasks, request \in Requests : Deliver(t, request)
    \/ Internal

Spec == Init /\ [][Next]_vars

\* Tasks keep running, PostgreSQL serves waiters for an advisory lock in turn,
\* the server ends an abandoned session, and grant_due is run again and again.
\* Deliveries, faults and changes of the clock are not assumed to happen.
Fairness ==
    /\ \A t \in Workers : WF_vars(Step(t)) /\ SF_vars(Lock(t))
    /\ WF_vars(OrphanCommit \/ OrphanAbort)
    /\ WF_vars(Scan) /\ WF_vars(Discover) /\ WF_vars(IssueGrant)

FairSpec == Spec /\ Fairness

-----------------------------------------------------------------------------
(* Properties.                                                             *)

\* The guild lock keeps writers from colliding: no transaction that has decided
\* ever finds its revisions or its receipt taken.  So the committed history can
\* be loaded whatever the interleaving of commands, configuration changes,
\* retries and crashes: load finds it contiguous, in agreement with its
\* receipts, with whole commands and enrollments, and domain replay accepts
\* every event.  A history that does not load stops the guild.
WritersNeverCollide ==
    /\ \A t \in Workers : At(t, "commit") => Unique(task[t].writes)
    /\ lock = Orphan => Unique(orphan)
    /\ Loads

\* Success is reported only for a command whose receipt is committed under that
\* member's name, and it stays committed through every crash and lost COMMIT.
\* The member finds it in the published view, whatever older views slower tasks
\* publish afterwards, and that view is a committed prefix of the history.
ReadYourWrites ==
    /\ \A request \in Requests :
          <<request.key, request.actor.user>> \in acked =>
              /\ request.key \in DOMAIN commands
              /\ commands[request.key].actor = request.actor.user
              /\ request.command.op # "Announce" =>
                    cache.revision >= commands[request.key].last_revision
    /\ cache.revision <= LastRevision
    /\ cache.state = Replay(SubSeq(History, 1, cache.revision))

\* A member's grant that is due is eventually made, even when the clock was set
\* back between finding it and deciding it, or a COMMIT was lost.
GrantsArrive ==
    \A u \in Users :
        LET isDue == /\ u \in DOMAIN guild.state.accounts
                     /\ guild.state.accounts[u].next_grant <= clock
        IN  isDue ~> ~isDue

\* Every delivered request is answered: no task waits for the lock for ever.
RequestsAnswered == \A t \in Tasks : ~At(t, "idle") ~> At(t, "idle")

-----------------------------------------------------------------------------
(* Refinement: committed commands are the commands of Economy.             *)

CommandsOf(op) == {r.command : r \in {q \in Requests : q.command.op = op}}

Abstract == INSTANCE Economy WITH
    Actors <- {request.actor : request \in Requests},
    Closings <- {command.closes_at : command \in CommandsOf("Create")},
    Stakings <- {command.amount : command \in CommandsOf("Bet")},
    OptionCounts <- {command.options : command \in CommandsOf("Create")},
    state <- guild.state,
    now <- guild.accepted,
    enrolled_at <- guild.enrolled_at,
    granted <- guild.granted

\* The store implements Economy: every commit, also one that is retried, left
\* behind by a crash or raced by another delivery of the same key, is exactly
\* one accepted command against the state of all earlier commits.
ImplementsEconomy == Abstract!Spec
=============================================================================
