------------------------------ MODULE Gateway ------------------------------
(***************************************************************************)
(* The life of prediction_bot processes that share one database: start-up, *)
(* the gateway's advisory lock, the workers and interaction handlers on a  *)
(* bounded connection pool, and the shutdown under one deadline.           *)
(*                                                                         *)
(* prediction_bot/bin/src/{main,health}.rs, discord.rs (run_with_http to   *)
(* run_gateway_client_with_clock, grant_worker), store.rs (connect,        *)
(* gateway_guard, transact) and announcements (the worker's batches and    *)
(* finish_attempt).  Two processes of one application meet during a        *)
(* deployment.  What a task computes is in EventStore and Announcements;   *)
(* here it is the connections and locks it holds while it does so.         *)
(***************************************************************************)
EXTENDS Integers, FiniteSets

CONSTANTS
    Processes,      \* processes of one application
    Handlers,       \* interaction handler tasks of a process
    Guilds,         \* guilds with history
    BatchSize,      \* announcements delivered at once: 8 in the code
    PoolSize,       \* connections of a process's pool: 10 in the code
    Losing,         \* bound: processes whose guard session the database may drop
    Busy            \* bound: processes with interactions and due announcements; the
                    \* others have grants only

Workers == {"grants", "announcements"}
None == "none"

\* The tasks that run transactions.  The announcement worker runs none itself: it
\* spawns an attempt for each due guild, and a guild stands for its attempt.
Tasks == {"grants"} \cup Handlers \cup Guilds

ASSUME PoolSizeAssumption == PoolSize \in Nat \ {0, 1}
ASSUME ProcessAssumption == None \notin Processes
ASSUME TaskAssumption ==
    /\ IsFiniteSet(Handlers) /\ IsFiniteSet(Guilds)
    /\ Handlers \cap Guilds = {}
    /\ "grants" \notin Handlers \cup Guilds
    /\ None \notin Guilds

VARIABLES
    phase,          \* where main is, per process
    guard,          \* the guard connection: "none", "held", "lost"
    advisory,       \* the process whose session holds the gateway lock
    gateway,        \* the serenity client: "off", "open", "closed" or given up on
    alive,          \* spawned workers that have not ended
    batch,          \* announcement attempts that have not ended
    pc,             \* where each task's transaction is, and its guild
    guild_lock,     \* the <<process, task>> whose session holds a guild's lock
    lost            \* processes whose guard session the database dropped

process == <<phase, guard, advisory, gateway, alive, batch>>
vars == <<phase, guard, advisory, gateway, alive, batch, pc, guild_lock, lost>>

Nobody == <<None, None>>
Place(at, guild) == [at |-> at, guild |-> guild]
Idle == Place("idle", None)

Init ==
    /\ phase = [p \in Processes |-> "off"]
    /\ guard = [p \in Processes |-> "none"]
    /\ advisory = None
    /\ gateway = [p \in Processes |-> "off"]
    /\ alive = [p \in Processes |-> {}]
    /\ batch = [p \in Processes |-> {}]
    /\ pc = [p \in Processes |-> [t \in Tasks |-> Idle]]
    /\ guild_lock = [g \in Guilds |-> Nobody]
    /\ lost = {}

-----------------------------------------------------------------------------
(* The pool and the tasks on it.                                           *)

At(p, t, where) == pc[p][t].at = where
Goto(p, t, where) == pc' = [pc EXCEPT ![p][t] = where]

\* Mutant: a transaction's connection is kept while the view is refreshed.
KeepsConnection(p, t) == pc[p][t].at \in {"lock", "locked", "refresh", "reading"}

\* A transaction's connection goes back to the pool when it ends; that of a dropped
\* transaction once its last statement was answered.
HasConnection(p, t) == pc[p][t].at \in {"lock", "locked", "reading"}

\* The guard's connection is one of the pool's.
InUse(p) == Cardinality({t \in Tasks : HasConnection(p, t)})
            + (IF guard[p] = "none" THEN 0 ELSE 1)

\* The task may run.  Handlers start with the gateway and outlive it, up to the end of
\* the process.
Lives(p, t) ==
    \/ t = "grants" /\ t \in alive[p]
    \/ t \in batch[p]
    \/ t \in Handlers /\ gateway[p] # "off" /\ phase[p] # "ended"

\* The announcement worker polls between two batches, until it is told to stop:
\* next_due returns one announcement of each guild at most.
SpawnBatch(p, due) ==
    /\ p \in Busy
    /\ phase[p] = "running" /\ "announcements" \in alive[p]
    /\ batch[p] = {}
    /\ due # {} /\ Cardinality(due) <= BatchSize
    /\ batch' = [batch EXCEPT ![p] = due]
    /\ UNCHANGED <<phase, guard, advisory, gateway, alive, pc, guild_lock, lost>>

\* The announcement is no longer eligible, or its attempt got no connection.
AttemptEnds(p, guild) ==
    /\ guild \in batch[p] /\ At(p, guild, "idle")
    /\ batch' = [batch EXCEPT ![p] = @ \ {guild}]
    /\ UNCHANGED <<phase, guard, advisory, gateway, alive, pc, guild_lock, lost>>

\* A grant of a round, an interaction, or an attempt to be recorded (finish_attempt):
\* pool.begin has a connection.  A task still waiting for one holds nothing and is
\* like one that has not begun.
Begin(p, t, guild) ==
    /\ Lives(p, t) /\ pc[p][t] = Idle
    /\ t \in Handlers => p \in Busy
    /\ t \in Guilds => guild = t
    /\ InUse(p) < PoolSize
    /\ Goto(p, t, Place("lock", guild))
    /\ UNCHANGED <<process, guild_lock, lost>>

\* pg_advisory_xact_lock waits, holding the connection; also in the session of a
\* task that was aborted meanwhile.
LockGuild(p, t, guild) ==
    /\ pc[p][t] = Place("lock", guild)
    /\ guild_lock[guild] = Nobody
    /\ guild_lock' = [guild_lock EXCEPT ![guild] = <<p, t>>]
    /\ Goto(p, t, Place("locked", guild))
    /\ UNCHANGED <<process, lost>>

\* The transaction ends, and with it its lock.
EndTransaction(p, t, next) ==
    /\ guild_lock' = [g \in Guilds |-> IF guild_lock[g] = <<p, t>> THEN Nobody ELSE guild_lock[g]]
    /\ Goto(p, t, next)

\* The decision or the outcome is committed, or an error drops the transaction.
Commit(p, t) ==
    /\ Lives(p, t) /\ At(p, t, "locked")
    /\ EndTransaction(p, t, Idle)
    /\ batch' = [batch EXCEPT ![p] = @ \ {t}]
    /\ UNCHANGED <<phase, guard, advisory, gateway, alive, lost>>

\* transact found a receipt: the transaction ends first, then the view is refreshed
\* on a connection acquired anew.  An attempt has no receipt.
CommitAndRefresh(p, t) ==
    /\ Lives(p, t) /\ At(p, t, "locked") /\ t \notin Guilds
    /\ EndTransaction(p, t, Place("refresh", None))
    /\ UNCHANGED <<process, lost>>

ReadView(p, t) ==
    /\ At(p, t, "refresh")
    /\ InUse(p) < PoolSize
    /\ Goto(p, t, Place("reading", None))
    /\ UNCHANGED <<process, guild_lock, lost>>

\* The view is published; or no connection came within sqlx's acquire timeout.
Answer(p, t) ==
    /\ \/ At(p, t, "reading")
       \/ At(p, t, "refresh") /\ InUse(p) = PoolSize
    /\ Goto(p, t, Idle)
    /\ UNCHANGED <<process, guild_lock, lost>>

\* The session of an aborted task, or of a process that ended, ends in the server:
\* rolled back, or committed when the COMMIT was under way.
SessionEnds(p, t) ==
    /\ ~Lives(p, t) /\ pc[p][t].at \in {"lock", "locked"}
    /\ EndTransaction(p, t, Idle)
    /\ UNCHANGED <<process, lost>>

TaskStep(p, t) ==
    \/ \E guild \in Guilds : LockGuild(p, t, guild)
    \/ Commit(p, t) \/ CommitAndRefresh(p, t)
    \/ ReadView(p, t) \/ Answer(p, t) \/ SessionEnds(p, t)

\* Tasks are aborted.  A read is given up, while a transaction is left to the server,
\* in whatever statement it is.
Drop(p, dropped) ==
    pc' = [pc EXCEPT ![p] = [t \in Tasks |->
        IF t \in dropped /\ @[t].at \in {"refresh", "reading"} THEN Idle ELSE @[t]]]

-----------------------------------------------------------------------------
(* Start-up.                                                               *)

\* main: the health listener is bound and the bot starts; run_bot verifies the
\* application and connects the store, which replays every guild.
Start(p) ==
    /\ phase[p] = "off"
    /\ phase' = [phase EXCEPT ![p] = "connected"]
    /\ UNCHANGED <<guard, advisory, gateway, alive, batch, pc, guild_lock, lost>>

\* Configuration, schema, role or history is refused.
StartFails(p) ==
    /\ phase[p] = "off"
    /\ phase' = [phase EXCEPT ![p] = "stopping"]
    /\ UNCHANGED <<guard, advisory, gateway, alive, batch, pc, guild_lock, lost>>

\* pg_try_advisory_lock on the application's key does not wait.
GuardFree(p) == advisory = None

\* run_with_http: take the lock on a connection of its own, build the client,
\* spawn the workers and start the gateway.
GatewayGuard(p) ==
    /\ phase[p] = "connected"
    /\ GuardFree(p)
    /\ guard' = [guard EXCEPT ![p] = "held"]
    /\ advisory' = p
    /\ phase' = [phase EXCEPT ![p] = "guarded"]
    /\ UNCHANGED <<gateway, alive, batch, pc, guild_lock, lost>>

\* "another gateway is already running"
GuardRefused(p) ==
    /\ phase[p] = "connected"
    /\ ~GuardFree(p)
    /\ phase' = [phase EXCEPT ![p] = "stopping"]
    /\ UNCHANGED <<guard, advisory, gateway, alive, batch, pc, guild_lock, lost>>

RunGateway(p) ==
    /\ phase[p] = "guarded"
    /\ phase' = [phase EXCEPT ![p] = "running"]
    /\ gateway' = [gateway EXCEPT ![p] = "open"]
    /\ alive' = [alive EXCEPT ![p] = Workers]
    /\ UNCHANGED <<guard, advisory, batch, pc, guild_lock, lost>>

\* The current user or the client cannot be obtained.
ClientFails(p) ==
    /\ phase[p] = "guarded"
    /\ phase' = [phase EXCEPT ![p] = "release"]
    /\ UNCHANGED <<guard, advisory, gateway, alive, batch, pc, guild_lock, lost>>

-----------------------------------------------------------------------------
(* Shutdown.                                                               *)

\* The select ends: a signal, the gateway, or the announcement worker.  The
\* deadline is published, then both workers are told.  A worker that ended by itself
\* dropped its attempts.
Select(p, ended) ==
    /\ phase[p] = "running"
    /\ phase' = [phase EXCEPT ![p] = "draining"]
    /\ gateway' = [gateway EXCEPT ![p] = IF ended = "gateway" THEN "closed" ELSE @]
    /\ alive' = [alive EXCEPT ![p] = @ \ {ended}]
    /\ batch' = IF ended = "announcements" THEN [batch EXCEPT ![p] = {}] ELSE batch
    /\ UNCHANGED <<guard, advisory, pc, guild_lock, lost>>

\* A worker sees the signal between two rounds, or after its last batch.
WorkerStops(p, w) ==
    /\ phase[p] \in {"draining", "overdue"}
    /\ w \in alive[p]
    /\ IF w = "grants" THEN At(p, w, "idle") ELSE batch[p] = {}
    /\ alive' = [alive EXCEPT ![p] = @ \ {w}]
    /\ UNCHANGED <<phase, guard, advisory, gateway, batch, pc, guild_lock, lost>>

GatewayCloses(p) ==
    /\ phase[p] = "draining"
    /\ gateway[p] = "open"
    /\ gateway' = [gateway EXCEPT ![p] = "closed"]
    /\ UNCHANGED <<phase, guard, advisory, alive, batch, pc, guild_lock, lost>>

\* Mutant: the deadline is only for the workers.
DeadlineSparesGateway(p) ==
    /\ phase[p] = "draining"
    /\ phase' = [phase EXCEPT ![p] = "overdue"]
    /\ UNCHANGED <<guard, advisory, gateway, alive, batch, pc, guild_lock, lost>>

\* The shared shutdown deadline: the gateway is no longer waited for.
DeadlinePasses(p) ==
    /\ phase[p] = "draining"
    /\ phase' = [phase EXCEPT ![p] = "overdue"]
    /\ gateway' = [gateway EXCEPT ![p] = "closed"]
    /\ UNCHANGED <<guard, advisory, alive, batch, pc, guild_lock, lost>>

\* After the deadline the grant worker is aborted and awaited; the announcement worker
\* aborts and awaits its attempts.  The sessions of their transactions are left behind.
AbortWorker(p, w) ==
    /\ phase[p] = "overdue" /\ w \in alive[p]
    /\ alive' = [alive EXCEPT ![p] = @ \ {w}]
    /\ batch' = IF w = "announcements" THEN [batch EXCEPT ![p] = {}] ELSE batch
    /\ Drop(p, {w})
    /\ UNCHANGED <<phase, guard, advisory, gateway, guild_lock, lost>>

\* Mutant: the deadline ends the wait for the workers without aborting them.
JoinedAtDeadline(p) == gateway[p] = "closed" /\ (alive[p] = {} \/ phase[p] = "overdue")

\* join!: both workers have ended; the gateway is closed or given up on.
Joined(p) == gateway[p] = "closed" /\ alive[p] = {}

Join(p) ==
    /\ phase[p] \in {"draining", "overdue"}
    /\ Joined(p)
    /\ phase' = [phase EXCEPT ![p] = "release"]
    /\ UNCHANGED <<guard, advisory, gateway, alive, batch, pc, guild_lock, lost>>

\* guard.close ends the session, and with it the lock.
ReleaseGuard(p) ==
    /\ phase[p] = "release"
    /\ guard' = [guard EXCEPT ![p] = "none"]
    /\ advisory' = IF advisory = p THEN None ELSE advisory
    /\ phase' = [phase EXCEPT ![p] = "stopping"]
    /\ UNCHANGED <<gateway, alive, batch, pc, guild_lock, lost>>

\* The end of the process, whichever way: every session is closed.  One that waits for
\* a lock will do nothing more, while a COMMIT under way ends in its own time.
Ended(p) ==
    /\ phase' = [phase EXCEPT ![p] = "ended"]
    /\ guard' = [guard EXCEPT ![p] = "none"]
    /\ advisory' = IF advisory = p THEN None ELSE advisory
    /\ gateway' = [gateway EXCEPT ![p] = "closed"]
    /\ alive' = [alive EXCEPT ![p] = {}]
    /\ batch' = [batch EXCEPT ![p] = {}]
    /\ pc' = [pc EXCEPT ![p] = [t \in Tasks |-> IF At(p, t, "locked") THEN @[t] ELSE Idle]]
    /\ UNCHANGED <<guild_lock, lost>>

\* health::supervise: the bot ended; the server is drained for at most 5 seconds.
Exit(p) == phase[p] = "stopping" /\ Ended(p)

\* The process is killed, or its health server stops and the bot is dropped.
Die(p) == phase[p] \notin {"off", "ended"} /\ Ended(p)

\* The database drops the session of the guard; nothing tells the process.
LoseGuard(p) ==
    /\ guard[p] = "held"
    /\ p \in Losing
    /\ lost' = lost \cup {p}
    /\ guard' = [guard EXCEPT ![p] = "lost"]
    /\ advisory' = None
    /\ UNCHANGED <<phase, gateway, alive, batch, pc, guild_lock>>

\* What the process does by itself, once started.
Proceed(p) ==
    \/ GatewayGuard(p) \/ GuardRefused(p) \/ RunGateway(p) \/ ClientFails(p)
    \/ DeadlinePasses(p) \/ Join(p) \/ ReleaseGuard(p) \/ Exit(p)
    \/ \E w \in Workers : AbortWorker(p, w)

Next ==
    \E p \in Processes :
        \/ Start(p) \/ StartFails(p) \/ Die(p) \/ LoseGuard(p) \/ GatewayCloses(p)
        \/ \E ended \in {"signal", "gateway", "announcements"} : Select(p, ended)
        \/ Proceed(p)
        \/ \E w \in Workers : WorkerStops(p, w)
        \/ \E due \in SUBSET Guilds : SpawnBatch(p, due)
        \/ \E guild \in Guilds : AttemptEnds(p, guild)
        \/ \E t \in Tasks : TaskStep(p, t) \/ \E guild \in Guilds : Begin(p, t, guild)

\* A process goes on when it can: the runtime runs main, and a timer fires.  No task
\* need ever stop by itself, Discord need not close the gateway, nor the database answer.
Fairness == \A p \in Processes : WF_vars(Proceed(p))

Spec == Init /\ [][Next]_vars
FairSpec == Spec /\ Fairness

-----------------------------------------------------------------------------
(* Properties.                                                             *)

\* Workers and their attempts run within the life of their process's guard: the lock is
\* given up only after both workers ended or were aborted and awaited, so the workers
\* of two processes overlap only after the database dropped a session.  The comment at
\* discord.rs:1723 says more, "so their database writes cannot outlive the lock": a
\* COMMIT that an aborted task had sent may still take effect later (SessionEnds).
WorkersWithinGuard ==
    \A p \in Processes :
        alive[p] # {} \/ batch[p] # {} =>
            /\ guard[p] # "none"
            /\ lost = {} => \A q \in Processes \ {p} : alive[q] = {} /\ batch[q] = {}

\* A holder of a connection that cannot go on: it needs another one from a full pool,
\* or the lock of a guild in the hands of a session that is not in its transaction.
Stuck(p, t) ==
    \/ At(p, t, "refresh") /\ InUse(p) = PoolSize
    \/ \E guild \in Guilds :
           /\ pc[p][t] = Place("lock", guild)
           /\ guild_lock[guild] # Nobody
           /\ LET holder == guild_lock[guild] IN
                  pc[holder[1]][holder[2]] # Place("locked", guild)

\* The pool cannot starve itself, although grants, interactions and a batch of attempts
\* all wait for guild locks with a connection in hand, and may be aborted there: a
\* transaction gives its connection and its lock back before the view is refreshed, so
\* every holder of a connection can go on or waits for a session that can; and a pool
\* that is full is not full of the guard alone.
PoolMakesProgress ==
    \A p \in Processes :
        /\ \A t \in Tasks : HasConnection(p, t) => ~Stuck(p, t)
        /\ InUse(p) = PoolSize => \E t \in Tasks : HasConnection(p, t)

\* A shutdown that has begun ends the process within the shared deadline, although
\* the gateway may never close and a worker may be stuck in a transaction.
ShutdownEnds == \A p \in Processes : phase[p] = "draining" ~> phase[p] = "ended"
=============================================================================
