--------------------------- MODULE ProtocolProofs --------------------------
(***************************************************************************)
(* What processes that share a database, or GitHub, keep between them.     *)
(*                                                                         *)
(* Gateway, for any number of processes, handlers, guilds and connections: *)
(* workers run only while their process holds the guard, and whoever holds *)
(* a connection can go on, or waits for a session that can.                *)
(*                                                                         *)
(* MergeVerification, for any heads, files, policies and builds: each read *)
(* of a command vouches for a gate of the head it is about, so a receipt   *)
(* that passes is of a head whose gates were all open.                     *)
(*                                                                         *)
(* Publication, for any plan, faults and edits: what a ticket was asked    *)
(* for bounds its issues, and what is saved says what was asked for, so a  *)
(* ticket is not doubled and a report leaves nothing in doubt.             *)
(*                                                                         *)
(* HostedReview, for any heads, timeout, faults and commands: what is      *)
(* saved, posted and lost stays in step, so no commit is asked for twice   *)
(* within the timeout, and no wake repeats what was heard.                 *)
(***************************************************************************)
EXTENDS Gateway, Tools, FiniteSetTheorems, NaturalsInduction, WellFoundedInduction, TLAPS

-----------------------------------------------------------------------------
(* The gateway.                                                             *)

Phases == {"off", "connected", "guarded", "running", "draining", "overdue", "release",
           "stopping", "ended"}

\* Where a task's transaction is: with a guild from its beginning to its end.
Places ==
    {Place(at, None) : at \in {"idle", "refresh", "reading"}}
        \cup {Place(at, g) : at \in {"lock", "locked"}, g \in Guilds}

\* The states of a process, of its tasks, and of the locks in the database.
TypeOK ==
    /\ phase \in [Processes -> Phases]
    /\ guard \in [Processes -> {"none", "held", "lost"}]
    /\ advisory \in Processes \cup {None}
    /\ gateway \in [Processes -> {"off", "open", "closed"}]
    /\ alive \in [Processes -> SUBSET Workers]
    /\ batch \in [Processes -> SUBSET Guilds]
    /\ pc \in [Processes -> [Tasks -> Places]]
    /\ guild_lock \in [Guilds -> (Processes \X Tasks) \cup {Nobody}]
    /\ lost \in SUBSET Processes

\* main holds the guard's connection from gateway_guard to guard.close, and no
\* other way: every path to the end of the process gives it up.
GuardFollowsPhase ==
    \A p \in Processes :
        guard[p] # "none" <=> phase[p] \in {"guarded", "running", "draining", "overdue", "release"}

\* The advisory lock is in the hands of the process that believes so, until the
\* database drops its session.
OneHolder == \A p \in Processes : guard[p] = "held" <=> advisory = p

\* A guard is lost only when the database dropped a session.
LossesCounted == lost = {} => \A p \in Processes : guard[p] # "lost"

\* Workers live between their spawning and join!, and attempts within their worker.
WorkersLive ==
    \A p \in Processes :
        /\ alive[p] # {} => phase[p] \in {"running", "draining", "overdue"}
        /\ batch[p] # {} => "announcements" \in alive[p]

\* A guild's lock belongs to the session that is in a transaction of that guild.
LockInTransaction ==
    \A p \in Processes : \A t \in Tasks : \A g \in Guilds :
        guild_lock[g] = <<p, t>> <=> pc[p][t] = Place("locked", g)

IInv ==
    /\ TypeOK
    /\ GuardFollowsPhase
    /\ OneHolder
    /\ LossesCounted
    /\ WorkersLive
    /\ LockInTransaction

-----------------------------------------------------------------------------
(* The steps of a process.                                                 *)

\* What the proofs below keep needing of the constants.
LEMMA Constants ==
    /\ None \notin Processes
    /\ IsFiniteSet(Tasks)
    /\ "grants" \in Tasks /\ Guilds \subseteq Tasks /\ Handlers \subseteq Tasks
    /\ None \notin Guilds
    /\ PoolSize \in Nat /\ PoolSize >= 2
<1>1. IsFiniteSet({"grants"})
    BY FS_Singleton
<1>2. IsFiniteSet({"grants"} \cup Handlers)
    BY <1>1, FS_Union, TaskAssumption
<1>3. IsFiniteSet(({"grants"} \cup Handlers) \cup Guilds)
    BY <1>2, FS_Union, TaskAssumption
<1> QED
    BY <1>3, ProcessAssumption, TaskAssumption, PoolSizeAssumption DEF Tasks

\* Where a task is decides its guild, and a place is told by its two parts.
LEMMA PlaceFacts ==
    /\ Idle \in Places
    /\ \A place \in Places :
           /\ place.at \in {"idle", "lock", "locked", "refresh", "reading"}
           /\ place = Place(place.at, place.guild)
           /\ place.at \in {"lock", "locked"} <=> place.guild \in Guilds
           /\ place.at \notin {"lock", "locked"} <=> place.guild = None
    /\ \A at, guild, at2, guild2 :
           Place(at, guild) = Place(at2, guild2) <=> at = at2 /\ guild = guild2
    /\ \A guild \in Guilds : \A at \in {"lock", "locked"} : Place(at, guild) \in Places
    /\ \A at \in {"idle", "refresh", "reading"} : Place(at, None) \in Places
<1>1. \A at, guild, at2, guild2 :
          Place(at, guild) = Place(at2, guild2) <=> at = at2 /\ guild = guild2
    BY DEF Place
<1>2. \A at, guild : Place(at, guild).at = at /\ Place(at, guild).guild = guild
    BY DEF Place
<1>3. \A guild \in Guilds : \A at \in {"lock", "locked"} : Place(at, guild) \in Places
    BY DEF Places
<1>4. \A at \in {"idle", "refresh", "reading"} : Place(at, None) \in Places
    BY DEF Places
<1>5. ASSUME NEW place \in Places
      PROVE  /\ place.at \in {"idle", "lock", "locked", "refresh", "reading"}
             /\ place = Place(place.at, place.guild)
             /\ place.at \in {"lock", "locked"} <=> place.guild \in Guilds
             /\ place.at \notin {"lock", "locked"} <=> place.guild = None
    <2>1. CASE \E at \in {"idle", "refresh", "reading"} : place = Place(at, None)
        BY <1>2, <2>1, Constants
    <2>2. CASE \E at \in {"lock", "locked"} : \E g \in Guilds : place = Place(at, g)
        BY <1>2, <2>2, Constants
    <2> QED BY <2>1, <2>2 DEF Places
<1>6. Idle \in Places
    BY <1>4 DEF Idle
<1> QED BY <1>1, <1>3, <1>4, <1>5, <1>6

\* No process, no guard and no task has begun.
LEMMA InitIInv == Init => IInv
<1> SUFFICES ASSUME Init PROVE IInv
    OBVIOUS
<1>1. TypeOK
    BY PlaceFacts DEF Init, TypeOK, Phases
<1>2. LockInTransaction
    BY PlaceFacts, Constants DEF Init, LockInTransaction, Nobody, Idle
<1> QED
    BY <1>1, <1>2, Constants DEF Init, IInv, GuardFollowsPhase, OneHolder, LossesCounted,
        WorkersLive

\* A step that leaves the sessions in transactions where they are, and gives up reads
\* at most, keeps the lock invariant.
LEMMA SessionsKept ==
    ASSUME IInv, guild_lock' = guild_lock,
           pc' \in [Processes -> [Tasks -> Places]],
           \A p \in Processes : \A t \in Tasks :
               (pc[p][t].at = "locked" \/ pc'[p][t].at = "locked") => pc'[p][t] = pc[p][t]
    PROVE  LockInTransaction'
<1> SUFFICES ASSUME NEW p \in Processes, NEW t \in Tasks, NEW g \in Guilds
             PROVE  guild_lock[g] = <<p, t>> <=> pc'[p][t] = Place("locked", g)
    BY DEF LockInTransaction
<1>1. guild_lock[g] = <<p, t>> <=> pc[p][t] = Place("locked", g)
    BY DEF IInv, LockInTransaction
<1>2. Place("locked", g).at = "locked"
    BY DEF Place
<1> QED BY <1>1, <1>2

\* Dropping tasks gives up reads only.
LEMMA DropKeeps ==
    ASSUME NEW p \in Processes, NEW dropped, IInv, guild_lock' = guild_lock, Drop(p, dropped)
    PROVE  pc' \in [Processes -> [Tasks -> Places]] /\ LockInTransaction'
<1> DEFINE row == [t \in Tasks |->
              IF t \in dropped /\ pc[p][t].at \in {"refresh", "reading"} THEN Idle ELSE pc[p][t]]
<1>1. pc' = [pc EXCEPT ![p] = row]
    BY DEF Drop
<1>2. row \in [Tasks -> Places]
    BY PlaceFacts DEF IInv, TypeOK
<1>3. pc' \in [Processes -> [Tasks -> Places]]
    BY <1>1, <1>2 DEF IInv, TypeOK
<1>4. \A q \in Processes : \A t \in Tasks :
          (pc[q][t].at = "locked" \/ pc'[q][t].at = "locked") => pc'[q][t] = pc[q][t]
    <2> TAKE q \in Processes
    <2> TAKE t \in Tasks
    <2>1. CASE q = p
        BY <1>1, <2>1 DEF IInv, TypeOK, Idle, Place
    <2>2. CASE q # p
        BY <1>1, <2>2 DEF IInv, TypeOK
    <2> QED BY <2>1, <2>2
<1> QED BY <1>3, <1>4, SessionsKept

\* The end of a process leaves the sessions that hold a guild.
LEMMA EndedKeeps ==
    ASSUME NEW p \in Processes, IInv, Ended(p)
    PROVE  IInv'
<1> DEFINE row == [t \in Tasks |-> IF At(p, t, "locked") THEN pc[p][t] ELSE Idle]
<1>1. pc' = [pc EXCEPT ![p] = row] /\ guild_lock' = guild_lock
    BY DEF Ended
<1>2. row \in [Tasks -> Places]
    BY PlaceFacts DEF IInv, TypeOK
<1>3. pc' \in [Processes -> [Tasks -> Places]]
    BY <1>1, <1>2 DEF IInv, TypeOK
<1>4. \A q \in Processes : \A t \in Tasks :
          (pc[q][t].at = "locked" \/ pc'[q][t].at = "locked") => pc'[q][t] = pc[q][t]
    <2> TAKE q \in Processes
    <2> TAKE t \in Tasks
    <2>1. CASE q = p
        BY <1>1, <2>1 DEF IInv, TypeOK, Idle, Place, At
    <2>2. CASE q # p
        BY <1>1, <2>2 DEF IInv, TypeOK
    <2> QED BY <2>1, <2>2
<1>5. LockInTransaction'
    BY <1>1, <1>3, <1>4, SessionsKept
<1>6. (GuardFollowsPhase /\ OneHolder /\ LossesCounted /\ WorkersLive)'
    BY Constants DEF Ended, IInv, TypeOK, GuardFollowsPhase, OneHolder, LossesCounted, WorkersLive
<1> QED BY <1>1, <1>3, <1>5, <1>6 DEF IInv, TypeOK, Ended, Phases

\* A step of main, of the gateway or of the database keeps the invariant.
LEMMA ProcessStep ==
    ASSUME NEW p \in Processes, IInv,
           \/ Start(p) \/ StartFails(p) \/ Die(p) \/ LoseGuard(p) \/ GatewayCloses(p)
           \/ Proceed(p)
    PROVE  IInv'
<1> USE Constants DEF IInv, TypeOK, GuardFollowsPhase, OneHolder, LossesCounted,
        WorkersLive, Phases
<1>1. UNCHANGED <<pc, guild_lock>> => LockInTransaction'
    BY DEF LockInTransaction
<1>2. CASE Start(p)
    BY <1>1, <1>2 DEF Start
<1>3. CASE StartFails(p)
    BY <1>1, <1>3 DEF StartFails
<1>4. CASE Die(p) \/ Exit(p)
    BY <1>4, EndedKeeps DEF Die, Exit
<1>5. CASE LoseGuard(p)
    BY <1>1, <1>5 DEF LoseGuard
<1>6. CASE GatewayCloses(p)
    BY <1>1, <1>6 DEF GatewayCloses
<1>7. CASE GatewayGuard(p)
    BY <1>1, <1>7 DEF GatewayGuard, GuardFree
<1>8. CASE GuardRefused(p)
    BY <1>1, <1>8 DEF GuardRefused
<1>9. CASE RunGateway(p)
    BY <1>1, <1>9 DEF RunGateway
<1>10. CASE ClientFails(p)
    BY <1>1, <1>10 DEF ClientFails
<1>11. CASE DeadlinePasses(p)
    BY <1>1, <1>11 DEF DeadlinePasses
<1>12. CASE Join(p)
    BY <1>1, <1>12 DEF Join, Joined
<1>13. CASE ReleaseGuard(p)
    BY <1>1, <1>13 DEF ReleaseGuard
<1>14. ASSUME NEW w \in Workers, AbortWorker(p, w)
       PROVE  IInv'
    <2>1. pc' \in [Processes -> [Tasks -> Places]] /\ LockInTransaction'
        BY <1>14, DropKeeps DEF AbortWorker
    <2>2. WorkersLive'
        BY <1>14 DEF AbortWorker, Workers
    <2> QED BY <1>14, <2>1, <2>2 DEF AbortWorker
<1> QED
    BY <1>2, <1>3, <1>4, <1>5, <1>6, <1>7, <1>8, <1>9, <1>10, <1>11, <1>12, <1>13, <1>14
    DEF Proceed

\* A task that goes to a place without taking or giving back a lock.
LEMMA GotoKeeps ==
    ASSUME NEW p \in Processes, NEW t \in Tasks, NEW place \in Places, IInv,
           Goto(p, t, place), UNCHANGED guild_lock,
           ~At(p, t, "locked"), place.at # "locked"
    PROVE  pc' \in [Processes -> [Tasks -> Places]] /\ LockInTransaction'
<1>1. pc' \in [Processes -> [Tasks -> Places]]
    BY DEF Goto, IInv, TypeOK
<1>2. \A q \in Processes : \A u \in Tasks :
          (pc[q][u].at = "locked" \/ pc'[q][u].at = "locked") => pc'[q][u] = pc[q][u]
    BY DEF Goto, At, IInv, TypeOK
<1> QED BY <1>1, <1>2, SessionsKept

\* A transaction that ends gives its lock back, and no other.
LEMMA EndKeeps ==
    ASSUME NEW p \in Processes, NEW t \in Tasks, NEW place \in Places, IInv,
           EndTransaction(p, t, place), place.at # "locked"
    PROVE  /\ pc' \in [Processes -> [Tasks -> Places]]
           /\ guild_lock' \in [Guilds -> (Processes \X Tasks) \cup {Nobody}]
           /\ LockInTransaction'
<1>1. pc' = [pc EXCEPT ![p][t] = place]
    BY DEF EndTransaction, Goto
<1>2. pc' \in [Processes -> [Tasks -> Places]]
    BY <1>1 DEF IInv, TypeOK
<1>3. guild_lock' = [g \in Guilds |-> IF guild_lock[g] = <<p, t>> THEN Nobody ELSE guild_lock[g]]
    BY DEF EndTransaction
<1>4. guild_lock' \in [Guilds -> (Processes \X Tasks) \cup {Nobody}]
    BY <1>3 DEF IInv, TypeOK
<1>5. ASSUME NEW q \in Processes, NEW u \in Tasks, NEW g \in Guilds
      PROVE  guild_lock'[g] = <<q, u>> <=> pc'[q][u] = Place("locked", g)
    <2>1. guild_lock[g] = <<q, u>> <=> pc[q][u] = Place("locked", g)
        BY DEF IInv, LockInTransaction
    <2>2. Nobody # <<q, u>>
        BY Constants DEF Nobody
    <2>3. CASE q = p /\ u = t
        <3>1. guild_lock'[g] # <<q, u>>
            BY <1>3, <2>2, <2>3
        <3>2. pc'[q][u] = place
            BY <1>1, <2>3 DEF IInv, TypeOK
        <3>3. place # Place("locked", g)
            BY DEF Place
        <3> QED BY <3>1, <3>2, <3>3
    <2>4. CASE ~(q = p /\ u = t)
        <3>1. <<p, t>> # <<q, u>>
            BY <2>4
        <3>2. guild_lock'[g] = <<q, u>> <=> guild_lock[g] = <<q, u>>
            BY <1>3, <2>2, <3>1
        <3>3. pc'[q][u] = pc[q][u]
            BY <1>1, <2>4 DEF IInv, TypeOK
        <3> QED BY <2>1, <3>2, <3>3
    <2> QED BY <2>3, <2>4
<1>6. LockInTransaction'
    BY <1>5 DEF LockInTransaction
<1> QED BY <1>2, <1>4, <1>6

\* A session that gets a free lock is the only one in a transaction of that guild.
LEMMA LockKeeps ==
    ASSUME NEW p \in Processes, NEW t \in Tasks, NEW guild \in Guilds, IInv,
           LockGuild(p, t, guild)
    PROVE  /\ pc' \in [Processes -> [Tasks -> Places]]
           /\ guild_lock' \in [Guilds -> (Processes \X Tasks) \cup {Nobody}]
           /\ LockInTransaction'
<1>1. pc' = [pc EXCEPT ![p][t] = Place("locked", guild)]
    BY DEF LockGuild, Goto
<1>2. pc' \in [Processes -> [Tasks -> Places]]
    BY <1>1, PlaceFacts DEF IInv, TypeOK
<1>3. guild_lock' = [guild_lock EXCEPT ![guild] = <<p, t>>]
    BY DEF LockGuild
<1>4. guild_lock' \in [Guilds -> (Processes \X Tasks) \cup {Nobody}]
    BY <1>3 DEF IInv, TypeOK
<1>5. ASSUME NEW q \in Processes, NEW u \in Tasks, NEW g \in Guilds
      PROVE  guild_lock'[g] = <<q, u>> <=> pc'[q][u] = Place("locked", g)
    <2>1. \A v \in Processes, w \in Tasks :
              guild_lock[g] = <<v, w>> <=> pc[v][w] = Place("locked", g)
        BY DEF IInv, LockInTransaction
    <2>2. Nobody # <<q, u>>
        BY Constants DEF Nobody
    <2>3. guild_lock[guild] = Nobody /\ pc[p][t] = Place("lock", guild)
        BY DEF LockGuild
    <2>4. CASE q = p /\ u = t
        <3>1. pc'[q][u] = Place("locked", guild)
            BY <1>1, <2>4 DEF IInv, TypeOK
        <3>2. g # guild => guild_lock[g] # <<q, u>>
            BY <2>1, <2>3, <2>4, PlaceFacts
        <3>3. guild_lock'[g] = <<q, u>> <=> g = guild
            BY <1>3, <2>4, <3>2 DEF IInv, TypeOK
        <3> QED BY <3>1, <3>3, PlaceFacts
    <2>5. CASE ~(q = p /\ u = t)
        <3>1. <<p, t>> # <<q, u>>
            BY <2>5
        <3>2. pc'[q][u] = pc[q][u]
            BY <1>1, <2>5 DEF IInv, TypeOK
        <3>3. guild_lock'[g] = <<q, u>> <=> guild_lock[g] = <<q, u>>
            BY <1>3, <2>2, <2>3, <3>1 DEF IInv, TypeOK
        <3> QED BY <2>1, <3>2, <3>3
    <2> QED BY <2>4, <2>5
<1>6. LockInTransaction'
    BY <1>5 DEF LockInTransaction
<1> QED BY <1>2, <1>4, <1>6

\* A step of a grant, a handler or an attempt keeps the invariant.
LEMMA TaskSteps ==
    ASSUME NEW p \in Processes, NEW t \in Tasks, IInv,
           TaskStep(p, t) \/ \E guild \in Guilds : Begin(p, t, guild)
    PROVE  IInv'
<1>1. ASSUME UNCHANGED <<phase, guard, advisory, gateway, alive, lost>>,
             \/ batch' = batch
             \/ batch' = [batch EXCEPT ![p] = @ \ {t}],
             pc' \in [Processes -> [Tasks -> Places]],
             guild_lock' \in [Guilds -> (Processes \X Tasks) \cup {Nobody}],
             LockInTransaction'
      PROVE  IInv'
    <2>1. batch' \in [Processes -> SUBSET Guilds] /\ \A q \in Processes : batch'[q] \subseteq batch[q]
        <3>1. CASE batch' = batch
            BY <3>1 DEF IInv, TypeOK
        <3>2. CASE batch' = [batch EXCEPT ![p] = @ \ {t}]
            BY <3>2 DEF IInv, TypeOK
        <3> QED BY <1>1, <3>1, <3>2
    <2> QED
        BY <1>1, <2>1 DEF IInv, TypeOK, GuardFollowsPhase, OneHolder, LossesCounted, WorkersLive
<1>2. \A place \in {Idle, Place("refresh", None), Place("reading", None)} :
          place \in Places /\ place.at # "locked"
    BY PlaceFacts DEF Place, Idle
<1>3. ASSUME NEW guild \in Guilds, Begin(p, t, guild)
      PROVE  IInv'
    <2>1. Place("lock", guild) \in Places /\ Place("lock", guild).at # "locked"
        BY PlaceFacts DEF Place
    <2>2. ~At(p, t, "locked")
        BY <1>3 DEF Begin, Idle, Place, At
    <2>3. pc' \in [Processes -> [Tasks -> Places]] /\ LockInTransaction'
        BY <1>3, <2>1, <2>2, GotoKeeps DEF Begin
    <2> QED BY <1>1, <1>3, <2>3 DEF Begin, process, IInv, TypeOK
<1>4. ASSUME NEW guild \in Guilds, LockGuild(p, t, guild)
      PROVE  IInv'
    BY <1>1, <1>4, LockKeeps DEF LockGuild, process
<1>5. CASE Commit(p, t)
    <2>1. EndTransaction(p, t, Idle)
        BY <1>5 DEF Commit
    <2> QED BY <1>1, <1>2, <1>5, <2>1, EndKeeps DEF Commit
<1>6. CASE CommitAndRefresh(p, t)
    BY <1>1, <1>2, <1>6, EndKeeps DEF CommitAndRefresh, process
<1>7. CASE SessionEnds(p, t)
    BY <1>1, <1>2, <1>7, EndKeeps DEF SessionEnds, process
<1>8. CASE ReadView(p, t)
    <2>1. ~At(p, t, "locked")
        BY <1>8 DEF ReadView, At
    <2>2. pc' \in [Processes -> [Tasks -> Places]] /\ LockInTransaction'
        BY <1>2, <1>8, <2>1, GotoKeeps DEF ReadView
    <2> QED BY <1>1, <1>8, <2>2 DEF ReadView, process, IInv, TypeOK
<1>9. CASE Answer(p, t)
    <2>1. ~At(p, t, "locked")
        BY <1>9 DEF Answer, At
    <2>2. pc' \in [Processes -> [Tasks -> Places]] /\ LockInTransaction'
        BY <1>2, <1>9, <2>1, GotoKeeps DEF Answer
    <2> QED BY <1>1, <1>9, <2>2 DEF Answer, process, IInv, TypeOK
<1> QED BY <1>3, <1>4, <1>5, <1>6, <1>7, <1>8, <1>9 DEF TaskStep

\* The steps of the workers themselves, and the end of the select, keep the invariant.
LEMMA WorkerSteps ==
    ASSUME NEW p \in Processes, IInv,
           \/ \E ended \in {"signal", "gateway", "announcements"} : Select(p, ended)
           \/ \E w \in Workers : WorkerStops(p, w)
           \/ \E due \in SUBSET Guilds : SpawnBatch(p, due)
           \/ \E guild \in Guilds : AttemptEnds(p, guild)
    PROVE  IInv'
<1> USE Constants DEF IInv, TypeOK, GuardFollowsPhase, OneHolder, LossesCounted,
        WorkersLive, Phases
<1>1. UNCHANGED <<pc, guild_lock>> => LockInTransaction'
    BY DEF LockInTransaction
<1>2. ASSUME NEW ended \in {"signal", "gateway", "announcements"}, Select(p, ended)
      PROVE  IInv'
    <2>1. CASE ended = "announcements"
        BY <1>1, <1>2, <2>1 DEF Select
    <2>2. CASE ended # "announcements"
        BY <1>1, <1>2, <2>2 DEF Select
    <2> QED BY <2>1, <2>2
<1>3. ASSUME NEW w \in Workers, WorkerStops(p, w)
      PROVE  IInv'
    BY <1>1, <1>3 DEF WorkerStops, Workers
<1>4. ASSUME NEW due \in SUBSET Guilds, SpawnBatch(p, due)
      PROVE  IInv'
    BY <1>1, <1>4 DEF SpawnBatch
<1>5. ASSUME NEW guild \in Guilds, AttemptEnds(p, guild)
      PROVE  IInv'
    BY <1>1, <1>5 DEF AttemptEnds
<1> QED BY <1>2, <1>3, <1>4, <1>5

\* The conjunction of the parts above holds in every reachable state.
THEOREM GatewayInvariant == Spec => []IInv
<1>1. IInv /\ [Next]_vars => IInv'
    <2> SUFFICES ASSUME IInv, [Next]_vars PROVE IInv'
        OBVIOUS
    <2>1. CASE Next
        BY <2>1, ProcessStep, TaskSteps, WorkerSteps DEF Next
    <2>2. CASE UNCHANGED vars
        BY <2>2 DEF vars, IInv, TypeOK, GuardFollowsPhase, OneHolder, LossesCounted,
            WorkersLive, LockInTransaction
    <2> QED BY <2>1, <2>2
<1> QED BY <1>1, InitIInv, PTL DEF Spec

-----------------------------------------------------------------------------
(* What it gives.                                                          *)

\* Workers and their attempts run within the life of their process's guard, and without
\* a lost session those of two processes never overlap (run_gateway_client, guard.close
\* after join!).
THEOREM WorkersGuarded == Spec => []WorkersWithinGuard
<1>1. IInv => WorkersWithinGuard
    BY DEF IInv, TypeOK, GuardFollowsPhase, OneHolder, LossesCounted, WorkersLive,
        WorkersWithinGuard
<1> QED BY <1>1, GatewayInvariant, PTL

\* Any number of grants, interactions and attempts that wait for guild locks with a
\* connection in hand wait for sessions that can go on, and a full pool has a task that
\* holds a connection (transact and finish_attempt end their transaction before anything
\* else is acquired).
THEOREM PoolGoesOn == Spec => []PoolMakesProgress
<1>1. IInv => PoolMakesProgress
    <2> SUFFICES ASSUME IInv, NEW p \in Processes
                 PROVE  /\ \A t \in Tasks : HasConnection(p, t) => ~Stuck(p, t)
                        /\ InUse(p) = PoolSize => \E t \in Tasks : HasConnection(p, t)
        BY DEF PoolMakesProgress
    <2>1. ASSUME NEW t \in Tasks, HasConnection(p, t)
          PROVE  ~Stuck(p, t)
        <3>1. ~At(p, t, "refresh")
            BY <2>1 DEF HasConnection, At
        <3>2. ASSUME NEW guild \in Guilds, guild_lock[guild] # Nobody
              PROVE  pc[guild_lock[guild][1]][guild_lock[guild][2]] = Place("locked", guild)
            <4>1. PICK holder \in Processes \X Tasks : guild_lock[guild] = holder
                BY <3>2 DEF IInv, TypeOK
            <4>2. holder[1] \in Processes /\ holder[2] \in Tasks /\ holder = <<holder[1], holder[2]>>
                BY <4>1
            <4> QED BY <4>1, <4>2 DEF IInv, LockInTransaction
        <3> QED BY <3>1, <3>2 DEF Stuck
    <2>2. ASSUME InUse(p) = PoolSize, \A t \in Tasks : ~HasConnection(p, t)
          PROVE  FALSE
        <3>1. {t \in Tasks : HasConnection(p, t)} = {}
            BY <2>2
        <3>2. Cardinality({t \in Tasks : HasConnection(p, t)}) = 0
            BY <3>1, FS_EmptySet
        <3>3. InUse(p) = IF guard[p] = "none" THEN 0 ELSE 1
            BY <3>2 DEF InUse
        <3> QED BY <2>2, <3>3, Constants
    <2> QED BY <2>1, <2>2
<1> QED BY <1>1, GatewayInvariant, PTL

-----------------------------------------------------------------------------
(* MergeVerification: what a verified merge has been through.               *)

\* A gate is vouched for a head while it is open.
OpenIsVouched ==
    /\ vouched \in [Heads -> SUBSET M!Gates(M!Contexts)]
    /\ build \in [Heads -> Builds]
    /\ \A h \in Heads : \A gate \in M!Gates(M!Contexts) : M!Open(gate, build[h]) => gate \in vouched[h]
    /\ DOMAIN hosted = Heads
    /\ \A h \in Heads : hosted[h] = "clean" => M!Clean \in vouched[h]

\* The places of `before` beyond each of its reads that opens a gate.
AfterChecks == {"statuses", "rules", "workflows", "reviews", "comments", "threads", "final"}
AfterStatuses == AfterChecks \ {"statuses"}
AfterRules == AfterStatuses \ {"rules"}
AfterWorkflows == AfterRules \ {"workflows"}
AfterComments == {"threads", "final"}

\* What the reads of `before` have established so far.
BeforeReads(c) ==
    c.phase = "before" =>
        /\ c.at \notin {"commit", "trees"}
        /\ c.at \in AfterChecks =>
              /\ <<"checks">> \in vouched[c.head]
              /\ \A r \in M!Contexts : M!published(r, c.checks, {}) => M!Gate(r) \in vouched[c.head]
        /\ c.at \in AfterStatuses =>
              /\ <<"statuses">> \in vouched[c.head]
              /\ \A r \in M!Contexts : M!published(r, {}, c.statuses) => M!Gate(r) \in vouched[c.head]
        /\ c.at \in AfterRules => \A r \in M!Policy(c.files) : M!Gate(r) \in vouched[c.head]
        /\ c.at \in AfterWorkflows => <<"workflows">> \in vouched[c.head]
        /\ c.at \in AfterComments => M!Clean \in vouched[c.head]

\* The merged commit holds what was reviewed and nothing else.
Holds(head, files) ==
    /\ \A p \in files : merge.tree[p] = Tree(head)[p]
    /\ \A p \in Paths \ files : merge.tree[p] = merge.parents[1][p]

\* What the receipt and the reads of `after` have established so far.
AfterReads(c) ==
    c.phase = "after" =>
        /\ c.at \in {"pull", "files", "commit", "trees", "final"}
        /\ M!Gates(M!Policy(c.files)) \subseteq vouched[c.head]
        /\ c.at # "pull" => request.state = "merged" /\ request.head = c.head
        /\ c.at \in {"commit", "trees", "final"} => M!Changes(c.head) = c.files
        /\ c.at = "final" => Holds(c.head, c.files)

CommandSound(c) ==
    /\ DOMAIN c = DOMAIN M!Idle
    /\ c.head \in Heads
    /\ c.phase \in {"before", "after"}
    /\ BeforeReads(c)
    /\ AfterReads(c)

\* A passing receipt is of a head whose gates are vouched, and after the merge of the
\* head that was merged.
ReceiptSound(r) ==
    r.passed =>
        /\ r.head \in Heads
        /\ M!Gates(M!Policy(r.files)) \subseteq vouched[r.head]
        /\ r.phase = "after" =>
              /\ request.state = "merged" /\ request.head = r.head
              /\ M!Changes(r.head) = r.files
              /\ Holds(r.head, r.files)

MergeInv ==
    /\ DOMAIN request = {"head", "state", "mergeable"} /\ request.head \in Heads
    /\ OpenIsVouched
    /\ CommandSound(command)
    /\ \A r \in receipts : ReceiptSound(r)

\* What is required of a change is among the contexts a host may report.
LEMMA PolicyInContexts ==
    ASSUME NEW files
    PROVE  M!Policy(files) \subseteq M!Contexts
BY DEF M!Policy, M!Contexts

\* A command that has not begun has established nothing.
LEMMA IdleSound == CommandSound(M!Idle)
<1>1. M!Head0 \in Heads
    BY HeadsAssumption DEF M!Head0
<1>2. M!Idle.head = M!Head0 /\ M!Idle.phase = "before" /\ M!Idle.at = "idle"
    BY DEF M!Idle
<1> QED
    BY <1>1, <1>2 DEF CommandSound, BeforeReads, AfterReads, AfterChecks, AfterStatuses,
        AfterRules, AfterWorkflows, AfterComments

\* What the invariant says of the world around the command.
Facts == <<request, merge, build, hosted, vouched>>

\* Steps of the command leave what it reads alone.
LEMMA WorldKept ==
    ASSUME UNCHANGED Facts
    PROVE  /\ OpenIsVouched <=> OpenIsVouched'
           /\ \A c : CommandSound(c) <=> CommandSound(c)'
           /\ \A r : ReceiptSound(r) <=> ReceiptSound(r)'
BY DEF Facts, OpenIsVouched, CommandSound, BeforeReads, AfterReads, ReceiptSound, Holds

\* A read goes on with what it has established, or ends in a receipt that does not pass.
LEMMA ReadStep ==
    ASSUME MergeInv, NEW ok, NEW next, ok => CommandSound(next), M!Proceed(ok, next)
    PROVE  MergeInv'
<1>1. UNCHANGED Facts
    BY DEF M!Proceed, M!world, Facts
<1>2. CommandSound(command')
    BY IdleSound DEF M!Proceed
<1>3. \A r \in receipts' : ReceiptSound(r)
    <2>1. ~M!Result(FALSE).passed
        BY DEF M!Result
    <2>2. ReceiptSound(M!Result(FALSE))
        BY <2>1 DEF ReceiptSound
    <2> QED BY <2>2 DEF M!Proceed, MergeInv
<1> QED
    BY <1>1, <1>2, <1>3, WorldKept DEF MergeInv, Facts

\* An outcome is saved and ends the command.
LEMMA FinishStep ==
    ASSUME MergeInv, NEW passed, UNCHANGED Facts, M!Finish(passed), passed \in BOOLEAN,
           passed => ReceiptSound(M!Result(TRUE))
    PROVE  MergeInv'
<1>1. ReceiptSound(M!Result(passed))
    <2>1. ~M!Result(FALSE).passed
        BY DEF M!Result
    <2> QED BY <2>1 DEF ReceiptSound
<1>2. CommandSound(command')
    BY IdleSound DEF M!Finish
<1>3. \A r \in receipts' : ReceiptSound(r)
    BY <1>1 DEF M!Finish, MergeInv
<1> QED
    BY <1>2, <1>3, WorldKept DEF MergeInv, Facts

\* A command starts with nothing established, or after a receipt with what it says.
LEMMA StartStep ==
    ASSUME MergeInv, NEW head \in Heads, NEW input,
           M!Before(head, input) \/ \E receipt \in receipts : M!After(head, input, receipt)
    PROVE  MergeInv'
<1> DEFINE failed(stage) == [phase |-> stage, passed |-> FALSE, head |-> head, files |-> {}]
<1>1. UNCHANGED Facts
    BY DEF M!Before, M!After, M!world, Facts
<1>2. \A r \in receipts' : ReceiptSound(r)
    <2>1. \A stage : ~failed(stage).passed
        OBVIOUS
    <2>2. \A stage : ReceiptSound(failed(stage))
        BY <2>1 DEF ReceiptSound
    <2>3. receipts' \subseteq receipts \cup {failed("before"), failed("after")}
        BY DEF M!Before, M!After
    <2> QED BY <2>2, <2>3 DEF MergeInv
<1>3. CommandSound(command')
    <2>1. CASE M!Before(head, input)
        <3>1. CASE command' = M!Idle
            BY <3>1, IdleSound
        <3>2. CASE command' = [M!Idle EXCEPT !.at = "pull", !.head = head, !.files = input.files]
            <4>1. /\ command'.at = "pull" /\ command'.phase = "before" /\ command'.head = head
                  /\ DOMAIN command' = DOMAIN M!Idle
                BY <3>2 DEF M!Idle
            <4> QED
                BY <4>1 DEF CommandSound, BeforeReads, AfterReads, AfterChecks, AfterStatuses,
                    AfterRules, AfterWorkflows, AfterComments
        <3> QED BY <2>1, <3>1, <3>2 DEF M!Before
    <2>2. ASSUME NEW receipt \in receipts, M!After(head, input, receipt)
          PROVE  CommandSound(command')
        <3>1. CASE command' = M!Idle
            BY <3>1, IdleSound
        <3>2. CASE /\ M!receipt_accepts(receipt, head, input.files)
                   /\ command' = [M!Idle EXCEPT !.at = "pull", !.phase = "after", !.head = head,
                                              !.files = input.files]
            <4>1. /\ command'.at = "pull" /\ command'.phase = "after" /\ command'.head = head
                  /\ command'.files = input.files /\ DOMAIN command' = DOMAIN M!Idle
                BY <3>2 DEF M!Idle
            <4>2. M!Gates(M!Policy(input.files)) \subseteq vouched[head]
                BY <3>2 DEF MergeInv, ReceiptSound, M!receipt_accepts
            <4> QED
                BY <4>1, <4>2 DEF CommandSound, BeforeReads, AfterReads
        <3> QED BY <2>2, <3>1, <3>2 DEF M!After
    <2> QED BY <2>1, <2>2
<1> QED
    BY <1>1, <1>2, <1>3, WorldKept DEF MergeInv, Facts

\* What a read of a build says of the gates of its head.
LEMMA BuildVouches ==
    ASSUME MergeInv, NEW h \in Heads
    PROVE  /\ build[h].checks # {} /\ M!accepted(build[h].checks) =>
                /\ <<"checks">> \in vouched[h]
                /\ \A r \in M!Contexts : M!published(r, build[h].checks, {}) => M!Gate(r) \in vouched[h]
           /\ M!accepted(build[h].statuses) =>
                /\ <<"statuses">> \in vouched[h]
                /\ \A r \in M!Contexts : M!published(r, {}, build[h].statuses) => M!Gate(r) \in vouched[h]
           /\ M!WorkflowsPass(build[h]) => <<"workflows">> \in vouched[h]
<1>1. \A gate \in M!Gates(M!Contexts) : M!Open(gate, build[h]) => gate \in vouched[h]
    BY DEF MergeInv, OpenIsVouched
<1>2. /\ {<<"checks">>, <<"statuses">>, <<"workflows">>} \subseteq M!Gates(M!Contexts)
      /\ \A r \in M!Contexts : M!Gate(r) \in M!Gates(M!Contexts)
    BY DEF M!Gates
<1>3. \A r \in M!Contexts : M!Met(r, build[h]) => M!Gate(r) \in vouched[h]
    BY <1>1, <1>2 DEF M!Open
<1> QED
    BY <1>1, <1>2, <1>3 DEF M!Open, M!Met

\* The fields of a command.
LEMMA Fields ==
    DOMAIN M!Idle = {"at", "phase", "head", "files", "initial", "checks", "statuses", "seen",
                   "total", "open"}
BY DEF M!Idle

\* The reads of the pull request and of CI.
LEMMA ReadsOfCI ==
    ASSUME MergeInv,
           M!ReadPull \/ M!ReadFiles \/ M!ReadChecks \/ M!ReadStatuses \/ M!ReadRules \/ M!ReadWorkflows
    PROVE  MergeInv'
<1> USE Fields DEF CommandSound, BeforeReads, AfterReads, AfterChecks, AfterStatuses,
        AfterRules, AfterWorkflows, AfterComments, M!To
<1>c. CommandSound(command)
    BY DEF MergeInv
<1>b. /\ build[command.head].checks # {} /\ M!accepted(build[command.head].checks) =>
            /\ <<"checks">> \in vouched[command.head]
            /\ \A r \in M!Contexts : M!published(r, build[command.head].checks, {}) =>
                    M!Gate(r) \in vouched[command.head]
      /\ M!accepted(build[command.head].statuses) =>
            /\ <<"statuses">> \in vouched[command.head]
            /\ \A r \in M!Contexts : M!published(r, {}, build[command.head].statuses) =>
                    M!Gate(r) \in vouched[command.head]
      /\ M!WorkflowsPass(build[command.head]) => <<"workflows">> \in vouched[command.head]
    BY <1>c, BuildVouches
<1>1. CASE M!ReadPull
    <2> DEFINE next == [M!To("files") EXCEPT !.initial = [state |-> request.state, base |-> main,
                                                count |-> M!Cardinality(M!Changes(request.head))]]
               ok == /\ request.head = command.head
                     /\ IF command.phase = "before" THEN request.state = "open" /\ request.mergeable
                        ELSE request.state = "merged"
    <2>1. M!Proceed(ok, next) /\ command.at = "pull"
        BY <1>1 DEF M!ReadPull
    <2>2. ok => CommandSound(next)
        BY <1>c
    <2> QED BY <2>1, <2>2, ReadStep
<1>2. CASE M!ReadFiles
    <2> DEFINE next == M!To(IF command.phase = "before" THEN "checks" ELSE "commit")
               ok == /\ M!Cardinality(M!Changes(request.head)) = command.initial.count
                     /\ M!Changes(request.head) = command.files
    <2>1. M!Proceed(ok, next) /\ command.at = "files"
        BY <1>2 DEF M!ReadFiles
    <2>2. ok => CommandSound(next)
        BY <1>c, <2>1
    <2> QED BY <2>1, <2>2, ReadStep
<1>3. CASE M!ReadChecks
    <2> DEFINE checks == build[command.head].checks
               next == [M!To("statuses") EXCEPT !.checks = checks]
               ok == checks # {} /\ M!accepted(checks)
    <2>1. M!Proceed(ok, next) /\ command.at = "checks"
        BY <1>3 DEF M!ReadChecks
    <2>2. ok => CommandSound(next)
        BY <1>c, <1>b, <2>1
    <2> QED BY <2>1, <2>2, ReadStep
<1>4. CASE M!ReadStatuses
    <2> DEFINE statuses == build[command.head].statuses
               next == [M!To("rules") EXCEPT !.statuses = statuses]
    <2>1. M!Proceed(M!accepted(statuses), next) /\ command.at = "statuses"
        BY <1>4 DEF M!ReadStatuses
    <2>2. M!accepted(statuses) => CommandSound(next)
        BY <1>c, <1>b, <2>1
    <2> QED BY <2>1, <2>2, ReadStep
<1>5. CASE M!ReadRules
    <2> DEFINE next == M!To("workflows")
               ok == \A r \in M!Policy(command.files) :
                        M!published(r, command.checks, command.statuses)
    <2>1. M!Proceed(ok, next) /\ command.at = "rules"
        BY <1>5 DEF M!ReadRules
    <2>2. \A r : M!published(r, command.checks, command.statuses) =>
                     M!published(r, command.checks, {}) \/ M!published(r, {}, command.statuses)
        BY DEF M!published
    <2>3. ok /\ command.phase = "before" =>
             \A r \in M!Policy(command.files) : M!Gate(r) \in vouched[command.head]
        BY <1>c, <2>1, <2>2, PolicyInContexts
    <2>4. ok => CommandSound(next)
        BY <1>c, <2>1, <2>3
    <2> QED BY <2>1, <2>4, ReadStep
<1>6. CASE M!ReadWorkflows
    <2>1. M!Proceed(M!WorkflowsPass(build[command.head]), M!To("reviews")) /\ command.at = "workflows"
        BY <1>6 DEF M!ReadWorkflows
    <2>2. M!WorkflowsPass(build[command.head]) => CommandSound(M!To("reviews"))
        BY <1>c, <1>b, <2>1
    <2> QED BY <2>1, <2>2, ReadStep
<1> QED BY <1>1, <1>2, <1>3, <1>4, <1>5, <1>6

\* The reads of the reviews, the comments and the threads.
LEMMA ReadsOfReviews ==
    ASSUME MergeInv, M!ReadReviews \/ M!ReadComments \/ M!ReadThreads
    PROVE  MergeInv'
<1> USE Fields DEF CommandSound, BeforeReads, AfterReads, AfterChecks, AfterStatuses,
        AfterRules, AfterWorkflows, AfterComments, M!To
<1>c. CommandSound(command)
    BY DEF MergeInv
<1>1. CASE M!ReadReviews
    <2>1. M!Proceed(decision # "CHANGES_REQUESTED", M!To("comments")) /\ command.at = "reviews"
        BY <1>1 DEF M!ReadReviews
    <2>2. CommandSound(M!To("comments"))
        BY <1>c, <2>1
    <2> QED BY <2>1, <2>2, ReadStep
<1>2. CASE M!ReadComments
    <2>1. M!Proceed(hosted[command.head] = "clean", M!To("threads")) /\ command.at = "comments"
        BY <1>2 DEF M!ReadComments
    <2>2. hosted[command.head] = "clean" => M!Clean \in vouched[command.head]
        BY <1>c DEF MergeInv, OpenIsVouched
    <2>3. hosted[command.head] = "clean" => CommandSound(M!To("threads"))
        BY <1>c, <2>1, <2>2
    <2> QED BY <2>1, <2>3, ReadStep
<1>3. CASE M!ReadThreads
    <2> DEFINE seen == IF threads = << >> THEN 0 ELSE command.seen + 1
               open == command.open \/ (threads # << >> /\ ~threads[seen])
               last == seen = Len(threads)
               next == [M!To(IF last THEN "final" ELSE "threads")
                           EXCEPT !.seen = seen, !.total = Len(threads), !.open = open]
               ok == /\ command.seen > 0 => command.total = Len(threads)
                     /\ last => ~open
    <2>1. M!Proceed(ok, next) /\ command.at = "threads"
        BY <1>3 DEF M!ReadThreads
    <2>2. /\ next.at \in {"final", "threads"} /\ DOMAIN next = DOMAIN command
          /\ next.phase = command.phase /\ next.head = command.head /\ next.files = command.files
          /\ next.checks = command.checks /\ next.statuses = command.statuses
        BY <1>c
    <2> HIDE DEF next
    <2>3. CommandSound(next)
        BY <1>c, <2>1, <2>2
    <2> QED BY <2>1, <2>3, ReadStep
<1> QED BY <1>1, <1>2, <1>3

\* What is left of `after` is about the merge commit.
LEMMA ReadsOfMerge ==
    ASSUME MergeInv, M!ReadCommit \/ M!CompareTrees
    PROVE  MergeInv'
<1> USE Fields DEF CommandSound, BeforeReads, AfterReads, AfterChecks, AfterStatuses,
        AfterRules, AfterWorkflows, AfterComments, M!To
<1>c. CommandSound(command)
    BY DEF MergeInv
<1>1. CASE M!ReadCommit
    <2>1. M!Proceed(Len(merge.parents) = 1, M!To("trees")) /\ command.at = "commit"
        BY <1>1 DEF M!ReadCommit
    <2>2. CommandSound(M!To("trees"))
        BY <1>c, <2>1
    <2> QED BY <2>1, <2>2, ReadStep
<1>2. CASE M!CompareTrees
    <2>1. M!Proceed(M!reviewed_contents, M!To("final")) /\ command.at = "trees"
        BY <1>2 DEF M!CompareTrees
    <2>2. M!reviewed_contents => Holds(command.head, command.files)
        BY DEF M!reviewed_contents, Holds
    <2>3. M!reviewed_contents => CommandSound(M!To("final"))
        BY <1>c, <2>1, <2>2
    <2> QED BY <2>1, <2>3, ReadStep
<1> QED BY <1>1, <1>2

\* The last read decides; a read that fails ends the command.
LEMMA LastReads ==
    ASSUME MergeInv, M!FinalPull \/ M!FinalMergedPull \/ M!ReadFails
    PROVE  MergeInv'
<1>c. CommandSound(command)
    BY DEF MergeInv
<1>1. CASE M!FinalPull
    <2> DEFINE passed == /\ request.head = command.head /\ request.state = command.initial.state
                         /\ main = command.initial.base /\ request.mergeable
    <2>1. /\ command.at = "final" /\ command.phase = "before"
          /\ M!Finish(passed) /\ UNCHANGED Facts
        BY <1>1 DEF M!FinalPull, M!world, Facts
    <2>3. M!Gates(M!Policy(command.files)) \subseteq vouched[command.head]
        BY <1>c, <2>1 DEF CommandSound, BeforeReads, AfterChecks, AfterStatuses, AfterRules,
            AfterWorkflows, AfterComments, M!Gates
    <2>4. ReceiptSound(M!Result(TRUE))
        BY <1>c, <2>1, <2>3 DEF ReceiptSound, M!Result, CommandSound
    <2> QED BY <2>1, <2>4, FinishStep
<1>2. CASE M!FinalMergedPull
    <2> DEFINE passed == request.head = command.head /\ request.state = "merged"
    <2>1. /\ command.at = "final" /\ command.phase = "after"
          /\ M!Finish(passed) /\ UNCHANGED Facts
        BY <1>2 DEF M!FinalMergedPull, M!world, Facts
    <2>2. ReceiptSound(M!Result(TRUE))
        BY <1>c, <2>1 DEF ReceiptSound, M!Result, CommandSound, AfterReads
    <2> QED BY <2>1, <2>2, FinishStep
<1>3. CASE M!ReadFails
    BY <1>3, FinishStep DEF M!ReadFails, Facts
<1> QED BY <1>1, <1>2, <1>3

\* Gates stay vouched, and a merged pull request stays as it was merged.
Grows ==
    /\ \A h \in Heads : vouched[h] \subseteq vouched'[h]
    /\ request.state = "merged" => request'.state = "merged" /\ request'.head = request.head /\ merge' = merge

\* What receipts and commands rest on is not undone.
LEMMA FactsGrow ==
    ASSUME Grows
    PROVE  /\ \A c : CommandSound(c) => CommandSound(c)'
           /\ \A r : ReceiptSound(r) => ReceiptSound(r)'
<1>1. ASSUME NEW c, CommandSound(c) PROVE CommandSound(c)'
    <2>1. vouched[c.head] \subseteq vouched'[c.head]
        BY <1>1 DEF Grows, CommandSound
    <2>2. BeforeReads(c)'
        BY <1>1, <2>1 DEF CommandSound, BeforeReads
    <2>3. AfterReads(c)'
        BY <1>1, <2>1 DEF CommandSound, AfterReads, Grows, Holds
    <2> QED BY <1>1, <2>2, <2>3 DEF CommandSound
<1>2. ASSUME NEW r, ReceiptSound(r) PROVE ReceiptSound(r)'
    BY <1>2 DEF ReceiptSound, Grows, Holds
<1> QED BY <1>1, <1>2

\* What the invariant says of the world follows the world's steps.
LEMMA OthersStep ==
    ASSUME MergeInv, UNCHANGED <<receipts, command>>, Grows, OpenIsVouched',
           DOMAIN request' = DOMAIN request, request'.head \in Heads
    PROVE  MergeInv'
<1>1. CommandSound(command') /\ CommandSound(command)'
    BY FactsGrow DEF MergeInv
<1>2. \A r \in receipts' : ReceiptSound(r)'
    BY FactsGrow DEF MergeInv
<1> QED BY <1>1, <1>2 DEF MergeInv

\* Pushes and merges change the pull request while it is open.
LEMMA PullSteps ==
    ASSUME MergeInv,
           \/ \E head \in Heads, mergeable \in BOOLEAN : M!Push(head, mergeable)
           \/ \E p \in Paths : \E blob \in {Combined, Tree(request.head)[p]} : M!Advance(p, blob)
           \/ \E how \in {"squash", "merge"} : M!Merge(how)
    PROVE  MergeInv'
<1>1. /\ UNCHANGED <<receipts, command, build, hosted, vouched>>
      /\ DOMAIN request' = DOMAIN request /\ request'.head \in Heads /\ request.state = "open"
    BY DEF MergeInv, M!Push, M!Advance, M!Merge, M!Move
<1>2. Grows
    BY <1>1 DEF Grows
<1>3. OpenIsVouched'
    BY <1>1 DEF MergeInv, OpenIsVouched
<1> QED BY <1>1, <1>2, <1>3, OthersStep

\* Builds and reviews open gates; decisions and threads are read but not remembered.
LEMMA GateSteps ==
    ASSUME MergeInv,
           \/ \E head \in Heads :
                 \/ \E b \in Builds : M!Build(head, b)
                 \/ \E review \in {"missing", "clean", "findings"} : M!HostedReviews(head, review)
           \/ \E d \in {"APPROVED", "CHANGES_REQUESTED"} : M!Decide(d)
           \/ M!Comments
    PROVE  MergeInv'
<1>1. UNCHANGED <<receipts, command, request, merge>>
    BY DEF M!Build, M!HostedReviews, M!Decide, M!Comments, M!Move
<1>2. ASSUME NEW head \in Heads, NEW b \in Builds, M!Build(head, b)
      PROVE  OpenIsVouched' /\ Grows
    <2>1. /\ build' = [build EXCEPT ![head] = b] /\ UNCHANGED hosted
          /\ vouched' = [vouched EXCEPT ![head] =
                            @ \cup {gate \in M!Gates(M!Contexts) : M!Open(gate, b)}]
        BY <1>2 DEF M!Build
    <2>2. \A h \in Heads : vouched[h] \subseteq vouched'[h]
        BY <2>1 DEF MergeInv, OpenIsVouched
    <2>3. vouched' \in [Heads -> SUBSET M!Gates(M!Contexts)]
        BY <2>1 DEF MergeInv, OpenIsVouched
    <2>4. build' \in [Heads -> Builds]
        BY <2>1 DEF MergeInv, OpenIsVouched
    <2>5. ASSUME NEW h \in Heads, NEW gate \in M!Gates(M!Contexts), M!Open(gate, build'[h])
          PROVE  gate \in vouched'[h]
        BY <2>1, <2>5 DEF MergeInv, OpenIsVouched
    <2>6. \A h \in Heads : hosted'[h] = "clean" => M!Clean \in vouched'[h]
        BY <2>1, <2>2 DEF MergeInv, OpenIsVouched
    <2>7. DOMAIN hosted' = Heads
        BY <2>1 DEF MergeInv, OpenIsVouched
    <2> QED BY <1>1, <2>2, <2>3, <2>4, <2>5, <2>6, <2>7 DEF OpenIsVouched, Grows
<1>3. ASSUME NEW head \in Heads, NEW review, M!HostedReviews(head, review)
      PROVE  OpenIsVouched' /\ Grows
    <2>1. M!Clean \in M!Gates(M!Contexts)
        BY DEF M!Gates
    <2>2. /\ build' = build /\ hosted' = [hosted EXCEPT ![head] = review]
          /\ vouched' = IF review = "clean"
                        THEN [vouched EXCEPT ![head] = @ \cup {M!Clean}] ELSE vouched
        BY <1>3 DEF M!HostedReviews
    <2>3. \A h \in Heads : vouched[h] \subseteq vouched'[h]
        BY <2>2 DEF MergeInv, OpenIsVouched
    <2>4. vouched' \in [Heads -> SUBSET M!Gates(M!Contexts)]
        BY <2>1, <2>2 DEF MergeInv, OpenIsVouched
    <2>5. \A h \in Heads : hosted'[h] = "clean" => M!Clean \in vouched'[h]
        BY <2>2, <2>3 DEF MergeInv, OpenIsVouched
    <2>6. DOMAIN hosted' = Heads
        BY <2>2 DEF MergeInv, OpenIsVouched
    <2> QED BY <1>1, <2>2, <2>3, <2>4, <2>5, <2>6 DEF MergeInv, OpenIsVouched, Grows
<1>4. CASE M!Comments \/ \E d : M!Decide(d)
    <2>1. UNCHANGED <<build, hosted, vouched>>
        BY <1>4 DEF M!Comments, M!Decide
    <2>2. OpenIsVouched' /\ Grows
        BY <1>1, <2>1 DEF MergeInv, OpenIsVouched, Grows
    <2> QED BY <1>1, <2>2, OthersStep DEF MergeInv
<1>5. ASSUME OpenIsVouched' /\ Grows PROVE MergeInv'
    BY <1>1, <1>5, OthersStep DEF MergeInv
<1>6. CASE \E head \in Heads : \E b \in Builds : M!Build(head, b)
    BY <1>2, <1>5, <1>6
<1>7. CASE \E head \in Heads :
             \E review \in {"missing", "clean", "findings"} : M!HostedReviews(head, review)
    BY <1>3, <1>5, <1>7
<1> QED BY <1>4, <1>6, <1>7

\* Nothing has been read, and the gates of the first build count.
LEMMA InitMerge == M!Init => MergeInv
<1> SUFFICES ASSUME M!Init PROVE MergeInv
    OBVIOUS
<1>1. M!Head0 \in Heads
    BY HeadsAssumption DEF M!Head0
<1>2. OpenIsVouched
    <2>1. PICK b \in Builds : build = [h \in Heads |-> b]
        BY DEF M!Init
    <2>2. M!Clean \in M!Gates(M!Contexts)
        BY DEF M!Gates
    <2>3. vouched = [h \in Heads |-> {gate \in M!Gates(M!Contexts) :
                                         M!Open(gate, build[h]) \/ (gate = M!Clean /\ h = M!Head0)}]
        BY DEF M!Init
    <2>4. hosted = [h \in Heads |-> IF h = M!Head0 THEN "clean" ELSE "missing"]
        BY DEF M!Init
    <2> QED BY <2>1, <2>2, <2>3, <2>4 DEF OpenIsVouched
<1>3. receipts = {} /\ command = M!Idle
    BY DEF M!Init
<1>4. DOMAIN request = {"head", "state", "mergeable"} /\ request.head \in Heads
    BY <1>1 DEF M!Init
<1> QED BY <1>2, <1>3, <1>4, IdleSound DEF MergeInv

\* The inductive invariant.
THEOREM MergeInvariant == M!Spec => []MergeInv
<1>1. MergeInv /\ [M!Next]_M!vars => MergeInv'
    <2> SUFFICES ASSUME MergeInv, [M!Next]_M!vars PROVE MergeInv'
        OBVIOUS
    <2>1. CASE M!Next
        BY <2>1, StartStep, ReadsOfCI, ReadsOfReviews, ReadsOfMerge, LastReads, PullSteps,
            GateSteps DEF M!Next
    <2>2. CASE UNCHANGED M!vars
        BY <2>2, WorldKept DEF M!vars, MergeInv, Facts
    <2> QED BY <2>1, <2>2
<1> QED BY <1>1, InitMerge, PTL DEF M!Spec

\* A passing `after` result is of a merge that holds what was reviewed.
THEOREM MergedAlwaysReviewed == M!Spec => []MergedIsReviewed
<1>1. MergeInv => M!MergedIsReviewed
    BY DEF MergeInv, ReceiptSound, Holds, M!MergedIsReviewed
<1> QED BY <1>1, MergeInvariant, PTL DEF MergedIsReviewed

-----------------------------------------------------------------------------
(* Publication: what a publication has asked for and knows.                *)

\* A list, whatever it holds.
IsList(list) == list \in Seq({list[i] : i \in DOMAIN list})

\* Where an element is in a list.
Positions(list, x) == {i \in DOMAIN list : list[i] = x}

\* The requests for a ticket that GitHub has not decided about.
Lost(ticket) == Positions(inflight, ticket)

WorldSound ==
    /\ IsList(issues) /\ \A n \in DOMAIN issues : DOMAIN issues[n] = DOMAIN T!Issue(0)
    /\ IsList(inflight)
    /\ sent \in [T!Tickets -> Nat] /\ allowed \in [T!Tickets -> Nat]

\* Every issue of a ticket was asked for once.
Counted ==
    \A ticket \in T!Tickets :
        Cardinality(T!Marked(ticket)) + Cardinality(Lost(ticket)) <= sent[ticket]

\* A saved mapping names an issue that carries the ticket's marker.
StatusSound(status) ==
    /\ status = [ticket \in T!Tickets |-> status[ticket]]
    /\ \A ticket \in T!Tickets :
          \/ status[ticket] \in {T!Pending, T!Creating, T!RetryAuthorized}
          \/ \E n \in DOMAIN issues : issues[n].of = ticket /\ status[ticket] = T!Created(n)

\* Requests that may still be made without another word of the operator.
Credit(ticket) ==
    (IF disk.exists /\ disk.status[ticket].is \in {"pending", "authorized"} THEN 1 ELSE 0)
    + (IF run.at = "create" /\ run.ticket = ticket THEN 1 ELSE 0)

Credited == \A ticket \in T!Tickets : sent[ticket] + Credit(ticket) <= 1 + allowed[ticket]

\* A ticket that is pending in the saved batch was never asked for.
Fresh ==
    disk.exists => \A ticket \in T!Tickets : disk.status[ticket].is = "pending" => sent[ticket] = 0

\* A ticket is asked for when its blockers have their issues.
BlockersFirst ==
    \A ticket \in T!Tickets : sent[ticket] > 0 =>
        \A other \in Plan[ticket].tickets : T!Marked(other) # {}

\* The places of a command behind the creation of the last issue.
AllCreated == {"link", "regraph", "labels", "label", "final", "final labels"}

\* Every link of the plan is there.
Whole == T!Missing(run.status) = << >>

\* A running command has saved what it knows, and knows what it has checked.
RunSound ==
    /\ DOMAIN run = {"at", "status", "ticket", "found", "observed", "todo", "calm"}
    /\ run.at # "idle" => disk.exists /\ disk.status = run.status
    /\ run.at # "idle" =>
          \A ticket \in T!Tickets : run.observed[ticket] \in {0} \cup DOMAIN issues
    /\ run.at \in {"find", "create", "record"} =>
          run.ticket \in T!Tickets /\ Plan[run.ticket].tickets \subseteq T!Mapped(run.status)
    /\ run.at = "create" => run.status[run.ticket].is = "creating"
    /\ run.at = "record" => run.found # {} /\ run.found \subseteq DOMAIN issues
    /\ run.at \in AllCreated => T!Mapped(run.status) = T!Tickets
    /\ run.at \in {"labels", "label"} /\ edits = 0 => Whole
    /\ run.at = "final labels" /\ run.calm => Whole

PublicationInv ==
    /\ WorldSound /\ Counted /\ StatusSound(disk.status) /\ StatusSound(exported.status)
    /\ Credited /\ Fresh /\ BlockersFirst /\ RunSound /\ edits \in Nat

\* The publication counts as this module does.
LEMMA PublicationCounts == \A S : T!Cardinality(S) = Cardinality(S)
    BY DEF T!Cardinality, Cardinality

-----------------------------------------------------------------------------
\* A function on the first numbers is a list,
LEMMA ListOf ==
    ASSUME NEW f, NEW n \in Nat, f = [i \in 1 .. n |-> f[i]]
    PROVE  IsList(f) /\ Len(f) = n
<1> DEFINE R == {f[i] : i \in DOMAIN f}
<1>1. DOMAIN f = 1 .. n /\ \A i \in 1 .. n : f[i] \in R
    OBVIOUS
<1> HIDE DEF R
<1>2. f \in [1 .. n -> R]
    BY <1>1
<1>3. f \in Seq(R) /\ Len(f) = n
    BY <1>2
<1> QED BY <1>3 DEF IsList, R

\* and every list is one.
LEMMA ListFacts ==
    ASSUME NEW list, IsList(list)
    PROVE  /\ Len(list) \in Nat /\ DOMAIN list = 1 .. Len(list)
           /\ list = [i \in 1 .. Len(list) |-> list[i]]
<1>1. list \in Seq({list[i] : i \in DOMAIN list})
    BY DEF IsList
<1> QED BY <1>1

\* A list grows at its end,
LEMMA ListAppend ==
    ASSUME NEW list, IsList(list), NEW x
    PROVE  /\ IsList(Append(list, x))
           /\ Len(list) \in Nat /\ DOMAIN list = 1 .. Len(list)
           /\ DOMAIN Append(list, x) = 1 .. Len(list) + 1
           /\ \A i \in DOMAIN list :
                 i \in DOMAIN Append(list, x) /\ Append(list, x)[i] = list[i]
           /\ Append(list, x)[Len(list) + 1] = x
<1> DEFINE S == {list[i] : i \in DOMAIN list} \cup {x}
           longer == Append(list, x)
<1>1. Len(list) \in Nat /\ DOMAIN list = 1 .. Len(list) /\ list = [i \in 1 .. Len(list) |-> list[i]]
    BY ListFacts
<1>2. x \in S /\ \A i \in 1 .. Len(list) : list[i] \in S
    BY <1>1
<1> HIDE DEF S
<1>3. list \in [1 .. Len(list) -> S]
    BY <1>1, <1>2
<1>4. list \in Seq(S)
    BY <1>1, <1>3
<1>5. /\ longer \in Seq(S) /\ Len(longer) = Len(list) + 1
      /\ DOMAIN longer = 1 .. Len(list) + 1
      /\ \A i \in 1 .. Len(list) : longer[i] = list[i]
      /\ longer[Len(list) + 1] = x
    BY <1>2, <1>4
<1> HIDE DEF longer
<1>6. longer = [i \in 1 .. Len(longer) |-> longer[i]] /\ Len(longer) \in Nat
    BY <1>5
<1>7. IsList(longer)
    BY <1>6, ListOf
<1> QED BY <1>1, <1>5, <1>7 DEF longer

\* stays a list when an element is replaced,
LEMMA ListExcept ==
    ASSUME NEW list, IsList(list), NEW k, NEW x
    PROVE  IsList([list EXCEPT ![k] = x])
<1> DEFINE new == [list EXCEPT ![k] = x]
<1>1. Len(list) \in Nat /\ DOMAIN list = 1 .. Len(list)
    BY ListFacts
<1>2. new = [i \in 1 .. Len(list) |-> new[i]]
    BY <1>1
<1> HIDE DEF new
<1>3. IsList(new)
    BY <1>1, <1>2, ListOf
<1> QED BY <1>3 DEF new

\* and when its first element is taken.
LEMMA ListTail ==
    ASSUME NEW list, IsList(list), list # << >>
    PROVE  /\ IsList(Tail(list))
           /\ Len(list) \in Nat \ {0} /\ DOMAIN list = 1 .. Len(list)
           /\ DOMAIN Tail(list) = 1 .. (Len(list) - 1)
           /\ \A i \in 1 .. (Len(list) - 1) : Tail(list)[i] = list[i + 1]
           /\ Head(list) = list[1]
<1> DEFINE S == {list[i] : i \in DOMAIN list}
           rest == Tail(list)
<1>1. list \in Seq(S)
    BY DEF IsList
<1> HIDE DEF S
<1>2. /\ rest \in Seq(S) /\ Len(rest) = Len(list) - 1 /\ Len(list) \in Nat \ {0}
      /\ DOMAIN list = 1 .. Len(list) /\ DOMAIN rest = 1 .. (Len(list) - 1)
      /\ \A i \in 1 .. (Len(list) - 1) : rest[i] = list[i + 1]
      /\ Head(list) = list[1]
    BY <1>1
<1> HIDE DEF rest
<1>3. rest = [i \in 1 .. Len(rest) |-> rest[i]] /\ Len(rest) \in Nat
    BY <1>2
<1>4. IsList(rest)
    BY <1>3, ListOf
<1> QED BY <1>2, <1>4 DEF rest

\* The places of a list that hold an element are counted by a number;
LEMMA PlacesFinite ==
    ASSUME NEW list, IsList(list), NEW P, P \subseteq DOMAIN list
    PROVE  IsFiniteSet(P) /\ Cardinality(P) \in Nat
<1>1. DOMAIN list = 1 .. Len(list) /\ Len(list) \in Nat
    BY ListFacts
<1>2. IsFiniteSet(1 .. Len(list))
    BY <1>1, FS_Interval
<1>3. IsFiniteSet(P)
    BY <1>1, <1>2, FS_Subset
<1> QED BY <1>3, FS_CardinalityType

\* one less when its first element is taken.
LEMMA PlacesTail ==
    ASSUME NEW list, IsList(list), list # << >>, NEW x
    PROVE  Cardinality(Positions(list, x)) =
               Cardinality(Positions(Tail(list), x)) + (IF Head(list) = x THEN 1 ELSE 0)
<1> DEFINE rest == Tail(list)
           After == {i \in DOMAIN rest : rest[i] = x}
           All == {i \in DOMAIN list : list[i] = x}
           behind == All \ {1}
           f == [i \in After |-> i + 1]
<1>1. /\ IsList(rest)
      /\ Len(list) \in Nat \ {0} /\ DOMAIN list = 1 .. Len(list)
      /\ DOMAIN rest = 1 .. (Len(list) - 1)
      /\ \A i \in 1 .. (Len(list) - 1) : rest[i] = list[i + 1]
      /\ Head(list) = list[1]
    BY ListTail
<1> HIDE DEF rest
<1>2. \A i \in After : i \in Nat /\ i + 1 \in behind
    BY <1>1
<1>3. \A k \in behind : k - 1 \in After /\ (k - 1) + 1 = k
    BY <1>1
<1>4. f \in Bijection(After, behind)
    <2>1. f \in Injection(After, behind)
        BY <1>2 DEF Injection, IsInjective
    <2>2. \A k \in behind : \E i \in After : f[i] = k
        BY <1>3
    <2>3. f \in Surjection(After, behind)
        BY <2>1, <2>2 DEF Injection, Surjection
    <2> QED BY <2>1, <2>3 DEF Bijection
<1>5. ExistsBijection(After, behind)
    BY <1>4 DEF ExistsBijection
<1>6. IsFiniteSet(After) /\ IsFiniteSet(All) /\ Cardinality(All) \in Nat
    BY <1>1, PlacesFinite
<1>7. Cardinality(behind) = Cardinality(After)
    BY <1>5, <1>6, FS_Bijection
<1>8. 1 \in All <=> Head(list) = x
    BY <1>1
<1>9. Cardinality(behind) = IF 1 \in All THEN Cardinality(All) - 1 ELSE Cardinality(All)
    BY <1>6, FS_RemoveElement
<1> HIDE DEF After, All, behind
<1>10. Cardinality(All) = Cardinality(After) + (IF Head(list) = x THEN 1 ELSE 0)
    BY <1>6, <1>7, <1>8, <1>9, FS_CardinalityType
<1> QED BY <1>10 DEF rest, After, All, Positions

-----------------------------------------------------------------------------
\* The graph lacks nothing as long as the links of the mapped issues stay.
LEMMA WholeSame ==
    ASSUME run'.status = run.status,
           \A t \in T!Tickets :
              /\ issues'[run.status[t].issue].parent = issues[run.status[t].issue].parent
              /\ issues'[run.status[t].issue].blockers = issues[run.status[t].issue].blockers
    PROVE  Whole' <=> Whole
<1> DEFINE P(t, parent, lacking) ==
               (IF parent = "ours" THEN << >> ELSE <<<<t, 0>>>>)
                   \o [i \in 1..T!Cardinality(lacking) |->
                          <<t, CHOOSE b \in lacking : T!Cardinality({c \in lacking : c < b}) = i - 1>>]
<1>1. \A t : T!MissingOf(run.status, t) =
               P(t, issues[run.status[t].issue].parent,
                 T!Required(run.status, t) \ issues[run.status[t].issue].blockers)
    BY DEF T!MissingOf
<1>2. \A t : T!MissingOf(run.status, t)' =
               P(t, issues'[run'.status[t].issue].parent,
                 T!Required(run.status, t)' \ issues'[run'.status[t].issue].blockers)
    BY DEF T!MissingOf
<1> HIDE DEF P
<1>3. \A t : T!Required(run.status, t)' = T!Required(run.status, t)
    BY DEF T!Required
<1>4. \A t \in T!Tickets : T!MissingOf(run.status, t)' = T!MissingOf(run.status, t)
    <2> SUFFICES ASSUME NEW t \in T!Tickets PROVE T!MissingOf(run.status, t)' = T!MissingOf(run.status, t)
        OBVIOUS
    <2> DEFINE lacking == T!Required(run.status, t) \ issues[run.status[t].issue].blockers
               parent == issues[run.status[t].issue].parent
    <2>1. lacking' = lacking /\ parent' = parent
        BY <1>3
    <2>2. T!MissingOf(run.status, t) = P(t, parent, lacking)
        BY <1>1
    <2>3. T!MissingOf(run.status, t)' = P(t, parent', lacking')
        BY <1>2
    <2> HIDE DEF lacking, parent
    <2>4. P(t, parent', lacking') = P(t, parent, lacking)
        BY <2>1
    <2> QED BY <2>2, <2>3, <2>4
<1>5. [t \in T!Tickets |-> T!MissingOf(run.status, t)]' = [t \in T!Tickets |-> T!MissingOf(run.status, t)]
    BY <1>4
<1> QED BY <1>5 DEF Whole, T!Missing

\* A mapped ticket has its issue.
LEMMA MappedIssue ==
    ASSUME NEW status, StatusSound(status), NEW t \in T!Mapped(status)
    PROVE  /\ t \in T!Tickets
           /\ status[t].issue \in DOMAIN issues /\ issues[status[t].issue].of = t
           /\ status[t].issue \in T!Marked(t)
           /\ status[t] = T!Created(status[t].issue)
<1>1. t \in T!Tickets /\ status[t].is = "created"
    BY DEF T!Mapped
<1>2. PICK n \in DOMAIN issues : issues[n].of = t /\ status[t] = T!Created(n)
    BY <1>1 DEF StatusSound, T!Pending, T!Creating, T!RetryAuthorized
<1> QED BY <1>1, <1>2 DEF T!Created, T!Marked

\* The issues and the lost requests of a ticket are counted by numbers.
LEMMA CountsFinite ==
    ASSUME WorldSound, NEW t
    PROVE  /\ IsFiniteSet(T!Marked(t)) /\ Cardinality(T!Marked(t)) \in Nat
           /\ IsFiniteSet(Lost(t)) /\ Cardinality(Lost(t)) \in Nat
<1>1. T!Marked(t) \subseteq DOMAIN issues /\ Lost(t) \subseteq DOMAIN inflight
    BY DEF T!Marked, Lost, Positions
<1> QED BY <1>1, PlacesFinite DEF WorldSound

\* The same after a step.
LEMMA CountsFinitePrime ==
    ASSUME WorldSound', NEW t
    PROVE  Cardinality(T!Marked(t))' \in Nat /\ Cardinality(Lost(t))' \in Nat
<1>1. T!Marked(t)' \subseteq DOMAIN issues' /\ Lost(t)' \subseteq DOMAIN inflight'
    BY DEF T!Marked, Lost, Positions
<1> QED BY <1>1, PlacesFinite DEF WorldSound

LEMMA CreditBounds == \A t : Credit(t) \in {0, 1, 2} /\ Credit(t)' \in {0, 1, 2}
    BY DEF Credit

\* As long as every issue keeps its marker, the status of a batch stays sound.
LEMMA StatusKept ==
    ASSUME DOMAIN issues \subseteq DOMAIN issues',
           \A n \in DOMAIN issues : issues'[n].of = issues[n].of,
           NEW status, StatusSound(status)
    PROVE  StatusSound(status)'
<1>1. \A t \in T!Tickets : \A n \in DOMAIN issues :
          issues[n].of = t /\ status[t] = T!Created(n) =>
              n \in DOMAIN issues' /\ issues'[n].of = t
    OBVIOUS
<1>2. \A t \in T!Tickets :
          \/ status[t] \in {T!Pending, T!Creating, T!RetryAuthorized}
          \/ \E n \in DOMAIN issues' : issues'[n].of = t /\ status[t] = T!Created(n)
    BY <1>1 DEF StatusSound
<1> QED BY <1>2 DEF StatusSound

\* What a step has to show when no issue, request or word of the operator is new.
LEMMA Keep ==
    ASSUME PublicationInv, IsList(issues'), DOMAIN issues' = DOMAIN issues,
           \A n \in DOMAIN issues :
              issues'[n].of = issues[n].of /\ DOMAIN issues'[n] = DOMAIN T!Issue(0),
           UNCHANGED <<inflight, sent, allowed, exported>>,
           StatusSound(disk.status)',
           \A t \in T!Tickets : Credit(t)' <= Credit(t),
           Fresh', RunSound', edits' \in Nat
    PROVE  PublicationInv'
<1>1. WorldSound'
    BY DEF PublicationInv, WorldSound, T!Issue
<1>2. \A t : T!Marked(t)' = T!Marked(t) /\ Lost(t)' = Lost(t)
    BY DEF T!Marked, Lost, Positions
<1>3. Counted'
    BY <1>2 DEF PublicationInv, Counted
<1>4. Credited'
    <2>1. \A t \in T!Tickets : sent[t] \in Nat /\ allowed[t] \in Nat
        BY DEF PublicationInv, WorldSound
    <2>2. \A t \in T!Tickets : sent[t] + Credit(t)' <= 1 + allowed[t]
        BY <2>1, CreditBounds DEF PublicationInv, Credited
    <2> QED BY <2>2 DEF Credited
<1>5. BlockersFirst'
    BY <1>2 DEF PublicationInv, BlockersFirst
<1>6. StatusSound(exported.status)'
    BY StatusKept DEF PublicationInv
<1> QED BY <1>1, <1>3, <1>4, <1>5, <1>6 DEF PublicationInv

\* A command that has ended has nothing to know.
LEMMA RestSound == ASSUME run' = T!Idle PROVE RunSound'
    BY DEF RunSound, T!Idle, AllCreated

\* The command ends and saves nothing.
LEMMA CommandEnded ==
    ASSUME PublicationInv, IsList(issues'), DOMAIN issues' = DOMAIN issues,
           \A n \in DOMAIN issues :
              issues'[n].of = issues[n].of /\ DOMAIN issues'[n] = DOMAIN T!Issue(0),
           UNCHANGED <<inflight, sent, allowed, disk, exported>>, run' = T!Idle, edits' \in Nat
    PROVE  PublicationInv'
<1>1. RunSound'
    BY RestSound
<1>2. \A t \in T!Tickets : Credit(t)' <= Credit(t)
    BY DEF Credit, T!Idle
<1>3. Fresh'
    BY DEF PublicationInv, Fresh
<1>4. StatusSound(disk.status)'
    BY StatusKept DEF PublicationInv
<1> QED BY <1>1, <1>2, <1>3, <1>4, Keep

\* No word of the operator is new in a status.
NothingNew(status) ==
    \A t \in T!Tickets :
        status[t].is \in {"pending", "authorized"} => status[t] = run.status[t]

\* The command goes on, or ends, with nothing new on GitHub.
LEMMA Local ==
    ASSUME PublicationInv, run.at # "idle", UNCHANGED <<issues, inflight, sent, allowed, exported, edits>>,
           disk'.exists, StatusSound(disk'.status), NothingNew(disk'.status),
           \A t \in T!Tickets : run'.at = "create" /\ run'.ticket = t =>
              \/ disk.status[t].is \in {"pending", "authorized"} /\ disk'.status[t].is = "creating",
           RunSound'
    PROVE  PublicationInv'
<1>1. disk.exists /\ disk.status = run.status
    BY DEF PublicationInv, RunSound
<1>2. \A t \in T!Tickets : Credit(t)' <= Credit(t)
    BY <1>1 DEF Credit, NothingNew
<1>3. Fresh'
    BY <1>1 DEF PublicationInv, Fresh, NothingNew
<1>4. StatusSound(disk.status)'
    BY StatusKept DEF PublicationInv
<1>5. IsList(issues') /\ \A n \in DOMAIN issues :
            issues'[n].of = issues[n].of /\ DOMAIN issues'[n] = DOMAIN T!Issue(0)
    BY DEF PublicationInv, WorldSound, T!Issue
<1> QED BY <1>2, <1>3, <1>4, <1>5, Keep DEF PublicationInv

\* The command ends with a save that may not have reached the disk.
LEMMA SaveFails ==
    ASSUME PublicationInv, run.at # "idle", UNCHANGED <<issues, inflight, sent, allowed, exported, edits>>,
           NEW status, StatusSound(status), NothingNew(status),
           disk' \in {disk, T!Batch(status)}, run' = T!Idle
    PROVE  PublicationInv'
<1>1. disk.exists /\ disk.status = run.status /\ StatusSound(disk.status)
    BY DEF PublicationInv, RunSound
<1>2. disk'.exists /\ StatusSound(disk'.status) /\ NothingNew(disk'.status)
    BY <1>1 DEF T!Batch, NothingNew
<1>3. RunSound' /\ run'.at # "create"
    BY RestSound DEF T!Idle
<1> QED BY <1>2, <1>3, Local

\* The command ends and nothing else changes.
LEMMA JustEnded ==
    ASSUME PublicationInv, UNCHANGED <<issues, inflight, sent, allowed, disk, exported, edits>>, run' = T!Idle
    PROVE  PublicationInv'
<1>1. IsList(issues') /\ \A n \in DOMAIN issues :
            issues'[n].of = issues[n].of /\ DOMAIN issues'[n] = DOMAIN T!Issue(0)
    BY DEF PublicationInv, WorldSound, T!Issue
<1> QED BY <1>1, CommandEnded DEF PublicationInv

\* The command goes on and saves nothing.
LEMMA GoesOn ==
    ASSUME PublicationInv, run.at # "idle", run'.at # "create",
           UNCHANGED <<issues, inflight, sent, allowed, disk, exported, edits>>, RunSound'
    PROVE  PublicationInv'
<1>1. disk'.exists /\ StatusSound(disk'.status) /\ NothingNew(disk'.status)
    BY DEF PublicationInv, RunSound, NothingNew
<1> QED BY <1>1, Local

LEMMA FailsInv == PublicationInv /\ T!Fails => PublicationInv'
    BY JustEnded DEF T!Fails, T!End, T!remote

LEMMA DiesInv == PublicationInv /\ T!Dies => PublicationInv'
    BY JustEnded DEF T!Dies, T!remote

LEMMA PublishInv == PublicationInv /\ T!Publish => PublicationInv'
<1> SUFFICES ASSUME PublicationInv, T!Publish PROVE PublicationInv'
    OBVIOUS
<1>1. /\ disk.exists
      /\ run' = [T!Idle EXCEPT !.at = "observe", !.status = disk.status]
      /\ UNCHANGED <<issues, inflight, sent, allowed, disk, exported, edits>>
    BY DEF T!Publish, T!remote
<1>2. /\ DOMAIN run' = {"at", "status", "ticket", "found", "observed", "todo", "calm"}
      /\ run'.at = "observe" /\ run'.status = disk.status
      /\ \A t \in T!Tickets : run'.observed[t] = 0
    BY <1>1 DEF T!Idle
<1>3. RunSound'
    BY <1>1, <1>2 DEF RunSound, AllCreated
<1>4. \A t \in T!Tickets : Credit(t)' <= Credit(t)
    BY <1>1, <1>2 DEF Credit
<1>5. Fresh'
    BY <1>1 DEF PublicationInv, Fresh
<1>6. StatusSound(disk.status)'
    BY <1>1, StatusKept DEF PublicationInv
<1>7. IsList(issues') /\ \A n \in DOMAIN issues :
            issues'[n].of = issues[n].of /\ DOMAIN issues'[n] = DOMAIN T!Issue(0)
    BY <1>1 DEF PublicationInv, WorldSound, T!Issue
<1> QED BY <1>1, <1>3, <1>4, <1>5, <1>6, <1>7, Keep DEF PublicationInv

LEMMA ObserveInv == PublicationInv /\ T!Observe => PublicationInv'
<1> SUFFICES ASSUME PublicationInv, T!Observe PROVE PublicationInv'
    OBVIOUS
<1> DEFINE seen == [ticket \in T!Tickets |->
                    IF run.status[ticket].is = "created" THEN {run.status[ticket].issue}
                    ELSE T!Marked(ticket)]
           known == {ticket \in T!Tickets : seen[ticket] # {}}
           observed == [ticket \in T!Tickets |->
                           IF ticket \in known THEN CHOOSE n \in seen[ticket] : TRUE ELSE 0]
<1>1. /\ run.at = "observe"
      /\ UNCHANGED <<issues, inflight, sent, allowed, disk, exported, edits>>
      /\ \/ run' = T!Idle
         \/ run' = [run EXCEPT !.at = "choose", !.observed = observed]
    BY DEF T!Observe, T!remote, T!End
<1>2. CASE run' = T!Idle
    BY <1>1, <1>2, JustEnded
<1>3. CASE run' = [run EXCEPT !.at = "choose", !.observed = observed]
    <2>1. StatusSound(run.status)
        BY <1>1 DEF PublicationInv, RunSound
    <2>2. \A t \in T!Tickets : seen[t] \subseteq DOMAIN issues
        BY <2>1, MappedIssue DEF T!Mapped, T!Marked
    <2> HIDE DEF seen
    <2>3. \A t \in T!Tickets : observed[t] \in {0} \cup DOMAIN issues
        BY <2>2
    <2> HIDE DEF observed
    <2>4. /\ DOMAIN run' = {"at", "status", "ticket", "found", "observed", "todo", "calm"}
          /\ run'.at = "choose" /\ run'.status = run.status /\ run'.observed = observed
        BY <1>3 DEF PublicationInv, RunSound
    <2>5. disk.exists /\ disk.status = run.status
        BY <1>1 DEF PublicationInv, RunSound
    <2>6. RunSound'
        BY <1>1, <2>3, <2>4, <2>5 DEF RunSound, AllCreated
    <2> QED BY <1>1, <2>4, <2>6, GoesOn
<1> QED BY <1>1, <1>2, <1>3

LEMMA PlanFacts == T!Tickets = 1 .. Len(Plan) /\ Len(Plan) \in Nat
    BY PlanAssumption DEF T!Tickets

\* A set of natural numbers that is not empty has a least element.
LEMMA LeastNumber ==
    ASSUME NEW S \in SUBSET Nat, S # {}
    PROVE  \E x \in S : \A y \in S : x <= y
<1>1. PICK x \in S : \A y \in S : ~(<<y, x>> \in OpToRel(<, Nat))
    BY NatLessThanWellFounded, WFMin
<1>2. ASSUME NEW y \in S PROVE x <= y
    <2>1. <<y, x>> \in Nat \X Nat
        OBVIOUS
    <2>2. ~(<<y, x>>[1] < <<y, x>>[2])
        BY <1>1, <2>1 DEF OpToRel
    <2> QED BY <2>2
<1> QED BY <1>2

\* The first of some tickets is one of them.
LEMMA FirstTicket ==
    ASSUME NEW S \in SUBSET T!Tickets, S # {}
    PROVE  T!Min(S) \in S
<1>1. S \subseteq Nat
    BY PlanFacts
<1> QED BY <1>1, LeastNumber DEF T!Min

\* The intention to create a ticket's issue is saved before the request.
LEMMA IntendsInv ==
    ASSUME PublicationInv, run.at \in {"choose", "find"}, NEW t \in T!Tickets,
           Plan[t].tickets \subseteq T!Mapped(run.status),
           run.status[t].is \in {"pending", "authorized"}, T!Intends(t),
           UNCHANGED <<issues, inflight, sent, allowed, exported, edits>>
    PROVE  PublicationInv'
<1> DEFINE status == [run.status EXCEPT ![t] = T!Creating]
           then == [run EXCEPT !.at = "create", !.status = status, !.ticket = t]
<1>1. \/ disk' = T!Batch(status) /\ run' = then
      \/ disk' \in {disk, T!Batch(status)} /\ run' = T!Idle
    BY DEF T!Intends, T!Saves, T!End
<1>2. disk.exists /\ disk.status = run.status /\ StatusSound(run.status)
    BY DEF PublicationInv, RunSound
<1>3. status = [ticket \in T!Tickets |-> IF ticket = t THEN T!Creating ELSE run.status[ticket]]
    BY <1>2 DEF StatusSound
<1>4. StatusSound(status)
    BY <1>2, <1>3 DEF StatusSound
<1>5. NothingNew(status)
    BY <1>3 DEF NothingNew, T!Creating
<1>6. T!Mapped(run.status) \subseteq T!Mapped(status)
    BY <1>3 DEF T!Mapped
<1>7. status[t] = T!Creating /\ run.status[t].is # "creating"
    BY <1>3 DEF T!Creating
<1> HIDE DEF status
<1>8. CASE disk' = T!Batch(status) /\ run' = then
    <2>1. /\ DOMAIN run' = {"at", "status", "ticket", "found", "observed", "todo", "calm"}
          /\ run'.at = "create" /\ run'.status = status /\ run'.ticket = t
          /\ run'.observed = run.observed
          /\ disk'.exists /\ disk'.status = status
        BY <1>8 DEF PublicationInv, RunSound, T!Batch
    <2>2. RunSound'
        <3>1. run'.status[t].is = "creating" /\ Plan[t].tickets \subseteq T!Mapped(run'.status)
            BY <1>6, <1>7, <2>1 DEF T!Creating
        <3>2. T!Mapped(run.status)' = T!Mapped(run'.status)
            BY DEF T!Mapped
        <3>3. \A ticket \in T!Tickets : run'.observed[ticket] \in {0} \cup DOMAIN issues'
            BY <2>1 DEF PublicationInv, RunSound
        <3> QED BY <2>1, <3>1, <3>2, <3>3 DEF RunSound, AllCreated
    <2> QED BY <1>2, <1>4, <1>5, <1>7, <2>1, <2>2, Local DEF T!Creating
<1>9. CASE disk' \in {disk, T!Batch(status)} /\ run' = T!Idle
    BY <1>4, <1>5, <1>9, SaveFails
<1> QED BY <1>1, <1>8, <1>9

LEMMA ChooseInv == PublicationInv /\ T!Choose => PublicationInv'
<1> SUFFICES ASSUME PublicationInv, T!Choose PROVE PublicationInv'
    OBVIOUS
<1> DEFINE t == T!Min(T!Ready(run.status))
<1>1. /\ run.at = "choose" /\ T!Ready(run.status) # {}
      /\ UNCHANGED <<issues, inflight, sent, allowed, exported, edits>>
    BY DEF T!Choose, T!remote
<1>2. t \in T!Ready(run.status)
    BY <1>1, FirstTicket DEF T!Ready
<1>3. t \in T!Tickets /\ Plan[t].tickets \subseteq T!Mapped(run.status)
    BY <1>2 DEF T!Ready
<1>4. \/ run.status[t].is = "pending" /\ T!Intends(t)
      \/ /\ run.observed[t] # 0
         /\ run' = [run EXCEPT !.at = "record", !.ticket = t, !.found = {run.observed[t]}]
         /\ UNCHANGED disk
      \/ run' = [run EXCEPT !.at = "find", !.ticket = t] /\ UNCHANGED disk
    BY DEF T!Choose
<1> HIDE DEF t
<1>5. CASE run.status[t].is = "pending" /\ T!Intends(t)
    BY <1>1, <1>3, <1>5, IntendsInv
<1>6. CASE /\ run.observed[t] # 0
           /\ run' = [run EXCEPT !.at = "record", !.ticket = t, !.found = {run.observed[t]}]
           /\ UNCHANGED disk
    <2>1. /\ DOMAIN run' = {"at", "status", "ticket", "found", "observed", "todo", "calm"}
          /\ run'.at = "record" /\ run'.status = run.status /\ run'.ticket = t
          /\ run'.observed = run.observed /\ run'.found = {run.observed[t]}
        BY <1>6 DEF PublicationInv, RunSound
    <2>2. RunSound'
        BY <1>1, <1>3, <1>6, <2>1 DEF PublicationInv, RunSound, AllCreated, T!Mapped
    <2> QED BY <1>1, <1>6, <2>1, <2>2, GoesOn
<1>7. CASE run' = [run EXCEPT !.at = "find", !.ticket = t] /\ UNCHANGED disk
    <2>1. /\ DOMAIN run' = {"at", "status", "ticket", "found", "observed", "todo", "calm"}
          /\ run'.at = "find" /\ run'.status = run.status /\ run'.ticket = t
          /\ run'.observed = run.observed
        BY <1>7 DEF PublicationInv, RunSound
    <2>2. RunSound'
        BY <1>1, <1>3, <1>7, <2>1 DEF PublicationInv, RunSound, AllCreated, T!Mapped
    <2> QED BY <1>1, <1>7, <2>1, <2>2, GoesOn
<1> QED BY <1>4, <1>5, <1>6, <1>7

LEMMA FindInv == PublicationInv /\ T!Find => PublicationInv'
<1> SUFFICES ASSUME PublicationInv, T!Find PROVE PublicationInv'
    OBVIOUS
<1>1. /\ run.at = "find"
      /\ UNCHANGED <<issues, inflight, sent, allowed, exported, edits>>
      /\ \/ /\ Cardinality(T!Marked(run.ticket)) = 1
            /\ run' = [run EXCEPT !.at = "record", !.found = T!Marked(run.ticket)]
            /\ UNCHANGED disk
         \/ T!may_create(run.ticket) /\ T!Intends(run.ticket)
         \/ run' = T!Idle /\ UNCHANGED disk
    BY PublicationCounts DEF T!Find, T!remote, T!End
<1>2. run.ticket \in T!Tickets /\ Plan[run.ticket].tickets \subseteq T!Mapped(run.status)
    BY <1>1 DEF PublicationInv, RunSound
<1>3. CASE /\ Cardinality(T!Marked(run.ticket)) = 1
           /\ run' = [run EXCEPT !.at = "record", !.found = T!Marked(run.ticket)]
           /\ UNCHANGED disk
    <2>1. /\ DOMAIN run' = {"at", "status", "ticket", "found", "observed", "todo", "calm"}
          /\ run'.at = "record" /\ run'.status = run.status /\ run'.ticket = run.ticket
          /\ run'.observed = run.observed /\ run'.found = T!Marked(run.ticket)
        BY <1>3 DEF PublicationInv, RunSound
    <2>2. T!Marked(run.ticket) # {} /\ T!Marked(run.ticket) \subseteq DOMAIN issues
        BY <1>3, FS_EmptySet DEF T!Marked
    <2>3. RunSound'
        BY <1>1, <1>2, <1>3, <2>1, <2>2 DEF PublicationInv, RunSound, AllCreated, T!Mapped
    <2> QED BY <1>1, <1>3, <2>1, <2>3, GoesOn
<1>4. CASE T!may_create(run.ticket) /\ T!Intends(run.ticket)
    BY <1>1, <1>2, <1>4, IntendsInv DEF T!may_create
<1>5. CASE run' = T!Idle /\ UNCHANGED disk
    BY <1>1, <1>5, JustEnded
<1> QED BY <1>1, <1>3, <1>4, <1>5

\* A mapping is added to a status.
LEMMA MapsTicket ==
    ASSUME NEW old, StatusSound(old), NEW t \in T!Tickets, NEW number \in DOMAIN issues,
           issues[number].of = t
    PROVE  LET status == [old EXCEPT ![t] = T!Created(number)] IN
           /\ StatusSound(status) /\ status[t].is = "created"
           /\ \A u \in T!Tickets : u # t => status[u] = old[u]
<1> DEFINE status == [old EXCEPT ![t] = T!Created(number)]
<1>1. /\ status = [u \in T!Tickets |-> IF u = t THEN T!Created(number) ELSE old[u]]
    BY DEF StatusSound
<1>2. status[t] = T!Created(number) /\ \A u \in T!Tickets : u # t => status[u] = old[u]
    BY <1>1
<1>3. status = [u \in T!Tickets |-> status[u]]
    BY <1>1
<1> HIDE DEF status
<1>4. StatusSound(status)
    BY <1>2, <1>3 DEF StatusSound
<1> QED BY <1>2, <1>4 DEF status, T!Created

LEMMA RecordInv == PublicationInv /\ T!Record => PublicationInv'
<1> SUFFICES ASSUME PublicationInv, T!Record PROVE PublicationInv'
    OBVIOUS
<1> DEFINE number == CHOOSE n \in run.found : TRUE
           status == [run.status EXCEPT ![run.ticket] = T!Created(number)]
           then == [run EXCEPT !.at = "choose", !.status = status, !.found = {}, !.ticket = 0]
<1>1. /\ run.at = "record"
      /\ UNCHANGED <<issues, inflight, sent, allowed, exported, edits>>
      /\ \/ run' = T!Idle /\ UNCHANGED disk
         \/ T!Checks(run.ticket, number) /\ disk' = T!Batch(status) /\ run' = then
         \/ T!Checks(run.ticket, number) /\ disk' \in {disk, T!Batch(status)} /\ run' = T!Idle
    BY DEF T!Record, T!remote, T!End
<1>2. /\ run.ticket \in T!Tickets /\ number \in DOMAIN issues
      /\ disk.exists /\ disk.status = run.status /\ StatusSound(run.status)
    BY <1>1 DEF PublicationInv, RunSound
<1>3. CASE run' = T!Idle /\ UNCHANGED disk
    BY <1>1, <1>3, JustEnded
<1>4. CASE T!Checks(run.ticket, number)
    <2> HIDE DEF number
    <2>1. /\ StatusSound(status) /\ status[run.ticket].is = "created"
          /\ \A u \in T!Tickets : u # run.ticket => status[u] = run.status[u]
        BY <1>2, <1>4, MapsTicket DEF T!Checks
    <2>2. NothingNew(status)
        BY <2>1 DEF NothingNew
    <2> HIDE DEF status
    <2>3. CASE disk' \in {disk, T!Batch(status)} /\ run' = T!Idle
        BY <1>1, <2>1, <2>2, <2>3, SaveFails
    <2>4. CASE disk' = T!Batch(status) /\ run' = then
        <3>1. /\ DOMAIN run' = {"at", "status", "ticket", "found", "observed", "todo", "calm"}
              /\ run'.at = "choose" /\ run'.status = status
              /\ run'.observed = run.observed
              /\ disk'.exists /\ disk'.status = status
            BY <2>4 DEF PublicationInv, RunSound, T!Batch
        <3>2. RunSound'
            BY <1>1, <3>1 DEF PublicationInv, RunSound, AllCreated
        <3> QED BY <1>1, <2>1, <2>2, <3>1, <3>2, Local
    <2> QED BY <1>1, <1>3, <2>3, <2>4
<1> QED BY <1>1, <1>3, <1>4

-----------------------------------------------------------------------------
\* One more issue, which carries the marker of t.
LEMMA Grown ==
    ASSUME WorldSound, NEW t, issues' = Append(issues, T!Issue(t))
    PROVE  /\ IsList(issues') /\ \A n \in DOMAIN issues' : DOMAIN issues'[n] = DOMAIN T!Issue(0)
           /\ DOMAIN issues \subseteq DOMAIN issues'
           /\ \A n \in DOMAIN issues : issues'[n] = issues[n]
           /\ Len(issues) + 1 \in DOMAIN issues' /\ issues'[Len(issues) + 1] = T!Issue(t)
           /\ \A u : u # t => T!Marked(u)' = T!Marked(u)
           /\ T!Marked(t) \subseteq T!Marked(t)'
           /\ Cardinality(T!Marked(t)') = Cardinality(T!Marked(t)) + 1
<1>1. /\ Len(issues) \in Nat /\ DOMAIN issues = 1 .. Len(issues)
      /\ IsList(issues') /\ DOMAIN issues' = 1 .. Len(issues) + 1
      /\ \A n \in DOMAIN issues : n \in DOMAIN issues' /\ issues'[n] = issues[n]
      /\ issues'[Len(issues) + 1] = T!Issue(t)
    BY ListAppend DEF WorldSound
<1>2. \A n \in DOMAIN issues' : DOMAIN issues'[n] = DOMAIN T!Issue(0)
    <2>1. DOMAIN T!Issue(t) = DOMAIN T!Issue(0)
        BY DEF T!Issue
    <2>2. \A n \in DOMAIN issues' : n \in DOMAIN issues \/ n = Len(issues) + 1
        BY <1>1
    <2> QED BY <1>1, <2>1, <2>2 DEF WorldSound
<1>3. T!Issue(t).of = t
    BY DEF T!Issue
<1>4. \A n : n \in DOMAIN issues' <=> n \in DOMAIN issues \/ n = Len(issues) + 1
    BY <1>1
<1>5. \A u : u # t => T!Marked(u)' = T!Marked(u)
    BY <1>1, <1>3, <1>4 DEF T!Marked
<1>6. T!Marked(t)' = T!Marked(t) \cup {Len(issues) + 1}
    BY <1>1, <1>3, <1>4 DEF T!Marked
<1>7. Len(issues) + 1 \notin T!Marked(t)
    BY <1>1 DEF T!Marked
<1>8. IsFiniteSet(T!Marked(t)) /\ Cardinality(T!Marked(t)) \in Nat
    BY CountsFinite
<1>9. Cardinality(T!Marked(t)') = Cardinality(T!Marked(t)) + 1
    BY <1>6, <1>7, <1>8, FS_AddElement
<1> QED BY <1>1, <1>2, <1>4, <1>5, <1>6, <1>9

LEMMA CreateInv == PublicationInv /\ T!Create => PublicationInv'
<1> SUFFICES ASSUME PublicationInv, T!Create PROVE PublicationInv'
    OBVIOUS
<1>0. PICK t : t = run.ticket
    OBVIOUS
<1>1. /\ run.at = "create"
      /\ sent' = [sent EXCEPT ![t] = @ + 1]
      /\ UNCHANGED <<allowed, disk, exported, edits>>
      /\ \/ /\ issues' = Append(issues, T!Issue(t)) /\ UNCHANGED inflight
            /\ run' = [run EXCEPT !.at = "record", !.found = {Len(issues) + 1}]
         \/ /\ inflight' = Append(inflight, t) /\ UNCHANGED issues
            /\ run' = T!Idle
    BY <1>0 DEF T!Create, T!End
<1>2. /\ t \in T!Tickets /\ Plan[t].tickets \subseteq T!Mapped(run.status)
      /\ run.status[t].is = "creating"
      /\ disk.exists /\ disk.status = run.status /\ StatusSound(run.status)
      /\ WorldSound
    BY <1>0, <1>1 DEF PublicationInv, RunSound
<1>3. /\ sent' \in [T!Tickets -> Nat] /\ sent'[t] = sent[t] + 1
      /\ \A u \in T!Tickets : u # t => sent'[u] = sent[u]
      /\ \A u \in T!Tickets : sent[u] \in Nat /\ allowed[u] \in Nat
    BY <1>1, <1>2 DEF WorldSound
<1>4. /\ DOMAIN issues \subseteq DOMAIN issues'
      /\ \A n \in DOMAIN issues : issues'[n].of = issues[n].of
    BY <1>1, <1>2, Grown
<1>5. StatusSound(disk.status)' /\ StatusSound(exported.status)'
    BY <1>1, <1>4, StatusKept DEF PublicationInv
<1>6. run'.at # "create"
    <2>1. DOMAIN run = {"at", "status", "ticket", "found", "observed", "todo", "calm"}
        BY DEF PublicationInv, RunSound
    <2>2. T!Idle.at = "idle"
        BY DEF T!Idle
    <2> QED BY <1>1, <2>1, <2>2
<1>7. Credited'
    <2>1. Credit(t) = 1 /\ Credit(t)' = 0
        BY <1>0, <1>1, <1>2, <1>6 DEF Credit
    <2>2. \A u \in T!Tickets : u # t => Credit(u)' = Credit(u)
        BY <1>0, <1>1, <1>2, <1>6 DEF Credit
    <2>3. \A u \in T!Tickets : sent'[u] + Credit(u)' <= 1 + allowed[u]
        BY <1>3, <2>1, <2>2, CreditBounds DEF PublicationInv, Credited
    <2> QED BY <1>1, <2>3 DEF Credited
<1>8. Fresh'
    BY <1>1, <1>2, <1>3 DEF PublicationInv, Fresh
<1>9. \A u : T!Marked(u) \subseteq T!Marked(u)'
    BY <1>4 DEF T!Marked
<1>10. BlockersFirst'
    <2>1. \A u \in Plan[t].tickets : T!Marked(u) # {}
        BY <1>2, MappedIssue
    <2>2. \A u \in T!Tickets : sent'[u] > 0 => \A other \in Plan[u].tickets : T!Marked(other) # {}
        BY <1>3, <2>1 DEF PublicationInv, BlockersFirst
    <2>3. \A u \in T!Tickets : sent'[u] > 0 => \A other \in Plan[u].tickets : T!Marked(other)' # {}
        BY <1>9, <2>2
    <2> QED BY <2>3 DEF BlockersFirst
<1>11. CASE /\ issues' = Append(issues, T!Issue(t)) /\ UNCHANGED inflight
            /\ run' = [run EXCEPT !.at = "record", !.found = {Len(issues) + 1}]
    <2>1. WorldSound'
        BY <1>1, <1>2, <1>3, <1>11, Grown DEF WorldSound
    <2>2. Counted'
        <3>1. \A u : Lost(u)' = Lost(u)
            BY <1>11 DEF Lost, Positions
        <3>2. \A u \in T!Tickets : Cardinality(T!Marked(u)') + Cardinality(Lost(u)) <= sent'[u]
            BY SMTT(30), <1>2, <1>3, <1>11, Grown, CountsFinite DEF PublicationInv, Counted
        <3>3. \A u \in T!Tickets : Cardinality(T!Marked(u))' + Cardinality(Lost(u))' <= sent'[u]
            BY <3>1, <3>2
        <3> QED BY <3>3 DEF Counted
    <2>3. /\ DOMAIN run' = {"at", "status", "ticket", "found", "observed", "todo", "calm"}
          /\ run'.at = "record" /\ run'.status = run.status /\ run'.ticket = t
          /\ run'.observed = run.observed /\ run'.found = {Len(issues) + 1}
        BY <1>0, <1>11 DEF PublicationInv, RunSound
    <2>4. Len(issues) + 1 \in DOMAIN issues'
        BY <1>2, <1>11, Grown
    <2>5. RunSound'
        <3>1. Plan[t].tickets \subseteq T!Mapped(run.status)'
            BY <1>2, <2>3 DEF T!Mapped
        <3>2. \A u \in T!Tickets : run'.observed[u] \in {0} \cup DOMAIN issues'
            BY <1>1, <1>4, <2>3 DEF PublicationInv, RunSound
        <3> QED BY <1>1, <1>2, <2>3, <2>4, <3>1, <3>2 DEF RunSound, AllCreated
    <2> QED BY <1>1, <1>5, <1>7, <1>8, <1>10, <2>1, <2>2, <2>5 DEF PublicationInv
<1>12. CASE /\ inflight' = Append(inflight, t) /\ UNCHANGED issues
            /\ run' = T!Idle
    <2>1. /\ IsList(inflight') /\ Len(inflight) \in Nat /\ DOMAIN inflight = 1 .. Len(inflight)
          /\ DOMAIN inflight' = 1 .. Len(inflight) + 1
          /\ \A i \in DOMAIN inflight : i \in DOMAIN inflight' /\ inflight'[i] = inflight[i]
          /\ inflight'[Len(inflight) + 1] = t
        BY <1>2, <1>12, ListAppend DEF WorldSound
    <2>2. WorldSound'
        BY <1>1, <1>2, <1>3, <1>12, <2>1 DEF WorldSound, T!Issue
    <2>3. /\ Lost(t)' = Lost(t) \cup {Len(inflight) + 1} /\ Len(inflight) + 1 \notin Lost(t)
          /\ \A u : u # t => Lost(u)' = Lost(u)
        BY <2>1 DEF Lost, Positions
    <2>4. Cardinality(Lost(t)') = Cardinality(Lost(t)) + 1
        BY <1>2, <2>3, CountsFinite, FS_AddElement
    <2>5. \A u : T!Marked(u)' = T!Marked(u)
        BY <1>12 DEF T!Marked
    <2>6. \A u \in T!Tickets : Cardinality(T!Marked(u)) + Cardinality(Lost(u)') <= sent'[u]
        <3>1. \A u \in T!Tickets : Cardinality(T!Marked(u)) + Cardinality(Lost(u)) <= sent[u]
            BY DEF PublicationInv, Counted
        <3>2. \A u : Cardinality(T!Marked(u)) \in Nat /\ Cardinality(Lost(u)) \in Nat
            BY <1>2, CountsFinite
        <3>3. Cardinality(T!Marked(t)) + Cardinality(Lost(t)') <= sent'[t]
            BY <1>2, <1>3, <2>4, <3>1, <3>2
        <3>4. \A u \in T!Tickets : u # t => Cardinality(T!Marked(u)) + Cardinality(Lost(u)') <= sent'[u]
            BY <1>3, <2>3, <3>1
        <3> QED BY <3>3, <3>4
    <2>7. \A u \in T!Tickets : Cardinality(T!Marked(u))' + Cardinality(Lost(u))' <= sent'[u]
        BY <2>5, <2>6
    <2>8. Counted'
        BY <2>7 DEF Counted
    <2>9. RunSound'
        BY <1>12, RestSound
    <2> QED BY <1>1, <1>5, <1>7, <1>8, <1>10, <2>2, <2>8, <2>9 DEF PublicationInv
<1> QED BY <1>1, <1>11, <1>12

\* GitHub decides about a lost request.
LEMMA ArrivesInv == PublicationInv /\ T!Arrives => PublicationInv'
<1> SUFFICES ASSUME PublicationInv, T!Arrives PROVE PublicationInv'
    OBVIOUS
<1>0. PICK t : t = Head(inflight)
    OBVIOUS
<1>1. /\ inflight # << >> /\ inflight' = Tail(inflight)
      /\ issues' = issues \/ issues' = Append(issues, T!Issue(t))
      /\ UNCHANGED <<sent, allowed, disk, exported, run, edits>>
    BY <1>0 DEF T!Arrives
<1>2. WorldSound /\ IsList(inflight) /\ IsList(inflight')
    BY <1>1, ListTail DEF PublicationInv, WorldSound
<1>3. /\ DOMAIN issues \subseteq DOMAIN issues'
      /\ \A n \in DOMAIN issues : issues'[n] = issues[n]
      /\ IsList(issues') /\ \A n \in DOMAIN issues' : DOMAIN issues'[n] = DOMAIN T!Issue(0)
      /\ \A u : u # t => T!Marked(u)' = T!Marked(u)
      /\ Cardinality(T!Marked(t)') <= Cardinality(T!Marked(t)) + 1
      /\ \A u : T!Marked(u) \subseteq T!Marked(u)'
    <2>1. CASE issues' = issues
        <3>1. \A u : T!Marked(u)' = T!Marked(u)
            BY <2>1 DEF T!Marked
        <3>2. Cardinality(T!Marked(t)) \in Nat
            BY <1>2, CountsFinite
        <3> QED BY <1>2, <2>1, <3>1, <3>2 DEF WorldSound
    <2>2. CASE issues' = Append(issues, T!Issue(t))
        BY <1>2, <2>2, Grown, CountsFinite
    <2> QED BY <1>1, <2>1, <2>2
<1>4. WorldSound'
    BY <1>1, <1>2, <1>3 DEF WorldSound, T!Issue
<1>5. StatusSound(disk.status)' /\ StatusSound(exported.status)'
    BY <1>1, <1>3, StatusKept DEF PublicationInv
<1>6. Counted'
    <2>1. \A u : Cardinality(Lost(u)) =
                    Cardinality(Lost(u)') + (IF t = u THEN 1 ELSE 0)
        <3> SUFFICES ASSUME NEW u PROVE Cardinality(Lost(u)) =
                    Cardinality(Lost(u)') + (IF t = u THEN 1 ELSE 0)
            OBVIOUS
        <3>1. Lost(u) = Positions(inflight, u)
            BY DEF Lost
        <3>2. Lost(u)' = Positions(Tail(inflight), u)
            BY <1>1 DEF Lost
        <3>3. Cardinality(Positions(inflight, u)) =
                  Cardinality(Positions(Tail(inflight), u)) + (IF Head(inflight) = u THEN 1 ELSE 0)
            BY <1>1, <1>2, PlacesTail
        <3> QED BY <1>0, <3>1, <3>2, <3>3
    <2>2. \A u : /\ Cardinality(T!Marked(u)) \in Nat /\ Cardinality(Lost(u)) \in Nat
                 /\ Cardinality(T!Marked(u))' \in Nat /\ Cardinality(Lost(u))' \in Nat
        BY <1>2, <1>4, CountsFinite, CountsFinitePrime
    <2>3. \A u \in T!Tickets : Cardinality(T!Marked(u)) + Cardinality(Lost(u)) <= sent[u]
        BY DEF PublicationInv, Counted
    <2>4. \A u \in T!Tickets : sent[u] \in Nat
        BY <1>2 DEF WorldSound
    <2>5. \A u \in T!Tickets : u # t => Cardinality(T!Marked(u))' + Cardinality(Lost(u))' <= sent[u]
        BY <1>3, <2>1, <2>2, <2>3, <2>4
    <2>6. t \in T!Tickets => Cardinality(T!Marked(t))' + Cardinality(Lost(t))' <= sent[t]
        BY <1>3, <2>1, <2>2, <2>3, <2>4
    <2>7. \A u \in T!Tickets : Cardinality(T!Marked(u))' + Cardinality(Lost(u))' <= sent'[u]
        BY <1>1, <2>5, <2>6
    <2> QED BY <2>7 DEF Counted
<1>7. Credited'
    <2>1. \A u : Credit(u)' = Credit(u)
        BY <1>1 DEF Credit
    <2> QED BY <1>1, <2>1 DEF PublicationInv, Credited
<1>8. Fresh'
    BY <1>1 DEF PublicationInv, Fresh
<1>9. BlockersFirst'
    <2>1. \A u \in T!Tickets : sent[u] > 0 => \A other \in Plan[u].tickets : T!Marked(other)' # {}
        BY <1>3 DEF PublicationInv, BlockersFirst
    <2> QED BY <1>1, <2>1 DEF BlockersFirst
<1>10. RunSound'
    <2>1. run.at \in AllCreated => (Whole' <=> Whole)
        <3> SUFFICES ASSUME run.at \in AllCreated PROVE Whole' <=> Whole
            OBVIOUS
        <3>1. T!Mapped(run.status) = T!Tickets /\ StatusSound(run.status)
            BY DEF PublicationInv, RunSound, AllCreated
        <3>2. \A u \in T!Tickets : run.status[u].issue \in DOMAIN issues
            BY <3>1, MappedIssue
        <3> QED BY <1>1, <1>3, <3>2, WholeSame
    <2>2. T!Mapped(run.status)' = T!Mapped(run.status)
        BY <1>1 DEF T!Mapped
    <2> QED BY <1>1, <1>3, <2>1, <2>2 DEF PublicationInv, RunSound, AllCreated
<1> QED BY <1>1, <1>4, <1>5, <1>6, <1>7, <1>8, <1>9, <1>10 DEF PublicationInv

-----------------------------------------------------------------------------
\* One issue changes, but not its marker.
LEMMA Edited ==
    ASSUME WorldSound, NEW n, NEW changed,
           n \in DOMAIN issues => /\ changed.of = issues[n].of
                                 /\ DOMAIN changed = DOMAIN T!Issue(0),
           issues' = [issues EXCEPT ![n] = changed]
    PROVE  /\ IsList(issues') /\ DOMAIN issues' = DOMAIN issues
           /\ \A m \in DOMAIN issues :
                 issues'[m].of = issues[m].of /\ DOMAIN issues'[m] = DOMAIN T!Issue(0)
<1>1. IsList(issues')
    BY ListExcept DEF WorldSound
<1>2. \A m \in DOMAIN issues : issues'[m] = IF m = n THEN changed ELSE issues[m]
    OBVIOUS
<1> QED BY <1>1, <1>2 DEF WorldSound

\* The command goes on after an edit of its own.
LEMMA GoesOnThere ==
    ASSUME PublicationInv, run.at # "idle", run'.at # "create",
           IsList(issues'), DOMAIN issues' = DOMAIN issues,
           \A n \in DOMAIN issues :
              issues'[n].of = issues[n].of /\ DOMAIN issues'[n] = DOMAIN T!Issue(0),
           UNCHANGED <<inflight, sent, allowed, disk, exported, edits>>, RunSound'
    PROVE  PublicationInv'
<1>1. \A t \in T!Tickets : Credit(t)' <= Credit(t)
    BY DEF Credit
<1>2. Fresh'
    BY DEF PublicationInv, Fresh
<1>3. StatusSound(disk.status)'
    BY StatusKept DEF PublicationInv
<1> QED BY <1>1, <1>2, <1>3, Keep DEF PublicationInv

\* The command goes on to a place behind the creation of the last issue.
LEMMA GoesOnCreated ==
    ASSUME RunSound, run.at # "idle", UNCHANGED disk, DOMAIN issues' = DOMAIN issues,
           T!Mapped(run.status) = T!Tickets,
           DOMAIN run' = DOMAIN run, run'.status = run.status, run'.observed = run.observed,
           run'.at \in AllCreated,
           run'.at \in {"labels", "label"} /\ edits' = 0 => Whole',
           run'.at = "final labels" /\ run'.calm => Whole'
    PROVE  RunSound'
<1>1. T!Mapped(run.status)' = T!Tickets
    BY DEF T!Mapped
<1>2. \A t \in T!Tickets : run'.observed[t] \in {0} \cup DOMAIN issues'
    BY DEF RunSound
<1>3. run'.at \notin {"idle", "find", "create", "record"}
    BY DEF AllCreated
<1> QED BY <1>1, <1>2, <1>3 DEF RunSound

\* While nobody edits, the graph is what was read.
LEMMA WholeStays == ASSUME UNCHANGED issues, run'.status = run.status PROVE Whole' <=> Whole
    BY WholeSame

LEMMA ReadGraphInv == PublicationInv /\ T!ReadGraph => PublicationInv'
<1> SUFFICES ASSUME PublicationInv, T!ReadGraph PROVE PublicationInv'
    OBVIOUS
<1>1. /\ run.at = "choose" /\ T!Ready(run.status) = {}
      /\ UNCHANGED <<issues, inflight, sent, allowed, disk, exported, edits>>
      /\ \/ run' = T!Idle
         \/ run' = [run EXCEPT !.todo = T!Missing(run.status), !.at =
                          IF T!Missing(run.status) = << >> THEN "labels" ELSE "link"]
    BY DEF T!ReadGraph, T!remote, T!End
<1>2. CASE run' = T!Idle
    BY <1>1, <1>2, JustEnded
<1>3. CASE run' = [run EXCEPT !.todo = T!Missing(run.status), !.at =
                          IF T!Missing(run.status) = << >> THEN "labels" ELSE "link"]
    <2>1. T!Mapped(run.status) = T!Tickets
        <3> DEFINE created == T!Mapped(run.status)
        <3>1. created \in SUBSET T!Tickets
            BY DEF T!Mapped
        <3>2. \A t \in T!Tickets \ created : ~(Plan[t].tickets \subseteq created)
            BY <1>1 DEF T!Ready
        <3> HIDE DEF created
        <3>3. created = T!Tickets
            BY <3>1, <3>2, PlanAssumption
        <3> QED BY <3>3 DEF created
    <2>2. /\ DOMAIN run' = DOMAIN run /\ run'.status = run.status
          /\ run'.observed = run.observed
          /\ run'.at = IF Whole THEN "labels" ELSE "link"
        BY <1>3 DEF PublicationInv, RunSound, Whole
    <2>3. Whole' <=> Whole
        BY <1>1, <2>2, WholeStays
    <2>4. RunSound'
        BY <1>1, <2>1, <2>2, <2>3, GoesOnCreated DEF PublicationInv, AllCreated
    <2> QED BY <1>1, <2>2, <2>4, GoesOn
<1> QED BY <1>1, <1>2, <1>3

LEMMA AddLinkInv == PublicationInv /\ T!AddLink => PublicationInv'
<1> SUFFICES ASSUME PublicationInv, T!AddLink PROVE PublicationInv'
    OBVIOUS
<1> DEFINE link == Head(run.todo)
           number == run.status[link[1]].issue
<1>1. /\ run.at = "link"
      /\ UNCHANGED <<inflight, sent, allowed, disk, exported, edits>>
      /\ \/ UNCHANGED issues /\ run' = T!Idle
         \/ /\ issues' = [issues EXCEPT ![number] = T!Linked(issues[number], link)]
            /\ \/ run' = [run EXCEPT !.todo = Tail(run.todo), !.at =
                               IF Len(run.todo) = 1 THEN "regraph" ELSE "link"]
               \/ run' = T!Idle
    BY DEF T!AddLink, T!End
<1>2. CASE UNCHANGED issues /\ run' = T!Idle
    BY <1>1, <1>2, JustEnded
<1>3. CASE issues' = [issues EXCEPT ![number] = T!Linked(issues[number], link)]
    <2>1. number \in DOMAIN issues =>
              /\ T!Linked(issues[number], link).of = issues[number].of
              /\ DOMAIN T!Linked(issues[number], link) = DOMAIN T!Issue(0)
        BY DEF PublicationInv, WorldSound, T!Linked, T!Issue
    <2>2. /\ IsList(issues') /\ DOMAIN issues' = DOMAIN issues
          /\ \A m \in DOMAIN issues :
                issues'[m].of = issues[m].of /\ DOMAIN issues'[m] = DOMAIN T!Issue(0)
        BY <1>3, <2>1, Edited DEF PublicationInv
    <2>3. CASE run' = T!Idle
        BY <1>1, <2>2, <2>3, CommandEnded DEF PublicationInv
    <2>4. CASE run' = [run EXCEPT !.todo = Tail(run.todo), !.at =
                               IF Len(run.todo) = 1 THEN "regraph" ELSE "link"]
        <3>1. /\ DOMAIN run' = DOMAIN run /\ run'.status = run.status
              /\ run'.observed = run.observed /\ run'.at \in {"regraph", "link"}
            BY <2>4 DEF PublicationInv, RunSound
        <3>2. T!Mapped(run.status) = T!Tickets
            BY <1>1 DEF PublicationInv, RunSound, AllCreated
        <3>3. RunSound'
            BY <1>1, <2>2, <3>1, <3>2, GoesOnCreated DEF PublicationInv, AllCreated
        <3> QED BY <1>1, <2>2, <3>1, <3>3, GoesOnThere
    <2> QED BY <1>1, <1>2, <2>3, <2>4
<1> QED BY <1>1, <1>2, <1>3

\* The steps that only look.
LEMMA LooksOn ==
    ASSUME PublicationInv, run.at \in AllCreated, NEW place \in AllCreated, NEW ticket,
           run' = [run EXCEPT !.at = place, !.ticket = ticket],
           UNCHANGED <<issues, inflight, sent, allowed, disk, exported, edits>>,
           place \in {"labels", "label"} /\ edits = 0 => Whole,
           place = "final labels" /\ run.calm => Whole
    PROVE  PublicationInv'
<1>1. /\ DOMAIN run' = DOMAIN run /\ run'.status = run.status
      /\ run'.observed = run.observed /\ run'.at = place /\ run'.calm = run.calm
    BY DEF PublicationInv, RunSound
<1>2. T!Mapped(run.status) = T!Tickets /\ run.at # "idle" /\ place # "create"
    BY DEF PublicationInv, RunSound, AllCreated
<1>3. Whole' <=> Whole
    BY <1>1, WholeStays
<1>4. RunSound'
    BY <1>1, <1>2, <1>3, GoesOnCreated DEF PublicationInv
<1> QED BY <1>1, <1>2, <1>4, GoesOn

LEMMA RereadGraphInv == PublicationInv /\ T!RereadGraph => PublicationInv'
<1> SUFFICES ASSUME PublicationInv, T!RereadGraph PROVE PublicationInv'
    OBVIOUS
<1>1. /\ run.at = "regraph"
      /\ UNCHANGED <<issues, inflight, sent, allowed, disk, exported, edits>>
      /\ \/ run' = T!Idle
         \/ Whole /\ run' = [run EXCEPT !.at = "labels"]
    BY DEF T!RereadGraph, T!remote, T!End, T!Goto, Whole
<1>2. run' = T!Idle \/ run' = [run EXCEPT !.at = "labels", !.ticket = run.ticket]
    BY <1>1 DEF PublicationInv, RunSound
<1> QED BY <1>1, <1>2, JustEnded, LooksOn DEF AllCreated

LEMMA ReadLabelsInv == PublicationInv /\ T!ReadLabels => PublicationInv'
<1> SUFFICES ASSUME PublicationInv, T!ReadLabels PROVE PublicationInv'
    OBVIOUS
<1>1. /\ run.at = "labels"
      /\ UNCHANGED <<issues, inflight, sent, allowed, disk, exported, edits>>
      /\ \/ run' = T!Idle
         \/ run' = [run EXCEPT !.at = "label", !.ticket = 1]
    BY DEF T!ReadLabels, T!remote, T!End
<1>2. edits = 0 => Whole
    BY <1>1 DEF PublicationInv, RunSound
<1> QED BY <1>1, <1>2, JustEnded, LooksOn DEF AllCreated

LEMMA CheckGraphInv == PublicationInv /\ T!CheckGraph => PublicationInv'
<1> SUFFICES ASSUME PublicationInv, T!CheckGraph PROVE PublicationInv'
    OBVIOUS
<1>1. /\ run.at = "final"
      /\ UNCHANGED <<issues, inflight, sent, allowed, disk, exported, edits>>
      /\ \/ run' = T!Idle
         \/ Whole /\ run' = [run EXCEPT !.at = "final labels"]
    BY DEF T!CheckGraph, T!remote, T!End, T!Goto, Whole, T!final_graph
<1>2. run' = T!Idle \/ run' = [run EXCEPT !.at = "final labels", !.ticket = run.ticket]
    BY <1>1 DEF PublicationInv, RunSound
<1> QED BY <1>1, <1>2, JustEnded, LooksOn DEF AllCreated

LEMMA CheckLabelsInv == PublicationInv /\ T!CheckLabels => PublicationInv'
    BY JustEnded DEF T!CheckLabels, T!remote, T!End

LEMMA AddLabelsInv == PublicationInv /\ T!AddLabels => PublicationInv'
<1> SUFFICES ASSUME PublicationInv, T!AddLabels PROVE PublicationInv'
    OBVIOUS
<1> DEFINE number == run.status[run.ticket].issue
           labels == issues[number].labels \cup Plan[run.ticket].labels
<1>1. /\ run.at = "label"
      /\ UNCHANGED <<inflight, sent, allowed, disk, exported, edits>>
      /\ \/ UNCHANGED issues /\ run' = T!Idle
         \/ /\ issues' = [issues EXCEPT ![number] = [issues[number] EXCEPT !.labels = labels]]
            /\ \/ run' = [run EXCEPT !.at = "final", !.ticket = 0, !.calm = TRUE]
               \/ run' = [run EXCEPT !.ticket = run.ticket + 1]
               \/ run' = T!Idle
    BY DEF T!AddLabels, T!End
<1>2. CASE UNCHANGED issues /\ run' = T!Idle
    BY <1>1, <1>2, JustEnded
<1>3. CASE issues' = [issues EXCEPT ![number] = [issues[number] EXCEPT !.labels = labels]]
    <2> DEFINE changed == [issues[number] EXCEPT !.labels = labels]
    <2>1. number \in DOMAIN issues =>
              /\ changed.of = issues[number].of /\ DOMAIN changed = DOMAIN T!Issue(0)
              /\ changed.parent = issues[number].parent
              /\ changed.blockers = issues[number].blockers
        BY DEF PublicationInv, WorldSound, T!Issue
    <2> HIDE DEF changed
    <2>2. /\ IsList(issues') /\ DOMAIN issues' = DOMAIN issues
          /\ \A m \in DOMAIN issues :
                issues'[m].of = issues[m].of /\ DOMAIN issues'[m] = DOMAIN T!Issue(0)
        BY <1>3, <2>1, Edited DEF PublicationInv, changed
    <2>3. CASE run' = T!Idle
        BY <1>1, <2>2, <2>3, CommandEnded DEF PublicationInv
    <2>4. CASE \/ run' = [run EXCEPT !.at = "final", !.ticket = 0, !.calm = TRUE]
               \/ run' = [run EXCEPT !.ticket = run.ticket + 1]
        <3>1. /\ DOMAIN run' = DOMAIN run /\ run'.status = run.status
              /\ run'.observed = run.observed /\ run'.at \in {"label", "final"}
            BY <1>1, <2>4 DEF PublicationInv, RunSound
        <3>2. T!Mapped(run.status) = T!Tickets /\ StatusSound(run.status) /\ (edits = 0 => Whole)
            BY <1>1 DEF PublicationInv, RunSound, AllCreated
        <3>3. Whole' <=> Whole
            <4>1. \A m \in DOMAIN issues : /\ issues'[m].parent = issues[m].parent
                                           /\ issues'[m].blockers = issues[m].blockers
                BY <1>3, <2>1 DEF changed
            <4>2. \A t \in T!Tickets : run.status[t].issue \in DOMAIN issues
                BY <3>2, MappedIssue
            <4> QED BY <3>1, <4>1, <4>2, WholeSame
        <3>4. RunSound'
            BY <1>1, <2>2, <3>1, <3>2, <3>3, GoesOnCreated DEF PublicationInv, AllCreated
        <3> QED BY <1>1, <2>2, <3>1, <3>4, GoesOnThere
    <2> QED BY <1>1, <1>2, <2>3, <2>4
<1> QED BY <1>1, <1>2, <1>3

-----------------------------------------------------------------------------
\* A command of one step, which has the lock while no other runs.
LEMMA SavesBatch ==
    ASSUME PublicationInv, UNCHANGED <<issues, inflight, sent, exported, edits>>,
           run'.at = "idle", DOMAIN run' = DOMAIN run,
           allowed' \in [T!Tickets -> Nat], \A t \in T!Tickets : allowed[t] <= allowed'[t],
           StatusSound(disk'.status),
           \A t \in T!Tickets : disk'.exists /\ disk'.status[t].is \in {"pending", "authorized"} =>
              \/ disk.exists /\ disk.status[t].is \in {"pending", "authorized"}
              \/ sent[t] = 0
              \/ allowed'[t] = allowed[t] + 1,
           \A t \in T!Tickets : disk'.exists /\ disk'.status[t].is = "pending" => sent[t] = 0
    PROVE  PublicationInv'
<1>1. WorldSound'
    BY DEF PublicationInv, WorldSound, T!Issue
<1>2. \A t : T!Marked(t)' = T!Marked(t) /\ Lost(t)' = Lost(t)
    BY DEF T!Marked, Lost
<1>3. Counted' /\ BlockersFirst'
    BY <1>2 DEF PublicationInv, Counted, BlockersFirst
<1>4. StatusSound(disk.status)' /\ StatusSound(exported.status)'
    BY StatusKept DEF PublicationInv
<1>5. Credited'
    <2>1. \A t \in T!Tickets :
              sent[t] \in Nat /\ allowed[t] \in Nat /\ allowed'[t] \in Nat
        BY DEF PublicationInv, WorldSound
    <2> SUFFICES ASSUME NEW t \in T!Tickets PROVE sent[t] + Credit(t)' <= 1 + allowed'[t]
        BY DEF Credited
    <2>2. Credit(t)' = IF disk'.exists /\ disk'.status[t].is \in {"pending", "authorized"}
                       THEN 1 ELSE 0
        BY DEF Credit
    <2>3. sent[t] + Credit(t) <= 1 + allowed[t] /\ Credit(t) \in {0, 1, 2}
        BY CreditBounds DEF PublicationInv, Credited
    <2>4. disk.exists /\ disk.status[t].is \in {"pending", "authorized"} => Credit(t) # 0
        BY DEF Credit
    <2> HIDE DEF Credit
    <2>5. CASE Credit(t)' = 0
        BY <2>1, <2>3, <2>5
    <2>6. CASE Credit(t)' = 1
        BY <2>1, <2>2, <2>3, <2>4, <2>6
    <2> QED BY <2>2, <2>5, <2>6
<1>6. Fresh'
    BY DEF Fresh
<1>7. RunSound'
    BY DEF PublicationInv, RunSound, AllCreated
<1> QED BY <1>1, <1>3, <1>4, <1>5, <1>6, <1>7 DEF PublicationInv

\* The status of a new batch.
LEMMA NewBatch ==
    /\ StatusSound(T!NoBatch.status) /\ ~T!NoBatch.exists
    /\ \A t \in T!Tickets : T!NoBatch.status[t] = T!Pending
    BY DEF StatusSound, T!NoBatch

LEMMA PrepareInv == PublicationInv /\ T!Prepare => PublicationInv'
<1> SUFFICES ASSUME PublicationInv, T!Prepare PROVE PublicationInv'
    OBVIOUS
<1>1. /\ run.at = "idle" /\ \A t \in T!Tickets : sent[t] = 0
      /\ disk' = T!Batch(T!NoBatch.status)
      /\ UNCHANGED <<issues, inflight, sent, allowed, exported, run, edits>>
    BY DEF T!Prepare, T!remote
<1>2. disk'.status = T!NoBatch.status /\ StatusSound(disk'.status)
    BY <1>1, NewBatch DEF T!Batch
<1>3. allowed \in [T!Tickets -> Nat]
    BY DEF PublicationInv, WorldSound
<1> QED BY <1>1, <1>2, <1>3, SavesBatch

LEMMA ExportInv == PublicationInv /\ T!Export => PublicationInv'
<1> SUFFICES ASSUME PublicationInv, T!Export PROVE PublicationInv'
    OBVIOUS
<1>1. /\ run.at = "idle" /\ exported' = disk
      /\ UNCHANGED <<issues, inflight, sent, allowed, disk, run, edits>>
    BY DEF T!Export, T!remote
<1>2. WorldSound'
    BY <1>1 DEF PublicationInv, WorldSound, T!Issue
<1>3. \A t : T!Marked(t)' = T!Marked(t) /\ Lost(t)' = Lost(t) /\ Credit(t)' = Credit(t)
    BY <1>1 DEF T!Marked, Lost, Credit
<1>4. Counted' /\ BlockersFirst' /\ Credited' /\ Fresh'
    BY <1>1, <1>3 DEF PublicationInv, Counted, BlockersFirst, Credited, Fresh
<1>5. StatusSound(disk.status)' /\ StatusSound(exported.status)'
    BY <1>1, StatusKept DEF PublicationInv
<1>6. RunSound'
    BY <1>1 DEF PublicationInv, RunSound, AllCreated
<1> QED BY <1>1, <1>2, <1>4, <1>5, <1>6 DEF PublicationInv

LEMMA AuthorizeRetryInv ==
    ASSUME PublicationInv, NEW t \in T!Tickets, T!AuthorizeRetry(t) PROVE PublicationInv'
<1> DEFINE status == [disk.status EXCEPT ![t] = T!RetryAuthorized]
<1>1. /\ run.at = "idle" /\ disk.exists
      /\ allowed' = [allowed EXCEPT ![t] = allowed[t] + 1]
      /\ disk' = T!Batch(status)
      /\ UNCHANGED <<issues, inflight, sent, exported, run, edits>>
    BY DEF T!AuthorizeRetry, T!remote
<1>2. allowed \in [T!Tickets -> Nat] /\ StatusSound(disk.status)
    BY DEF PublicationInv, WorldSound
<1>3. status = [u \in T!Tickets |-> IF u = t THEN T!RetryAuthorized ELSE disk.status[u]]
    BY <1>2 DEF StatusSound
<1>4. StatusSound(status)
    BY <1>2, <1>3 DEF StatusSound
<1>5. status[t].is = "authorized" /\ \A u \in T!Tickets : u # t => status[u] = disk.status[u]
    BY <1>3 DEF T!RetryAuthorized
<1>6. disk'.status = status /\ disk'.exists
    BY <1>1 DEF T!Batch
<1> HIDE DEF status
<1>7. /\ allowed' \in [T!Tickets -> Nat] /\ \A u \in T!Tickets : allowed[u] <= allowed'[u]
      /\ allowed'[t] = allowed[t] + 1
    BY <1>1, <1>2
<1>8. \A u \in T!Tickets : disk'.status[u].is = "pending" => sent[u] = 0
    BY <1>1, <1>5, <1>6 DEF PublicationInv, Fresh
<1> QED BY <1>1, <1>4, <1>5, <1>6, <1>7, <1>8, SavesBatch

LEMMA AdoptInv ==
    ASSUME PublicationInv, NEW t \in T!Tickets, NEW number \in DOMAIN issues, T!Adopt(t, number) PROVE PublicationInv'
<1> DEFINE status == [disk.status EXCEPT ![t] = T!Created(number)]
<1>1. /\ run.at = "idle" /\ disk.exists /\ issues[number].of = t
      /\ disk' = T!Batch(status)
      /\ UNCHANGED <<issues, inflight, sent, allowed, exported, run, edits>>
    BY DEF T!Adopt, T!remote, T!Checks
<1>2. allowed \in [T!Tickets -> Nat] /\ StatusSound(disk.status)
    BY DEF PublicationInv, WorldSound
<1>3. /\ StatusSound(status) /\ status[t].is = "created"
      /\ \A u \in T!Tickets : u # t => status[u] = disk.status[u]
    BY <1>1, <1>2, MapsTicket
<1>4. disk'.status = status /\ disk'.exists
    BY <1>1 DEF T!Batch
<1> HIDE DEF status
<1>5. \A u \in T!Tickets : disk'.status[u].is = "pending" => sent[u] = 0
    BY <1>1, <1>3, <1>4 DEF PublicationInv, Fresh
<1> QED BY <1>1, <1>2, <1>3, <1>4, <1>5, SavesBatch

LEMMA LoseStateInv == PublicationInv /\ T!LoseState => PublicationInv'
<1> SUFFICES ASSUME PublicationInv, T!LoseState PROVE PublicationInv'
    OBVIOUS
<1>1. /\ disk' = T!NoBatch /\ run' = T!Idle
      /\ UNCHANGED <<issues, inflight, sent, allowed, exported, edits>>
    BY DEF T!LoseState, T!remote
<1>2. allowed \in [T!Tickets -> Nat] /\ DOMAIN run = DOMAIN run'
    BY <1>1, RestSound DEF PublicationInv, WorldSound, RunSound
<1>3. run'.at = "idle"
    BY <1>1 DEF T!Idle
<1> QED BY <1>1, <1>2, <1>3, NewBatch, SavesBatch

LEMMA ReconstructInv ==
    ASSUME PublicationInv, NEW from, StatusSound(from.status), T!Reconstruct(from) PROVE PublicationInv'
<1> DEFINE chosen(ticket) ==
            IF from.status[ticket].is = "created" THEN {from.status[ticket].issue}
            ELSE IF T!Cardinality(T!Marked(ticket)) = 1 THEN T!Marked(ticket) ELSE {}
           status == [ticket \in T!Tickets |->
                      IF chosen(ticket) = {} THEN T!unmatched
                      ELSE T!Created(CHOOSE n \in chosen(ticket) : TRUE)]
<1>1. /\ run.at = "idle"
      /\ \A t \in T!Tickets : \A n \in chosen(t) : issues[n].of = t
      /\ disk' = T!Batch(status)
      /\ UNCHANGED <<issues, inflight, sent, allowed, exported, run, edits>>
    BY DEF T!Reconstruct, T!remote, T!Checks
<1>2. \A t \in T!Tickets : chosen(t) \subseteq DOMAIN issues
    BY MappedIssue DEF T!Mapped, T!Marked
<1> HIDE DEF chosen
<1>3. \A t \in T!Tickets :
          \/ status[t] = T!Creating
          \/ \E n \in DOMAIN issues : issues[n].of = t /\ status[t] = T!Created(n)
    BY <1>1, <1>2 DEF T!unmatched
<1>4. status = [t \in T!Tickets |-> status[t]]
    OBVIOUS
<1>5. disk'.status = status
    BY <1>1 DEF T!Batch
<1> HIDE DEF status
<1>6. StatusSound(status)
    BY <1>3, <1>4 DEF StatusSound
<1>7. \A t \in T!Tickets : status[t].is \notin {"pending", "authorized"}
    <2>1. T!Creating.is = "creating" /\ \A n : T!Created(n).is = "created"
        BY DEF T!Creating, T!Created
    <2> QED BY <1>3, <2>1
<1>8. allowed \in [T!Tickets -> Nat]
    BY DEF PublicationInv, WorldSound
<1> QED BY <1>1, <1>5, <1>6, <1>7, <1>8, SavesBatch

\* Others edit an issue: what a command has checked may be wrong now.
LEMMA MeddleInv ==
    ASSUME PublicationInv, NEW number \in DOMAIN issues, T!Meddle(number) PROVE PublicationInv'
<1> DEFINE issue == issues[number]
<1>1. PICK changed \in {[issue EXCEPT !.intact = FALSE],
                       [issue EXCEPT !.parent = "none"],
                       [issue EXCEPT !.parent = "other"],
                       [issue EXCEPT !.blockers = {}],
                       [issue EXCEPT !.labels = {"wontfix"}]} :
          issues' = [issues EXCEPT ![number] = changed]
    BY DEF T!Meddle
<1>2. /\ edits' = edits + 1 /\ run' = [run EXCEPT !.calm = FALSE]
      /\ UNCHANGED <<inflight, sent, allowed, disk, exported>>
    BY DEF T!Meddle
<1>3. changed.of = issues[number].of /\ DOMAIN changed = DOMAIN T!Issue(0)
    BY <1>1 DEF PublicationInv, WorldSound, T!Issue
<1>4. /\ IsList(issues') /\ DOMAIN issues' = DOMAIN issues
      /\ \A m \in DOMAIN issues :
            issues'[m].of = issues[m].of /\ DOMAIN issues'[m] = DOMAIN T!Issue(0)
    BY <1>1, <1>3, Edited DEF PublicationInv
<1>5. /\ DOMAIN run' = DOMAIN run /\ run'.status = run.status /\ run'.at = run.at
      /\ run'.observed = run.observed /\ run'.ticket = run.ticket /\ run'.found = run.found
      /\ ~run'.calm
    BY <1>2 DEF PublicationInv, RunSound
<1>6. edits' \in Nat /\ edits' # 0
    BY <1>2 DEF PublicationInv
<1>7. \A t : Credit(t)' = Credit(t)
    BY <1>2, <1>5 DEF Credit
<1>8. Fresh'
    BY <1>2 DEF PublicationInv, Fresh
<1>9. StatusSound(disk.status)'
    BY <1>2, <1>4, StatusKept DEF PublicationInv
<1>10. RunSound'
    <2>1. T!Mapped(run.status)' = T!Mapped(run.status)
        BY <1>5 DEF T!Mapped
    <2> QED BY <1>2, <1>4, <1>5, <1>6, <2>1 DEF PublicationInv, RunSound
<1>11. \A t \in T!Tickets : Credit(t)' <= Credit(t)
    BY <1>7, CreditBounds
<1> QED BY <1>2, <1>4, <1>6, <1>8, <1>9, <1>10, <1>11, Keep

LEMMA InitPublication == T!Init => PublicationInv
<1> SUFFICES ASSUME T!Init PROVE PublicationInv
    OBVIOUS
<1>1. /\ issues = [n \in 1 .. Existing |-> T!Issue(0)] /\ inflight = << >>
      /\ sent = [t \in T!Tickets |-> 0] /\ allowed = [t \in T!Tickets |-> 0]
      /\ disk = T!NoBatch /\ exported = T!NoBatch /\ run = T!Idle /\ edits = 0
    BY DEF T!Init
<1>2. WorldSound
    <2>1. IsList(issues)
        <3>1. issues = [n \in 1 .. Existing |-> issues[n]]
            BY <1>1
        <3> QED BY <3>1, ExistingAssumption, ListOf
    <2>2. IsList(inflight)
        <3>1. inflight = [i \in 1 .. 0 |-> inflight[i]]
            BY <1>1
        <3> QED BY <3>1, ListOf
    <2> QED BY <1>1, <2>1, <2>2 DEF WorldSound
<1>3. \A t \in T!Tickets : T!Marked(t) = {} /\ Lost(t) = {}
    <2>1. \A t \in T!Tickets : t # 0
        BY PlanFacts
    <2>2. \A n \in DOMAIN issues : issues[n].of = 0
        BY <1>1 DEF T!Issue
    <2>3. DOMAIN inflight = {}
        BY <1>1
    <2> QED BY <2>1, <2>2, <2>3 DEF T!Marked, Lost, Positions
<1>4. Counted
    <2>1. \A t \in T!Tickets : Cardinality(T!Marked(t)) = 0 /\ Cardinality(Lost(t)) = 0 /\ sent[t] = 0
        BY <1>1, <1>3, FS_EmptySet
    <2> QED BY <2>1 DEF Counted
<1>5. Credited /\ Fresh /\ BlockersFirst
    BY <1>1, NewBatch DEF Credited, Credit, Fresh, BlockersFirst, T!Idle
<1>6. RunSound
    BY <1>1 DEF RunSound, AllCreated, T!Idle
<1> QED BY <1>1, <1>2, <1>4, <1>5, <1>6, NewBatch DEF PublicationInv

LEMMA NextPublication == PublicationInv /\ [T!Next]_T!vars => PublicationInv'
<1> SUFFICES ASSUME PublicationInv, [T!Next]_T!vars PROVE PublicationInv'
    OBVIOUS
<1>1. CASE UNCHANGED T!vars
    <2>1. UNCHANGED <<issues, inflight, sent, allowed, disk, exported, run, edits>>
        BY <1>1 DEF T!vars
    <2>2. RunSound'
        <3>1. (Whole' <=> Whole) /\ T!Mapped(run.status)' = T!Mapped(run.status)
            BY <2>1, WholeStays DEF T!Mapped
        <3> QED BY <2>1, <3>1 DEF PublicationInv, RunSound, AllCreated
    <2>3. \A t \in T!Tickets : Credit(t)' <= Credit(t)
        <3>1. \A t : Credit(t)' = Credit(t)
            BY <2>1 DEF Credit
        <3> QED BY <3>1, CreditBounds
    <2>4. Fresh' /\ StatusSound(disk.status)'
        BY <2>1, StatusKept DEF PublicationInv, Fresh
    <2>5. IsList(issues') /\ \A n \in DOMAIN issues :
            issues'[n].of = issues[n].of /\ DOMAIN issues'[n] = DOMAIN T!Issue(0)
        BY <2>1 DEF PublicationInv, WorldSound, T!Issue
    <2> QED BY <2>1, <2>2, <2>3, <2>4, <2>5, Keep DEF PublicationInv
<1>2. ASSUME NEW t \in T!Tickets, T!AuthorizeRetry(t) PROVE PublicationInv'
    BY <1>2, AuthorizeRetryInv
<1>3. ASSUME NEW t \in T!Tickets, NEW number \in DOMAIN issues, T!Adopt(t, number) PROVE PublicationInv'
    BY <1>3, AdoptInv
<1>4. CASE T!Reconstruct(T!NoBatch) \/ (exported.exists /\ T!Reconstruct(exported))
    BY <1>4, ReconstructInv, NewBatch DEF PublicationInv
<1>5. ASSUME NEW number \in DOMAIN issues, T!Meddle(number) PROVE PublicationInv'
    BY <1>5, MeddleInv
<1> QED
    BY <1>1, <1>2, <1>3, <1>4, <1>5, PrepareInv, PublishInv, ExportInv, ObserveInv, ChooseInv,
       FindInv, CreateInv, RecordInv, ReadGraphInv, AddLinkInv, RereadGraphInv, ReadLabelsInv,
       AddLabelsInv, CheckGraphInv, CheckLabelsInv, FailsInv, DiesInv, ArrivesInv, LoseStateInv
       DEF T!Next

\* The inductive invariant of the publication.
THEOREM PublicationInvariant == T!Spec => []PublicationInv
    BY InitPublication, NextPublication, PTL DEF T!Spec

\* A ticket has at most one issue more than its operator authorized, and none before
\* its blockers have theirs.
THEOREM NeverDuplicated == T!Spec => []NoUnauthorizedDuplicates
<1>1. PublicationInv => NoUnauthorizedDuplicates
    <2> SUFFICES ASSUME PublicationInv, NEW t \in T!Tickets
                 PROVE  /\ Cardinality(T!Marked(t)) <= 1 + allowed[t]
                        /\ T!Marked(t) # {} =>
                              \A other \in Plan[t].tickets : T!Marked(other) # {}
        BY PublicationCounts DEF NoUnauthorizedDuplicates, T!NoUnauthorizedDuplicates
    <2>1. /\ Cardinality(T!Marked(t)) \in Nat /\ Cardinality(Lost(t)) \in Nat
          /\ IsFiniteSet(T!Marked(t))
        BY CountsFinite DEF PublicationInv
    <2>2. /\ Cardinality(T!Marked(t)) + Cardinality(Lost(t)) <= sent[t]
          /\ sent[t] + Credit(t) <= 1 + allowed[t]
          /\ sent[t] \in Nat /\ allowed[t] \in Nat /\ Credit(t) \in {0, 1, 2}
        BY CreditBounds DEF PublicationInv, Counted, Credited, WorldSound
    <2>3. T!Marked(t) # {} => sent[t] > 0
        BY <2>1, <2>2, FS_EmptySet
    <2>4. T!Marked(t) # {} => \A other \in Plan[t].tickets : T!Marked(other) # {}
        BY <2>3 DEF PublicationInv, BlockersFirst
    <2>5. Cardinality(T!Marked(t)) <= 1 + allowed[t]
        BY <2>1, <2>2
    <2> QED BY <2>4, <2>5
<1> QED BY <1>1, PublicationInvariant, PTL

-----------------------------------------------------------------------------
\* A command that has nothing in doubt has asked for the mapped tickets only.
LEMMA NothingInDoubt ==
    ASSUME PublicationInv, run.at # "idle", ~T!Uncertain(run.status)
    PROVE  \A t \in T!Tickets : sent[t] > 0 => run.status[t].is = "created"
<1>1. disk.exists /\ disk.status = run.status /\ StatusSound(run.status) /\ Fresh
    BY DEF PublicationInv, RunSound
<1>2. \A t \in T!Tickets : run.status[t].is \notin {"creating", "authorized"}
    BY DEF T!Uncertain
<1>3. \A t \in T!Tickets : run.status[t].is \in {"pending", "created"}
    <2>1. /\ \A n : T!Created(n).is = "created"
          /\ T!Pending.is = "pending" /\ T!Creating.is = "creating" /\ T!RetryAuthorized.is = "authorized"
        BY DEF T!Pending, T!Creating, T!RetryAuthorized, T!Created
    <2> QED BY <1>1, <1>2, <2>1 DEF StatusSound
<1>4. WorldSound
    BY DEF PublicationInv
<1>5. \A t \in T!Tickets : run.status[t].is = "pending" => sent[t] = 0
    BY <1>1 DEF Fresh
<1> QED BY <1>3, <1>5

\* A command calls itself partial when it ends with nothing in doubt, and complete only
\* after the last read of the labels.
LEMMA Reports ==
    ASSUME PublicationInv, T!Next, report = "none", report' \in {"partial", "complete"}
    PROVE  /\ run.at # "idle" /\ UNCHANGED disk
           /\ \/ report' = "partial" /\ ~T!Uncertain(run.status)
              \/ /\ report' = "complete" /\ run.at = "final labels"
                 /\ \A t \in T!Tickets : T!Unlabelled(run.status, t) = {}
<1>1. \A status : T!Stopped(status) \in {"partial", "uncertain"}
                    /\ (T!Stopped(status) = "partial" => ~T!Uncertain(status))
    BY DEF T!Stopped
<1> DEFINE Said == report' = "partial" /\ ~T!Uncertain(run.status) /\ run.at # "idle" /\ UNCHANGED disk
<1>2. ASSUME NEW t \in T!Tickets, T!Intends(t), StatusSound(run.status) PROVE FALSE
    <2> DEFINE status == [run.status EXCEPT ![t] = T!Creating]
    <2>1. status[t] = T!Creating
        <3>1. t \in DOMAIN run.status
            BY <1>2 DEF StatusSound
        <3> QED BY <3>1
    <2>2. T!Uncertain(status)
        BY <2>1 DEF T!Uncertain, T!Creating
    <2>3. report' = report \/ report' = T!Stopped(status)
        BY <1>2 DEF T!Intends, T!Saves, T!End
    <2> HIDE DEF status
    <2> QED BY <1>1, <2>2, <2>3
<1>3. run.at # "idle" => StatusSound(run.status)
    BY DEF PublicationInv, RunSound
<1>4. CASE T!Fails
    BY <1>1, <1>4 DEF T!Fails, T!End
<1>5. CASE T!Observe
    BY <1>1, <1>5 DEF T!Observe, T!End
<1>6. ~T!Choose
    <2> SUFFICES ASSUME T!Choose PROVE FALSE
        OBVIOUS
    <2> DEFINE t == T!Min(T!Ready(run.status))
    <2>1. t \in T!Tickets /\ run.at = "choose"
        BY FirstTicket DEF T!Choose, T!Ready
    <2>2. T!Intends(t) \/ report' = report
        BY DEF T!Choose
    <2> HIDE DEF t
    <2> QED BY <1>2, <1>3, <2>1, <2>2
<1>7. CASE T!Find
    <2>1. run.ticket \in T!Tickets /\ run.at = "find" /\ StatusSound(run.status)
        BY <1>3, <1>7 DEF T!Find, PublicationInv, RunSound
    <2>2. ~T!Intends(run.ticket)
        BY <1>2, <2>1
    <2>3. report' = T!Stopped(run.status) /\ UNCHANGED disk
        BY <1>7, <2>2 DEF T!Find, T!End
    <2> QED BY <1>1, <2>1, <2>3
<1>8. ~T!Create
    <2> SUFFICES ASSUME T!Create PROVE FALSE
        OBVIOUS
    <2>1. T!Uncertain(run.status)
        BY DEF T!Create, PublicationInv, RunSound, T!Uncertain
    <2>2. report' = T!Stopped(run.status) \/ report' = report
        BY DEF T!Create, T!End
    <2> QED BY <1>1, <2>1, <2>2
<1>9. ~T!Record
    BY DEF T!Record, T!End
<1>10. ~T!ReadGraph /\ ~T!ReadLabels
    BY DEF T!ReadGraph, T!ReadLabels, T!End
<1>11. CASE T!AddLink
    BY <1>1, <1>11 DEF T!AddLink, T!End
<1>12. CASE T!RereadGraph
    BY <1>1, <1>12 DEF T!RereadGraph, T!End
<1>13. CASE T!AddLabels
    BY <1>1, <1>13 DEF T!AddLabels, T!End
<1>14. CASE T!CheckGraph
    BY <1>1, <1>14 DEF T!CheckGraph, T!End
<1>15. CASE T!CheckLabels
    BY <1>1, <1>15 DEF T!CheckLabels, T!End
<1>16. ~T!Prepare /\ ~T!Publish /\ ~T!Export /\ ~T!Dies /\ ~T!Arrives /\ ~T!LoseState
    BY DEF T!Prepare, T!Publish, T!Export, T!Dies, T!Arrives, T!LoseState
<1>17. \A t, n : ~T!AuthorizeRetry(t) /\ ~T!Adopt(t, n) /\ ~T!Meddle(n)
    BY DEF T!AuthorizeRetry, T!Adopt, T!Meddle
<1>18. \A from : ~T!Reconstruct(from)
    BY DEF T!Reconstruct
<1> QED BY <1>4, <1>5, <1>6, <1>7, <1>8, <1>9, <1>10, <1>11, <1>12, <1>13, <1>14, <1>15,
           <1>16, <1>17, <1>18 DEF T!Next

\* Labels are added to a whole graph.
LEMMA LabelsLast ==
    ASSUME PublicationInv, T!Next, edits' = 0, NEW n \in DOMAIN issues, issues'[n].labels # issues[n].labels
    PROVE  Whole
<1>1. WorldSound
    BY DEF PublicationInv
<1>2. ~(issues' = issues)
    OBVIOUS
<1>3. \A t : ~(issues' = Append(issues, T!Issue(t)))
    BY <1>1, Grown
<1>4. ~T!Create /\ ~T!Arrives
    BY <1>2, <1>3 DEF T!Create, T!Arrives
<1>5. ~T!AddLink
    <2> SUFFICES ASSUME T!AddLink PROVE FALSE
        OBVIOUS
    <2> DEFINE link == Head(run.todo)
               number == run.status[link[1]].issue
    <2>1. issues' = [issues EXCEPT ![number] = T!Linked(issues[number], link)]
        BY <1>2 DEF T!AddLink
    <2>2. number \in DOMAIN issues => T!Linked(issues[number], link).labels = issues[number].labels
        BY <1>1 DEF WorldSound, T!Linked, T!Issue
    <2> HIDE DEF number, link
    <2> QED BY <2>1, <2>2
<1>6. \A number : ~T!Meddle(number)
    BY DEF T!Meddle, PublicationInv
<1>7. CASE T!AddLabels
    BY <1>7 DEF T!AddLabels, PublicationInv, RunSound
<1>8. \A t, number, from : ~T!AuthorizeRetry(t) /\ ~T!Adopt(t, number) /\ ~T!Reconstruct(from)
    BY <1>2 DEF T!AuthorizeRetry, T!Adopt, T!Reconstruct, T!remote
<1>9. /\ ~T!Prepare /\ ~T!Publish /\ ~T!Export /\ ~T!Observe /\ ~T!Choose /\ ~T!Find /\ ~T!Record /\ ~T!ReadGraph
      /\ ~T!RereadGraph /\ ~T!ReadLabels /\ ~T!CheckGraph /\ ~T!CheckLabels /\ ~T!Fails /\ ~T!Dies /\ ~T!LoseState
    BY <1>2 DEF T!Prepare, T!Publish, T!Export, T!Observe, T!Choose, T!Find, T!Record, T!ReadGraph, T!RereadGraph,
                T!ReadLabels, T!CheckGraph, T!CheckLabels, T!Fails, T!Dies, T!LoseState, T!remote
<1> QED BY <1>4, <1>5, <1>6, <1>7, <1>8, <1>9 DEF T!Next

\* What a publication reports agrees with what it left behind and has read back.
THEOREM OutcomeAlwaysHonest == T!Spec => OutcomeIsHonest
<1>1. PublicationInv /\ T!Next => T!OutcomeIsHonest
    <2> SUFFICES ASSUME PublicationInv, T!Next PROVE T!OutcomeIsHonest
        OBVIOUS
    <2>1. ASSUME report = "none", report' \in {"partial", "complete"}, NEW t \in T!Tickets, sent[t] > 0
          PROVE  disk'.status[t].is = "created"
        <3>1. run.at # "idle" /\ disk' = disk /\ disk.status = run.status
            BY <2>1, Reports DEF PublicationInv, RunSound
        <3>2. CASE ~T!Uncertain(run.status)
            BY <2>1, <3>1, <3>2, NothingInDoubt
        <3>3. CASE run.at = "final labels"
            BY <3>1, <3>3 DEF PublicationInv, RunSound, AllCreated, T!Mapped
        <3> QED BY <2>1, <3>2, <3>3, Reports
    <2>2. ASSUME report = "none", report' = "complete", run.calm
          PROVE  /\ T!Mapped(run.status) = T!Tickets /\ T!Missing(run.status) = << >>
                 /\ \A t \in T!Tickets : T!Unlabelled(run.status, t) = {}
        <3>1. run.at = "final labels" /\ \A t \in T!Tickets : T!Unlabelled(run.status, t) = {}
            BY <2>2, Reports
        <3> QED BY <2>2, <3>1 DEF PublicationInv, RunSound, AllCreated, Whole
    <2>3. ASSUME edits' = 0, NEW n \in DOMAIN issues, issues'[n].labels # issues[n].labels
          PROVE  T!Missing(run.status) = << >>
        BY <2>3, LabelsLast DEF Whole
    <2> QED BY <2>1, <2>2, <2>3 DEF T!OutcomeIsHonest
<1>2. PublicationInv /\ [T!Next]_T!vars => [T!OutcomeIsHonest]_publicationVars
    BY <1>1 DEF T!vars, publicationVars
<1> QED BY <1>2, PublicationInvariant, PTL DEF T!Spec, OutcomeIsHonest

-----------------------------------------------------------------------------
(* The hosted review: what was asked for, saved and told.                 *)

\* The places of a command that has read state.json and not yet saved its condition.
Reviewing == {"pull", "comments", "ci", "act", "recheck", "recheck comments", "send", "sent"}

\* The fields of the running command.
RunFields == {"at", "action", "head", "now", "saved", "seen", "review", "ci", "initial",
              "result", "notify"}

HistoryTypes ==
    /\ clock \in Nat /\ pull.head \in Heads /\ DOMAIN pull = {"open", "head"}
    /\ comments \in Seq([request : Nat, by : {"caller", "other"}, head : Heads, at : Nat])
    /\ sending \subseteq [request : Nat, head : Heads]
    /\ state \in Seq([head : Heads, at : Nat, comment : Nat])

\* A request with a known comment counts from the comment, which is its own or, when it is
\* tracked, a person's.
EntriesSound ==
    \A i \in DOMAIN state :
        /\ state[i].at <= clock
        /\ state[i].comment # 0 =>
              /\ state[i].comment \in DOMAIN comments
              /\ comments[state[i].comment].head = state[i].head
              /\ comments[state[i].comment].at = state[i].at
              /\ comments[state[i].comment].request \in {0, i}

\* A request follows confirmed ones for its head, a timeout later, and is not tracked.
EntriesSpaced ==
    \A i, j \in DOMAIN state : i < j /\ state[i].head = state[j].head =>
        /\ state[i].comment # 0 /\ state[j].at - state[i].at > Timeout
        /\ state[j].comment # 0 => comments[state[j].comment].request = j

\* A posted request is saved, was posted once, and after the ones it follows.
PostedSound ==
    /\ \A c \in DOMAIN comments : comments[c].at <= clock
    /\ \A c \in DOMAIN comments : comments[c].request # 0 =>
          /\ comments[c].request \in DOMAIN state
          /\ LET asked == state[comments[c].request] IN
             /\ asked.head = comments[c].head /\ asked.at <= comments[c].at
             /\ asked.comment \in {0, c}
          /\ \A i \in DOMAIN state :
                i < comments[c].request /\ state[i].head = comments[c].head => state[i].comment < c
    /\ \A c, d \in DOMAIN comments :
          comments[c].request # 0 /\ comments[c].request = comments[d].request => c = d

\* A request is unconfirmed and posted nowhere.
Unposted(i) ==
    /\ state[i].comment = 0
    /\ \A c \in DOMAIN comments : comments[c].request # i

\* A request whose answer was lost is posted nowhere yet.
LostSound ==
    \A r \in sending :
        r.request \in DOMAIN state /\ state[r.request].head = r.head /\ Unposted(r.request)

\* What the running command has saved, read and posted.
ReviewerSound ==
    /\ DOMAIN reviewer = RunFields
    /\ reviewer.at \in Reviewing =>
          /\ reviewer.saved = state /\ reviewer.head \in Heads
          /\ reviewer.now \in Nat /\ reviewer.now <= clock
    /\ reviewer.at \in {"ci", "act"} => reviewer.seen \in Nat /\ reviewer.seen <= Len(comments)
    /\ reviewer.at \in {"recheck", "recheck comments", "send"} =>
          /\ state # << >> /\ state[Len(state)].head = reviewer.head /\ Unposted(Len(state))
          /\ \A r \in sending : r.request # Len(state)
    /\ reviewer.at = "sent" =>
          /\ state # << >> /\ state[Len(state)].comment = 0
          /\ reviewer.seen \in DOMAIN comments /\ comments[reviewer.seen].request = Len(state)

\* The condition before the one being told.
SavedBefore == IF Len(missed) = 1 THEN told ELSE missed[Len(missed) - 1]

\* wake.json has the last condition saved, and a command that tells one has compared it
\* with the one saved before.
WakeInv ==
    /\ IsList(missed) /\ DOMAIN reviewer = RunFields
    /\ wake.condition = IF missed = << >> THEN told ELSE missed[Len(missed)]
    /\ reviewer.at = "tell" =>
          /\ missed # << >> /\ reviewer.result = missed[Len(missed)]
          /\ reviewer.notify = H!Notifies(SavedBefore, reviewer.result)
-----------------------------------------------------------------------------
\* A request saved in state.json, and a comment that asks for a review.
ARequest == [head : Heads, at : Nat, comment : Nat]
AComment == [request : Nat, by : {"caller", "other"}, head : Heads, at : Nat]

\* What the lists of the types are.
LEMMA ReviewLists ==
    ASSUME HistoryTypes
    PROVE  /\ Len(comments) \in Nat /\ DOMAIN comments = 1 .. Len(comments)
           /\ \A c \in DOMAIN comments : comments[c] \in AComment
           /\ Len(state) \in Nat /\ DOMAIN state = 1 .. Len(state)
           /\ \A i \in DOMAIN state : state[i] \in ARequest
           /\ state # << >> => Len(state) \in DOMAIN state
<1>1. comments \in Seq(AComment) /\ state \in Seq(ARequest)
    BY DEF HistoryTypes, ARequest, AComment
<1>2. /\ Len(comments) \in Nat /\ DOMAIN comments = 1 .. Len(comments)
      /\ \A c \in DOMAIN comments : comments[c] \in AComment
    BY <1>1
<1>3. /\ Len(state) \in Nat /\ DOMAIN state = 1 .. Len(state)
      /\ \A i \in DOMAIN state : state[i] \in ARequest
      /\ state # << >> => Len(state) \in DOMAIN state
    BY <1>1
<1> QED BY <1>2, <1>3

\* What was saved, posted and lost, whatever the running command does.
HistorySound == HistoryTypes /\ EntriesSound /\ EntriesSpaced /\ PostedSound /\ LostSound

\* A step that neither asks nor saves.
LEMMA HistoryKept ==
    ASSUME HistorySound, UNCHANGED <<comments, sending, state>>,
           clock' \in Nat, clock <= clock', pull'.head \in Heads, DOMAIN pull' = {"open", "head"}
    PROVE  HistorySound'
<1>1. HistoryTypes'
    BY DEF HistorySound, HistoryTypes
<1>2. /\ \A i \in DOMAIN state : state[i].at <= clock'
      /\ \A c \in DOMAIN comments : comments[c].at <= clock'
    <2>1. /\ \A i \in DOMAIN state : state[i].at \in Nat
          /\ \A c \in DOMAIN comments : comments[c].at \in Nat
        BY ReviewLists DEF HistorySound, ARequest, AComment
    <2>2. clock \in Nat
        BY DEF HistorySound, HistoryTypes
    <2> QED BY <2>1, <2>2 DEF HistorySound, EntriesSound, PostedSound
<1>3. EntriesSound' /\ PostedSound'
    BY <1>2 DEF HistorySound, EntriesSound, PostedSound
<1>4. EntriesSpaced'
    BY DEF HistorySound, EntriesSpaced
<1>5. LostSound'
    BY DEF HistorySound, LostSound, Unposted
<1> QED BY <1>1, <1>3, <1>4, <1>5 DEF HistorySound

\* A posted request is confirmed by its comment.
LEMMA Confirms ==
    ASSUME HistorySound, UNCHANGED <<clock, pull, comments, sending>>,
           NEW i \in DOMAIN state, state[i].comment = 0,
           NEW c \in DOMAIN comments, comments[c].request = i,
           state' = [state EXCEPT ![i] = H!confirmed(state[i], c)]
    PROVE  HistorySound'
<1>1. /\ i \in Nat \ {0} /\ c \in Nat \ {0}
      /\ state[i] \in ARequest /\ comments[c] \in AComment /\ DOMAIN state = 1 .. Len(state)
      /\ Len(state) \in Nat
    BY ReviewLists DEF HistorySound
<1>2. state[i].head = comments[c].head /\ state[i].at <= comments[c].at
    BY <1>1 DEF HistorySound, PostedSound
<1> DEFINE entry == [head |-> state[i].head, at |-> comments[c].at, comment |-> c]
<1>3. H!confirmed(state[i], c) = entry
    <2>1. state[i] = [head |-> state[i].head, at |-> state[i].at, comment |-> state[i].comment]
        BY <1>1 DEF ARequest
    <2>2. state[i].at \in Nat /\ comments[c].at \in Nat
        BY <1>1 DEF ARequest, AComment
    <2> DEFINE later == IF comments[c].at > state[i].at THEN comments[c].at ELSE state[i].at
    <2>3. later = comments[c].at
        BY <1>2, <2>2
    <2>4. H!confirmed(state[i], c) = [state[i] EXCEPT !.comment = c, !.at = later]
        BY <2>1 DEF H!confirmed
    <2> HIDE DEF later
    <2> QED BY <2>1, <2>3, <2>4
<1>4. /\ entry \in ARequest /\ entry.head = state[i].head /\ entry.at = comments[c].at
      /\ entry.comment = c
    BY <1>1 DEF ARequest, AComment
<1> HIDE DEF entry
<1>5. /\ DOMAIN state' = DOMAIN state /\ state'[i] = entry
      /\ \A k \in DOMAIN state : k # i => state'[k] = state[k]
    BY <1>3
<1>6. HistoryTypes'
    BY SMTT(30), <1>3, <1>4 DEF HistorySound, HistoryTypes, ARequest
<1>7. \A d \in DOMAIN comments : comments[d].request = i => d = c
    BY <1>1 DEF HistorySound, PostedSound
<1>8. EntriesSound'
    <2>1. \A k \in DOMAIN state :
        /\ state'[k].at <= clock
        /\ state'[k].comment # 0 =>
              /\ state'[k].comment \in DOMAIN comments
              /\ comments[state'[k].comment].head = state'[k].head
              /\ comments[state'[k].comment].at = state'[k].at
              /\ comments[state'[k].comment].request \in {0, k}
        BY <1>2, <1>4, <1>5 DEF HistorySound, EntriesSound, PostedSound
    <2> QED BY <1>5, <2>1 DEF EntriesSound
<1>9. \A k \in DOMAIN state : i < k => state[k].head # state[i].head
    BY DEF HistorySound, EntriesSpaced
<1>10. EntriesSpaced'
    <2> SUFFICES ASSUME NEW j \in DOMAIN state, NEW k \in DOMAIN state, j < k,
                        state'[j].head = state'[k].head
                 PROVE  /\ state'[j].comment # 0 /\ state'[k].at - state'[j].at > Timeout
                        /\ state'[k].comment # 0 => comments[state'[k].comment].request = k
        BY <1>5 DEF EntriesSpaced
    <2>1. state[j].head = state[k].head /\ j # i /\ state'[j] = state[j]
        BY <1>4, <1>5, <1>9
    <2>2. /\ state[j].comment # 0 /\ state[k].at - state[j].at > Timeout
          /\ state[k].comment # 0 => comments[state[k].comment].request = k
        BY <2>1 DEF HistorySound, EntriesSpaced
    <2>3. CASE k # i
        BY <1>5, <2>1, <2>2, <2>3
    <2>4. CASE k = i
        <3>1. state[j].at \in Nat /\ state[i].at \in Nat /\ comments[c].at \in Nat
            BY <1>1, ReviewLists DEF HistorySound, ARequest, AComment
        <3> QED BY <1>2, <1>4, <1>5, <2>1, <2>2, <2>4, <3>1, TimeoutAssumption
    <2> QED BY <2>3, <2>4
<1>11. PostedSound'
    <2>1. \A d \in DOMAIN comments : comments[d].request # 0 =>
          /\ comments[d].request \in DOMAIN state
          /\ state'[comments[d].request].head = comments[d].head
          /\ state'[comments[d].request].at <= comments[d].at
          /\ state'[comments[d].request].comment \in {0, d}
        <3> SUFFICES ASSUME NEW d \in DOMAIN comments, comments[d].request # 0
                     PROVE  /\ comments[d].request \in DOMAIN state
                            /\ state'[comments[d].request].head = comments[d].head
                            /\ state'[comments[d].request].at <= comments[d].at
                            /\ state'[comments[d].request].comment \in {0, d}
            OBVIOUS
        <3>1. comments[d] \in AComment
            BY ReviewLists DEF HistorySound
        <3>2. CASE comments[d].request = i
            BY <1>2, <1>4, <1>5, <1>7, <3>1, <3>2 DEF AComment
        <3>3. CASE comments[d].request # i
            BY <1>5, <3>3 DEF HistorySound, PostedSound
        <3> QED BY <3>2, <3>3
    <2>2. \A d \in DOMAIN comments : comments[d].request # 0 => \A k \in DOMAIN state :
              k < comments[d].request /\ state'[k].head = comments[d].head => state'[k].comment < d
        <3> SUFFICES ASSUME NEW d \in DOMAIN comments, comments[d].request # 0,
                            NEW k \in DOMAIN state, k < comments[d].request,
                            state'[k].head = comments[d].head
                     PROVE  state'[k].comment < d
            OBVIOUS
        <3>1. state[k].head = comments[d].head
            BY <1>4, <1>5
        <3>2. /\ comments[d].request \in DOMAIN state
              /\ state[comments[d].request].head = comments[d].head
              /\ state[k].comment < d
            BY <3>1 DEF HistorySound, PostedSound
        <3>3. k # i
            BY <1>9, <3>1, <3>2
        <3> QED BY <1>5, <3>2, <3>3
    <2> QED BY <1>5, <2>1, <2>2 DEF HistorySound, PostedSound
<1>12. LostSound'
    <2>1. \A r \in sending : r.request \in DOMAIN state /\ r.request # i
        BY DEF HistorySound, LostSound, Unposted
    <2> QED BY <1>5, <2>1 DEF HistorySound, LostSound, Unposted
<1> QED BY <1>6, <1>8, <1>10, <1>11, <1>12 DEF HistorySound

\* A request is saved, to be sent or as the one a person made.
LEMMA Extends ==
    ASSUME HistorySound, UNCHANGED <<clock, pull, comments, sending>>,
           NEW entry \in ARequest, entry.at <= clock,
           entry.comment # 0 =>
              /\ entry.comment \in DOMAIN comments
              /\ comments[entry.comment].head = entry.head
              /\ comments[entry.comment].at = entry.at
              /\ comments[entry.comment].request = 0,
           \A i \in DOMAIN state : state[i].head = entry.head =>
              state[i].comment # 0 /\ entry.at - state[i].at > Timeout /\ entry.comment = 0,
           state' = Append(state, entry)
    PROVE  HistorySound'
<1>1. /\ Len(state) \in Nat /\ DOMAIN state = 1 .. Len(state)
      /\ state \in Seq(ARequest) /\ comments \in Seq(AComment)
    BY DEF HistorySound, HistoryTypes, ARequest, AComment
<1>2. /\ DOMAIN state' = 1 .. Len(state) + 1 /\ state'[Len(state) + 1] = entry
      /\ \A i \in DOMAIN state : state'[i] = state[i]
      /\ state' \in Seq(ARequest)
    BY <1>1
<1>3. \A i : i \in DOMAIN state' <=> i \in DOMAIN state \/ i = Len(state) + 1
    BY <1>1, <1>2
<1>4. HistoryTypes'
    BY <1>2 DEF HistorySound, HistoryTypes, ARequest
<1>5. EntriesSound'
    <2>1. \A i \in DOMAIN state' :
        /\ state'[i].at <= clock
        /\ state'[i].comment # 0 =>
              /\ state'[i].comment \in DOMAIN comments
              /\ comments[state'[i].comment].head = state'[i].head
              /\ comments[state'[i].comment].at = state'[i].at
              /\ comments[state'[i].comment].request \in {0, i}
        BY <1>2, <1>3 DEF HistorySound, EntriesSound
    <2> QED BY <2>1 DEF EntriesSound
<1>6. EntriesSpaced'
    <2> SUFFICES ASSUME NEW j \in DOMAIN state', NEW k \in DOMAIN state', j < k,
                        state'[j].head = state'[k].head
                 PROVE  /\ state'[j].comment # 0 /\ state'[k].at - state'[j].at > Timeout
                        /\ state'[k].comment # 0 => comments[state'[k].comment].request = k
        BY DEF EntriesSpaced
    <2>1. j \in DOMAIN state
        BY <1>1, <1>2
    <2>2. CASE k \in DOMAIN state
        BY <1>2, <2>1, <2>2 DEF HistorySound, EntriesSpaced
    <2>3. CASE k = Len(state) + 1
        BY <1>2, <2>1, <2>3
    <2> QED BY <1>3, <2>2, <2>3
<1>7. PostedSound'
    <2>1. \A c \in DOMAIN comments : comments[c].request # 0 =>
              comments[c].request \in DOMAIN state
        BY DEF HistorySound, PostedSound
    <2>2. \A c \in DOMAIN comments : comments[c].request # 0 =>
              \A i \in DOMAIN state' : i < comments[c].request => i \in DOMAIN state
        BY <1>1, <1>2, <2>1
    <2> QED BY <1>2, <1>3, <2>1, <2>2 DEF HistorySound, PostedSound
<1>8. LostSound'
    BY <1>2, <1>3 DEF HistorySound, LostSound, Unposted
<1> QED BY <1>4, <1>5, <1>6, <1>7, <1>8 DEF HistorySound

\* A comment is posted: a person's, or the one of a request that was posted nowhere.
LEMMA Posts ==
    ASSUME HistorySound, UNCHANGED <<clock, pull, state>>,
           NEW new \in AComment, new.at = clock, comments' = Append(comments, new),
           sending' \subseteq sending,
           new.request # 0 =>
              /\ new.request \in DOMAIN state /\ Unposted(new.request)
              /\ state[new.request].head = new.head
              /\ \A r \in sending' : r.request # new.request
    PROVE  HistorySound'
<1>1. /\ Len(comments) \in Nat /\ DOMAIN comments = 1 .. Len(comments)
      /\ comments \in Seq(AComment)
    BY DEF HistorySound, HistoryTypes, AComment
<1>2. /\ DOMAIN comments' = 1 .. Len(comments) + 1 /\ comments'[Len(comments) + 1] = new
      /\ \A c \in DOMAIN comments : comments'[c] = comments[c]
      /\ comments' \in Seq(AComment)
    BY <1>1
<1>3. \A c : c \in DOMAIN comments' <=> c \in DOMAIN comments \/ c = Len(comments) + 1
    BY <1>1, <1>2
<1>4. HistoryTypes'
    BY <1>2 DEF HistorySound, HistoryTypes, AComment
<1>5. EntriesSound'
    BY <1>2, <1>3 DEF HistorySound, EntriesSound
<1>6. EntriesSpaced'
    BY <1>2, <1>3 DEF HistorySound, EntriesSpaced, EntriesSound
<1>7. PostedSound'
    <2>1. \A c \in DOMAIN comments' : comments'[c].at <= clock
        <3>1. clock <= clock
            BY DEF HistorySound, HistoryTypes
        <3> QED BY <1>2, <1>3, <3>1 DEF HistorySound, PostedSound
    <2>2. \A i \in DOMAIN state : state[i].comment < Len(comments) + 1 /\ state[i].at <= clock
        BY <1>1 DEF HistorySound, EntriesSound
    <2>3. \A c \in DOMAIN comments' : comments'[c].request # 0 =>
          /\ comments'[c].request \in DOMAIN state
          /\ state[comments'[c].request].head = comments'[c].head
          /\ state[comments'[c].request].at <= comments'[c].at
          /\ state[comments'[c].request].comment \in {0, c}
          /\ \A i \in DOMAIN state :
                i < comments'[c].request /\ state[i].head = comments'[c].head => state[i].comment < c
        <3>1. \A c \in DOMAIN comments : comments[c].request # 0 =>
              /\ comments[c].request \in DOMAIN state
              /\ state[comments[c].request].head = comments[c].head
              /\ state[comments[c].request].at <= comments[c].at
              /\ state[comments[c].request].comment \in {0, c}
              /\ \A i \in DOMAIN state :
                    i < comments[c].request /\ state[i].head = comments[c].head => state[i].comment < c
            BY DEF HistorySound, PostedSound
        <3>2. new.request # 0 =>
              /\ new.request \in DOMAIN state
              /\ state[new.request].head = new.head
              /\ state[new.request].at <= new.at
              /\ state[new.request].comment \in {0, Len(comments) + 1}
            BY <2>2 DEF Unposted
        <3> QED BY <1>2, <1>3, <2>2, <3>1, <3>2
    <2>4. \A c, d \in DOMAIN comments' :
              comments'[c].request # 0 /\ comments'[c].request = comments'[d].request => c = d
        BY <1>2, <1>3 DEF HistorySound, PostedSound, Unposted
    <2> QED BY <2>1, <2>3, <2>4 DEF PostedSound
<1>8. LostSound'
    <2>1. \A r \in sending' : /\ r.request \in DOMAIN state /\ state[r.request].head = r.head
                               /\ state[r.request].comment = 0
                               /\ \A c \in DOMAIN comments : comments[c].request # r.request
        BY DEF HistorySound, LostSound, Unposted
    <2>2. \A r \in sending' : r.request # 0
        BY <2>1, ReviewLists DEF HistorySound
    <2>3. \A r \in sending' : \A c \in DOMAIN comments' : comments'[c].request # r.request
        BY <1>2, <1>3, <2>1, <2>2
    <2> QED BY <2>1, <2>3 DEF LostSound, Unposted
<1> QED BY <1>4, <1>5, <1>6, <1>7, <1>8 DEF HistorySound

\* The answer of a request is lost.
LEMMA Loses ==
    ASSUME HistorySound, UNCHANGED <<clock, pull, comments, state>>,
           NEW unanswered \in [request : Nat, head : Heads], sending' = sending \cup {unanswered},
           unanswered.request \in DOMAIN state, state[unanswered.request].head = unanswered.head,
           Unposted(unanswered.request)
    PROVE  HistorySound'
<1>1. HistoryTypes'
    BY DEF HistorySound, HistoryTypes
<1>2. EntriesSound' /\ EntriesSpaced' /\ PostedSound'
    BY DEF HistorySound, EntriesSound, EntriesSpaced, PostedSound
<1>3. LostSound'
    BY DEF HistorySound, LostSound, Unposted
<1> QED BY <1>1, <1>2, <1>3 DEF HistorySound

-----------------------------------------------------------------------------
\* A set of positions has a last one.
LEMMA LastPosition ==
    ASSUME NEW n \in Nat, NEW S \in SUBSET (1 .. n), S # {}
    PROVE  \E i \in S : \A j \in S : j <= i
<1> DEFINE behind == {n - i : i \in S}
<1>1. behind \subseteq Nat /\ behind # {}
    <2>1. \A i \in 1 .. n : n - i \in Nat
        OBVIOUS
    <2> QED BY <2>1
<1>2. PICK least \in behind : \A other \in behind : least <= other
    BY <1>1, LeastNumber
<1>3. PICK i \in S : least = n - i
    OBVIOUS
<1>4. \A j \in S : n - i <= n - j
    BY <1>2, <1>3
<1> QED BY <1>4

\* The newest saved request for the command's head.
LEMMA IndexIs ==
    ASSUME HistoryTypes, reviewer.saved = state
    PROVE  /\ H!Index = 0 => \A i \in DOMAIN state : state[i].head # reviewer.head
           /\ H!Index # 0 =>
                 /\ H!Index \in DOMAIN state /\ state[H!Index].head = reviewer.head
                 /\ \A i \in DOMAIN state : state[i].head = reviewer.head => i <= H!Index
<1> DEFINE mine == {i \in DOMAIN state : state[i].head = reviewer.head}
<1>1. Len(state) \in Nat /\ DOMAIN state = 1 .. Len(state)
    BY ReviewLists
<1>2. H!Index = IF mine = {} THEN 0 ELSE CHOOSE i \in mine : \A j \in mine : j <= i
    BY DEF H!Index
<1>3. CASE mine = {}
    BY <1>2, <1>3
<1>4. CASE mine # {}
    <2>1. mine \in SUBSET (1 .. Len(state))
        BY <1>1
    <2>2. \E i \in mine : \A j \in mine : j <= i
        BY <1>1, <1>4, <2>1, LastPosition
    <2>3. H!Index \in mine /\ \A j \in mine : j <= H!Index
        BY <1>2, <1>4, <2>2
    <2> QED BY <1>1, <2>3
<1> QED BY <1>3, <1>4

\* A command that is over makes no further claim; a wake still saves its condition.
LEMMA ReviewEnds ==
    ASSUME ReviewerSound, NEW result, reviewer' = H!After(result)
    PROVE  ReviewerSound'
<1>1. \/ reviewer' = [reviewer EXCEPT !.at = "condition", !.result = result]
      \/ reviewer' = H!Idle
    BY DEF H!After
<1>2. DOMAIN reviewer' = RunFields
    BY <1>1 DEF ReviewerSound, RunFields, H!Idle
<1>3. reviewer'.at \in {"condition", "idle"}
    <2>1. CASE reviewer' = [reviewer EXCEPT !.at = "condition", !.result = result]
        <3>1. "at" \in DOMAIN reviewer
            BY DEF ReviewerSound, RunFields
        <3> QED BY <2>1, <3>1
    <2>2. CASE reviewer' = H!Idle
        BY <2>2 DEF H!Idle
    <2> QED BY <1>1, <2>1, <2>2
<1> QED BY <1>2, <1>3 DEF ReviewerSound, Reviewing

\* What `act` comes to: an answer, a request confirmed or tracked, or an intent.
LEMMA ActCases ==
    ASSUME HistorySound, ReviewerSound, H!Act
    PROVE  \/ \E status : H!Ends(status) /\ UNCHANGED state
           \/ \E i \in DOMAIN state, c \in DOMAIN comments :
                 /\ state[i].comment = 0 /\ comments[c].request = i
                 /\ H!Saves([state EXCEPT ![i] = H!confirmed(state[i], c)], H!After(H!Says("reconciled")))
           \/ \E c \in DOMAIN comments :
                 /\ comments[c].head = reviewer.head
                 /\ \A i \in DOMAIN state : state[i].head # reviewer.head
                 /\ H!Saves(Append(state, H!Request(reviewer.head, comments[c].at, c)),
                          H!After(H!Says("tracked")))
           \/ \E initial :
                 LET intent == Append(state, H!Request(reviewer.head, reviewer.now, 0)) IN
                 /\ \A i \in DOMAIN state : state[i].head = reviewer.head =>
                       state[i].comment # 0 /\ reviewer.now - state[i].at > Timeout
                 /\ H!Saves(intent, [reviewer EXCEPT !.at = "recheck", !.saved = intent,
                                              !.initial = initial])
<1>1. /\ reviewer.at = "act" /\ reviewer.saved = state /\ reviewer.now \in Nat
      /\ reviewer.seen \in Nat /\ reviewer.seen <= Len(comments)
    BY DEF H!Act, ReviewerSound, Reviewing
<1>2. /\ Len(comments) \in Nat /\ DOMAIN comments = 1 .. Len(comments)
      /\ \A i \in DOMAIN state : state[i] \in ARequest
    BY ReviewLists DEF HistorySound
<1>3. /\ H!Index = 0 => \A i \in DOMAIN state : state[i].head # reviewer.head
      /\ H!Index # 0 =>
            /\ H!Index \in DOMAIN state /\ state[H!Index].head = reviewer.head
            /\ \A i \in DOMAIN state : state[i].head = reviewer.head => i <= H!Index
    BY <1>1, IndexIs DEF HistorySound
<1>4. 1 .. reviewer.seen \subseteq DOMAIN comments
    BY <1>1, <1>2
<1> DEFINE initial == reviewer.action = "request" /\ H!Index = 0
           c == CHOOSE found \in H!Matching(H!Index) : TRUE
           intent == Append(state, H!Request(reviewer.head, reviewer.now, 0))
<1>5. \/ \E status : H!Ends(status) /\ UNCHANGED state
      \/ H!Index = 0 /\ H!TrackExisting
      \/ /\ H!Index # 0 /\ state[H!Index].comment = 0 /\ H!Matching(H!Index) # {}
         /\ H!Saves([state EXCEPT ![H!Index] = H!confirmed(state[H!Index], c)], H!After(H!Says("reconciled")))
      \/ /\ H!Index # 0 => H!decide(reviewer.review, state[H!Index], reviewer.now) = "request"
         /\ H!Saves(intent, [reviewer EXCEPT !.at = "recheck", !.saved = intent, !.initial = initial])
    BY <1>1 DEF H!Act
<1>6. CASE H!Index = 0 /\ H!TrackExisting
    BY <1>1, <1>3, <1>4, <1>6 DEF H!TrackExisting
<1>7. CASE /\ H!Index # 0 /\ state[H!Index].comment = 0 /\ H!Matching(H!Index) # {}
           /\ H!Saves([state EXCEPT ![H!Index] = H!confirmed(state[H!Index], c)],
                    H!After(H!Says("reconciled")))
    <2>1. c \in H!Matching(H!Index)
        BY <1>7
    <2>2. c \in DOMAIN comments /\ comments[c].request = H!Index
        BY <1>4, <2>1 DEF H!Matching
    <2> QED BY <1>3, <1>7, <2>2
<1>8. CASE /\ H!Index # 0 => H!decide(reviewer.review, state[H!Index], reviewer.now) = "request"
           /\ H!Saves(intent, [reviewer EXCEPT !.at = "recheck", !.saved = intent, !.initial = initial])
    <2>1. H!Index # 0 => state[H!Index].comment # 0 /\ reviewer.now - state[H!Index].at > Timeout
        BY <1>8 DEF H!decide
    <2>2. \A i \in DOMAIN state : state[i].head = reviewer.head =>
              state[i].comment # 0 /\ reviewer.now - state[i].at > Timeout
        <3> SUFFICES ASSUME NEW i \in DOMAIN state, state[i].head = reviewer.head
                     PROVE  state[i].comment # 0 /\ reviewer.now - state[i].at > Timeout
            OBVIOUS
        <3>1. /\ H!Index # 0 /\ H!Index \in DOMAIN state /\ state[H!Index].head = reviewer.head
              /\ i <= H!Index
            BY <1>3
        <3>2. i \in Nat /\ H!Index \in Nat
            BY <3>1, ReviewLists DEF HistorySound
        <3>3. CASE i = H!Index
            BY <2>1, <3>1, <3>3
        <3>4. CASE i < H!Index
            <4>1. state[i].comment # 0 /\ state[H!Index].at - state[i].at > Timeout
                BY <3>1, <3>4 DEF HistorySound, EntriesSpaced
            <4>2. state[i].at \in Nat /\ state[H!Index].at \in Nat
                BY <1>2, <3>1 DEF ARequest
            <4> QED BY <1>1, <2>1, <3>1, <4>1, <4>2, TimeoutAssumption
        <3> QED BY <3>1, <3>2, <3>3, <3>4
    <2> QED BY <1>8, <2>2
<1> QED BY <1>5, <1>6, <1>7, <1>8

-----------------------------------------------------------------------------
\* The invariant of the requests.
ReviewSound == HistorySound /\ ReviewerSound

\* The command goes on or ends, and nothing else changes.
LEMMA ReviewStays ==
    ASSUME ReviewSound, UNCHANGED <<clock, pull, comments, sending, state>>, ReviewerSound'
    PROVE  ReviewSound'
<1>1. clock' \in Nat /\ clock <= clock' /\ pull'.head \in Heads /\ DOMAIN pull' = {"open", "head"}
    BY DEF ReviewSound, HistorySound, HistoryTypes
<1> QED BY <1>1, HistoryKept DEF ReviewSound

\* A command that ends leaves what it saved.
LEMMA ReviewOver ==
    ASSUME ReviewSound, UNCHANGED <<clock, pull, comments, sending, state>>,
           NEW result, reviewer' = H!After(result) \/ reviewer' = H!Idle
    PROVE  ReviewSound'
<1>1. CASE reviewer' = H!After(result)
    BY <1>1, ReviewEnds, ReviewStays DEF ReviewSound
<1>2. CASE reviewer' = H!Idle
    <2>1. ReviewerSound'
        BY <1>2 DEF ReviewerSound, Reviewing, RunFields, H!Idle
    <2> QED BY <2>1, ReviewStays
<1> QED BY <1>1, <1>2

\* A request is confirmed, and the command ends.
LEMMA Confirmation ==
    ASSUME ReviewSound, UNCHANGED <<clock, pull, comments, sending>>,
           NEW i \in DOMAIN state, state[i].comment = 0,
           NEW c \in DOMAIN comments, comments[c].request = i, NEW result,
           H!Saves([state EXCEPT ![i] = H!confirmed(state[i], c)], H!After(result))
    PROVE  ReviewSound'
<1>1. \E end : reviewer' = H!After(end)
    BY DEF H!Saves, H!Ends
<1>2. ReviewerSound'
    BY <1>1, ReviewEnds DEF ReviewSound
<1>3. CASE state' = [state EXCEPT ![i] = H!confirmed(state[i], c)]
    BY <1>2, <1>3, Confirms DEF ReviewSound
<1>4. CASE state' = state
    BY <1>2, <1>4, ReviewStays
<1> QED BY <1>3, <1>4 DEF H!Saves

\* The request a person made is tracked, and the command ends.
LEMMA Tracking ==
    ASSUME ReviewSound, UNCHANGED <<clock, pull, comments, sending>>,
           NEW c \in DOMAIN comments, comments[c].head = reviewer.head,
           \A i \in DOMAIN state : state[i].head # reviewer.head, NEW result,
           H!Saves(Append(state, H!Request(reviewer.head, comments[c].at, c)), H!After(result))
    PROVE  ReviewSound'
<1> DEFINE tracked == H!Request(reviewer.head, comments[c].at, c)
<1>1. \E end : reviewer' = H!After(end)
    BY DEF H!Saves, H!Ends
<1>2. ReviewerSound'
    BY <1>1, ReviewEnds DEF ReviewSound
<1>3. CASE state' = Append(state, tracked)
    <2>1. comments[c] \in AComment /\ c \in Nat
        BY ReviewLists DEF ReviewSound, HistorySound
    <2>2. /\ tracked.head = reviewer.head /\ tracked.at = comments[c].at /\ tracked.comment = c
          /\ tracked \in ARequest
        BY <2>1 DEF H!Request, ARequest, AComment
    <2>3. comments[c].request = 0 /\ comments[c].at <= clock
        BY DEF ReviewSound, HistorySound, PostedSound
    <2> HIDE DEF tracked
    <2>4. HistorySound'
        BY <1>3, <2>2, <2>3, Extends DEF ReviewSound
    <2> QED BY <1>2, <2>4 DEF ReviewSound
<1>4. CASE state' = state
    BY <1>2, <1>4, ReviewStays
<1> QED BY <1>3, <1>4 DEF H!Saves

\* The intent is saved; nothing was posted for it yet.
LEMMA Intention ==
    ASSUME ReviewSound, UNCHANGED <<clock, pull, comments, sending>>,
           reviewer.head \in Heads, reviewer.now \in Nat, reviewer.now <= clock,
           \A i \in DOMAIN state : state[i].head = reviewer.head =>
              state[i].comment # 0 /\ reviewer.now - state[i].at > Timeout,
           NEW intent, intent = Append(state, H!Request(reviewer.head, reviewer.now, 0)), NEW initial,
           H!Saves(intent, [reviewer EXCEPT !.at = "recheck", !.saved = intent, !.initial = initial])
    PROVE  ReviewSound'
<1> DEFINE entry == H!Request(reviewer.head, reviewer.now, 0)
<1>1. /\ entry.head = reviewer.head /\ entry.at = reviewer.now /\ entry.comment = 0
      /\ entry \in ARequest
    BY DEF H!Request, ARequest
<1>2. intent = Append(state, entry)
    OBVIOUS
<1> HIDE DEF entry
<1>3. CASE state' = intent
    <2>1. HistorySound'
        BY <1>1, <1>2, <1>3, Extends DEF ReviewSound
    <2>2. CASE \E end : reviewer' = H!After(end)
        BY <2>1, <2>2, ReviewEnds DEF ReviewSound
    <2>3. CASE reviewer' = [reviewer EXCEPT !.at = "recheck", !.saved = intent, !.initial = initial]
        <3>1. /\ Len(state) \in Nat /\ DOMAIN state = 1 .. Len(state) /\ state \in Seq(ARequest)
            BY DEF ReviewSound, HistorySound, HistoryTypes, ARequest
        <3>2. /\ Len(state') = Len(state) + 1 /\ DOMAIN state' = 1 .. Len(state) + 1
              /\ state'[Len(state) + 1] = entry /\ state' # << >>
            BY <1>1, <1>2, <1>3, <3>1
        <3>3. /\ \A c \in DOMAIN comments : comments[c].request # Len(state) + 1
              /\ \A r \in sending : r.request # Len(state) + 1
            BY <3>1 DEF ReviewSound, HistorySound, PostedSound, LostSound
        <3>4. DOMAIN reviewer = RunFields
            BY DEF ReviewSound, ReviewerSound
        <3>5. /\ DOMAIN reviewer' = RunFields /\ reviewer'.at = "recheck"
              /\ reviewer'.saved = intent
              /\ reviewer'.head = reviewer.head /\ reviewer'.now = reviewer.now
            BY <2>3, <3>4 DEF RunFields
        <3>6. Unposted(Len(state))'
            BY <1>1, <3>2, <3>3 DEF Unposted
        <3>7. ReviewerSound'
            BY <1>1, <1>3, <3>2, <3>3, <3>5, <3>6 DEF ReviewerSound, Reviewing
        <3> QED BY <2>1, <3>7 DEF ReviewSound
    <2> QED BY <2>2, <2>3 DEF H!Saves, H!Ends
<1>4. CASE state' = state /\ \E end : reviewer' = H!After(end)
    <2>1. ReviewerSound'
        BY <1>4, ReviewEnds DEF ReviewSound
    <2> QED BY <1>4, <2>1, ReviewStays
<1> QED BY <1>3, <1>4 DEF H!Saves, H!Ends

\* Whatever the command decides to do.
LEMMA ActStep == ReviewSound /\ H!Act => ReviewSound'
<1> SUFFICES ASSUME ReviewSound, H!Act PROVE ReviewSound'
    OBVIOUS
<1>1. UNCHANGED <<clock, pull, comments, sending>>
    BY DEF H!Act, H!world
<1>2. reviewer.head \in Heads /\ reviewer.now \in Nat /\ reviewer.now <= clock
    BY DEF ReviewSound, H!Act, ReviewerSound, Reviewing
<1>3. CASE \E status : H!Ends(status) /\ UNCHANGED state
    BY <1>1, <1>3, ReviewOver DEF H!Ends
<1>4. CASE \E i \in DOMAIN state, c \in DOMAIN comments :
              /\ state[i].comment = 0 /\ comments[c].request = i
              /\ H!Saves([state EXCEPT ![i] = H!confirmed(state[i], c)], H!After(H!Says("reconciled")))
    BY <1>1, <1>4, Confirmation
<1>5. CASE \E c \in DOMAIN comments :
              /\ comments[c].head = reviewer.head
              /\ \A i \in DOMAIN state : state[i].head # reviewer.head
              /\ H!Saves(Append(state, H!Request(reviewer.head, comments[c].at, c)), H!After(H!Says("tracked")))
    BY <1>1, <1>5, Tracking
<1>6. CASE \E initial :
              LET intent == Append(state, H!Request(reviewer.head, reviewer.now, 0)) IN
              /\ \A i \in DOMAIN state : state[i].head = reviewer.head =>
                    state[i].comment # 0 /\ reviewer.now - state[i].at > Timeout
              /\ H!Saves(intent, [reviewer EXCEPT !.at = "recheck", !.saved = intent,
                                           !.initial = initial])
    BY <1>1, <1>2, <1>6, Intention
<1> QED BY <1>3, <1>4, <1>5, <1>6, ActCases DEF ReviewSound

\* The answer of GitHub is saved with the request.
LEMMA SentStep == ReviewSound /\ H!Sent => ReviewSound'
<1> SUFFICES ASSUME ReviewSound, H!Sent PROVE ReviewSound'
    OBVIOUS
<1> DEFINE i == Len(state)
<1>1. UNCHANGED <<clock, pull, comments, sending>> /\ reviewer.at = "sent"
    BY DEF H!Sent, H!world
<1>2. /\ reviewer.saved = state /\ i \in DOMAIN state /\ state[i].comment = 0
      /\ reviewer.seen \in DOMAIN comments /\ comments[reviewer.seen].request = i
    BY <1>1, ReviewLists DEF ReviewSound, ReviewerSound, Reviewing, HistorySound
<1>3. H!Saves([state EXCEPT ![i] = H!confirmed(state[i], reviewer.seen)],
            H!After(H!Condition("review", "requested", reviewer.head, i)))
    BY <1>2 DEF H!Sent
<1> QED BY <1>1, <1>2, <1>3, Confirmation

\* A comment that is not the request the command is about to send.
Foreign(comment) ==
    reviewer.at \in {"recheck", "recheck comments", "send"} => comment.request # Len(state)

\* A running command is not disturbed by a comment that is not its own request.
LEMMA CommandUndisturbed ==
    ASSUME ReviewSound, UNCHANGED <<clock, state, reviewer>>,
           NEW new \in AComment, comments' = Append(comments, new),
           sending' \subseteq sending,
           Foreign(new)
    PROVE  ReviewerSound'
<1>1. comments \in Seq(AComment)
    BY DEF ReviewSound, HistorySound, HistoryTypes, AComment
<1>3. /\ Len(comments) \in Nat /\ DOMAIN comments = 1 .. Len(comments)
      /\ Len(comments') = Len(comments) + 1 /\ DOMAIN comments' = 1 .. Len(comments) + 1
      /\ comments'[Len(comments) + 1] = new
      /\ \A c \in DOMAIN comments : c \in DOMAIN comments' /\ comments'[c] = comments[c]
    BY <1>1
<1>5. \A c \in DOMAIN comments' : c \in DOMAIN comments \/ c = Len(comments) + 1
    BY <1>3
<1>6. reviewer.at \in {"recheck", "recheck comments", "send"} => Unposted(Len(state))'
    BY <1>3, <1>5 DEF ReviewSound, ReviewerSound, Unposted, Foreign
<1>7. reviewer.at \in {"ci", "act"} => reviewer.seen \in Nat /\ reviewer.seen <= Len(comments')
    <2>1. reviewer.at \in {"ci", "act"} => reviewer.seen \in Nat /\ reviewer.seen <= Len(comments)
        BY DEF ReviewSound, ReviewerSound
    <2> QED BY <1>3, <2>1
<1> QED BY <1>3, <1>5, <1>6, <1>7 DEF ReviewSound, ReviewerSound

\* The request is sent.
LEMMA SendStep == ReviewSound /\ H!Send => ReviewSound'
<1> SUFFICES ASSUME ReviewSound, H!Send PROVE ReviewSound'
    OBVIOUS
<1>1. /\ reviewer.at = "send" /\ reviewer.saved = state /\ reviewer.head \in Heads
      /\ state # << >>
      /\ state[Len(state)].head = reviewer.head /\ Unposted(Len(state))
      /\ \A r \in sending : r.request # Len(state)
      /\ DOMAIN reviewer = RunFields
    BY DEF H!Send, ReviewSound, ReviewerSound, Reviewing
<1>2. UNCHANGED <<clock, pull, state>>
    BY DEF H!Send, H!world
<1>3. Len(state) \in DOMAIN state /\ Len(state) \in Nat /\ Len(comments) \in Nat
    BY <1>1, ReviewLists DEF ReviewSound, HistorySound
<1> DEFINE mine == H!Comment(Len(state), "caller", reviewer.head)
<1>4. CASE /\ comments' = Append(comments, mine)
           /\ reviewer' = [reviewer EXCEPT !.at = "sent", !.seen = Len(comments) + 1]
           /\ UNCHANGED sending
    <2>1. /\ mine.request = Len(state) /\ mine.head = reviewer.head /\ mine.at = clock
          /\ mine \in AComment
        BY <1>1, <1>3 DEF H!Comment, AComment, ReviewSound, HistorySound, HistoryTypes
    <2> HIDE DEF mine
    <2>2. HistorySound'
        BY <1>1, <1>2, <1>3, <1>4, <2>1, Posts DEF ReviewSound
    <2>3. /\ DOMAIN reviewer' = RunFields /\ reviewer'.at = "sent"
          /\ reviewer'.seen = Len(comments) + 1
          /\ reviewer'.saved = state /\ reviewer'.head = reviewer.head
          /\ reviewer'.now = reviewer.now
        BY <1>1, <1>4 DEF RunFields
    <2>4. Len(comments) + 1 \in DOMAIN comments' /\ comments'[Len(comments) + 1] = mine
        <3>1. comments \in Seq(AComment)
            BY DEF ReviewSound, HistorySound, HistoryTypes, AComment
        <3> QED BY <1>4, <2>1, <3>1
    <2>5. reviewer.now \in Nat /\ reviewer.now <= clock
        BY <1>1 DEF ReviewSound, ReviewerSound, Reviewing
    <2>6. ReviewerSound'
        BY <1>1, <1>2, <2>1, <2>3, <2>4, <2>5 DEF ReviewerSound, Reviewing, Unposted
    <2> QED BY <2>2, <2>6 DEF ReviewSound
<1>5. CASE /\ sending' = sending \union {[request |-> Len(state), head |-> reviewer.head]}
           /\ H!Ends("error") /\ UNCHANGED comments
    <2>1. ReviewerSound'
        BY <1>5, ReviewEnds DEF ReviewSound, H!Ends
    <2> DEFINE unanswered == [request |-> Len(state), head |-> reviewer.head]
    <2>2. /\ unanswered \in [request : Nat, head : Heads] /\ unanswered.request = Len(state)
          /\ unanswered.head = reviewer.head /\ sending' = sending \cup {unanswered}
        BY <1>1, <1>3, <1>5
    <2> HIDE DEF unanswered
    <2>3. HistorySound'
        BY <1>1, <1>2, <1>3, <1>5, <2>2, Loses DEF ReviewSound
    <2> QED BY <2>1, <2>3 DEF ReviewSound
<1> QED BY <1>1, <1>4, <1>5 DEF H!Send

\* GitHub posts a request whose answer was lost, or does not.
LEMMA ArrivesStep == ReviewSound /\ (\E r \in sending : H!Arrives(r)) => ReviewSound'
<1> SUFFICES ASSUME ReviewSound, NEW r \in sending, H!Arrives(r) PROVE ReviewSound'
    OBVIOUS
<1>1. UNCHANGED <<clock, pull, state, reviewer>> /\ sending' = sending \ {r}
    BY DEF H!Arrives, H!world
<1>2. r \in [request : Nat, head : Heads] /\ sending \subseteq [request : Nat, head : Heads]
    BY DEF ReviewSound, HistorySound, HistoryTypes
<1>3. /\ r.request \in DOMAIN state /\ state[r.request].head = r.head /\ Unposted(r.request)
      /\ \A q \in sending : state[q.request].head = q.head
    BY DEF ReviewSound, HistorySound, LostSound
<1> DEFINE late == H!Comment(r.request, "caller", r.head)
<1>4. CASE comments' = comments
    <2>1. HistorySound'
        BY <1>1, <1>4 DEF ReviewSound, HistorySound, HistoryTypes, EntriesSound, EntriesSpaced,
                          PostedSound, LostSound, Unposted
    <2>2. ReviewerSound'
        BY <1>1, <1>4 DEF ReviewSound, ReviewerSound, Unposted
    <2> QED BY <2>1, <2>2 DEF ReviewSound
<1>5. CASE comments' = Append(comments, late)
    <2>1. late.request = r.request /\ late.head = r.head /\ late.at = clock /\ late \in AComment
        BY <1>2 DEF H!Comment, AComment, ReviewSound, HistorySound, HistoryTypes
    <2> HIDE DEF late
    <2>2. \A q \in sending' : q.request # r.request
        BY <1>1, <1>2, <1>3
    <2>3. HistorySound'
        BY <1>1, <1>3, <1>5, <2>1, <2>2, Posts DEF ReviewSound
    <2>4. Foreign(late)
        BY <2>1 DEF ReviewSound, ReviewerSound, Foreign
    <2>5. ReviewerSound'
        BY <1>1, <1>5, <2>1, <2>4, CommandUndisturbed
    <2> QED BY <2>3, <2>5 DEF ReviewSound
<1> QED BY <1>4, <1>5 DEF H!Arrives

\* A person asks.
LEMMA AskStep == ReviewSound /\ (\E by \in {"caller", "other"} : H!Ask(by)) => ReviewSound'
<1> SUFFICES ASSUME ReviewSound, NEW by \in {"caller", "other"}, H!Ask(by) PROVE ReviewSound'
    OBVIOUS
<1>1. UNCHANGED <<clock, pull, state, reviewer, sending>>
    BY DEF H!Ask
<1> DEFINE asked == H!Comment(0, by, pull.head)
<1>2. asked.request = 0 /\ asked.at = clock /\ asked \in AComment
    BY DEF H!Comment, AComment, ReviewSound, HistorySound, HistoryTypes
<1>3. comments' = Append(comments, asked)
    BY DEF H!Ask
<1> HIDE DEF asked
<1>4. HistorySound'
    BY <1>1, <1>2, <1>3, Posts DEF ReviewSound
<1>5. Foreign(asked)
    <2>1. reviewer.at \in {"recheck", "recheck comments", "send"} => Len(state) \in DOMAIN state
        BY ReviewLists DEF ReviewSound, HistorySound, ReviewerSound
    <2>2. 0 \notin DOMAIN state
        BY ReviewLists DEF ReviewSound, HistorySound
    <2> QED BY <1>2, <2>1, <2>2 DEF Foreign
<1>6. ReviewerSound'
    BY <1>1, <1>2, <1>3, <1>5, CommandUndisturbed
<1> QED BY <1>4, <1>6 DEF ReviewSound

\* A command begins, reads and looks again.
LEMMA ReviewReads ==
    ASSUME ReviewSound,
           \/ \E action \in scenario.actions, head \in Heads, now \in 0 .. clock :
                 H!Start(action, head, now)
           \/ H!ReadPull \/ H!ReadComments \/ H!ReadCi \/ H!RecheckPull \/ H!RecheckComments
    PROVE  ReviewSound'
<1>1. UNCHANGED <<clock, pull, comments, sending, state>>
    BY DEF H!Start, H!ReadPull, H!ReadComments, H!ReadCi, H!RecheckPull, H!RecheckComments, H!world
<1>2. DOMAIN reviewer = RunFields /\ Len(comments) \in Nat /\ clock \in Nat
    BY ReviewLists DEF ReviewSound, ReviewerSound, HistorySound, HistoryTypes
<1>3. CASE \E result : reviewer' = H!After(result)
    BY <1>1, <1>3, ReviewOver
<1>4. CASE \E action \in scenario.actions, head \in Heads, now \in 0 .. clock :
              H!Start(action, head, now)
    <2>1. /\ DOMAIN reviewer' = RunFields /\ reviewer'.at = "pull" /\ reviewer'.saved = state
          /\ reviewer'.head \in Heads /\ reviewer'.now \in Nat /\ reviewer'.now <= clock
        <3>1. PICK action \in scenario.actions, head \in Heads, now \in 0 .. clock :
                  H!Start(action, head, now)
            BY <1>4
        <3>2. now \in Nat /\ now <= clock
            BY <1>2
        <3>3. DOMAIN H!Idle = RunFields
            BY DEF H!Idle, RunFields
        <3>4. reviewer' = [H!Idle EXCEPT !.at = "pull", !.action = action, !.head = head, !.now = now,
                                  !.saved = state]
            BY <3>1 DEF H!Start
        <3>5. /\ DOMAIN reviewer' = RunFields /\ reviewer'.at = "pull" /\ reviewer'.saved = state
              /\ reviewer'.head = head /\ reviewer'.now = now
            BY <3>3, <3>4 DEF RunFields
        <3> QED BY <3>2, <3>5
    <2>2. ReviewerSound'
        BY <1>1, <2>1 DEF ReviewerSound, Reviewing
    <2> QED BY <1>1, <2>2, ReviewStays
<1>5. ASSUME NEW place \in {"comments", "recheck comments", "send"},
             reviewer' = [reviewer EXCEPT !.at = place],
             reviewer.at \in Reviewing,
             place # "comments" => reviewer.at \in {"recheck", "recheck comments"}
      PROVE  ReviewSound'
    <2>1. /\ DOMAIN reviewer' = RunFields /\ reviewer'.at = place
          /\ reviewer'.saved = reviewer.saved
          /\ reviewer'.head = reviewer.head /\ reviewer'.now = reviewer.now
        BY <1>2, <1>5 DEF RunFields
    <2>2. ReviewerSound'
        BY <1>1, <1>5, <2>1 DEF ReviewSound, ReviewerSound, Reviewing, Unposted
    <2> QED BY <1>1, <2>2, ReviewStays
<1>6. CASE H!ReadPull
    BY <1>3, <1>5, <1>6 DEF H!ReadPull, Reviewing
<1>7. CASE H!ReadComments
    <2>1. /\ DOMAIN reviewer' = RunFields /\ reviewer'.at \in {"ci", "act"}
          /\ reviewer'.saved = reviewer.saved
          /\ reviewer'.head = reviewer.head /\ reviewer'.now = reviewer.now
          /\ reviewer'.seen = Len(comments)
        BY <1>2, <1>7 DEF H!ReadComments, RunFields
    <2>2. ReviewerSound'
        BY <1>1, <1>2, <1>7, <2>1 DEF H!ReadComments, ReviewSound, ReviewerSound, Reviewing
    <2> QED BY <1>1, <2>2, ReviewStays
<1>8. CASE H!ReadCi
    <2>1. /\ DOMAIN reviewer' = RunFields /\ reviewer'.at = "act"
          /\ reviewer'.saved = reviewer.saved
          /\ reviewer'.head = reviewer.head /\ reviewer'.now = reviewer.now
          /\ reviewer'.seen = reviewer.seen
        BY <1>2, <1>8 DEF H!ReadCi, RunFields
    <2>2. ReviewerSound'
        BY <1>1, <1>2, <1>8, <2>1 DEF H!ReadCi, ReviewSound, ReviewerSound, Reviewing
    <2> QED BY <1>1, <2>2, ReviewStays
<1>9. CASE H!RecheckPull
    BY <1>3, <1>5, <1>9 DEF H!RecheckPull, Reviewing
<1>10. CASE H!RecheckComments
    BY <1>3, <1>5, <1>10 DEF H!RecheckComments, Reviewing
<1> QED BY <1>4, <1>6, <1>7, <1>8, <1>9, <1>10

\* A wake saves and tells, a command fails or dies.
LEMMA ReviewFails == ReviewSound /\ (H!SaveWake \/ H!Tell \/ H!ReadFails \/ H!Dies) => ReviewSound'
<1> SUFFICES ASSUME ReviewSound, H!SaveWake \/ H!Tell \/ H!ReadFails \/ H!Dies PROVE ReviewSound'
    OBVIOUS
<1>1. UNCHANGED <<clock, pull, comments, sending, state>>
    BY DEF H!SaveWake, H!Tell, H!ReadFails, H!Dies, H!world
<1>2. CASE reviewer' = H!Idle \/ \E status : H!Ends(status)
    BY <1>1, <1>2, ReviewOver DEF H!Ends
<1>3. CASE reviewer' = [reviewer EXCEPT !.at = "tell", !.result = H!Observed,
                              !.notify = H!Notifies(wake.condition, H!Observed)]
    <2>1. DOMAIN reviewer' = RunFields /\ reviewer'.at = "tell"
        BY <1>3 DEF ReviewSound, ReviewerSound, RunFields
    <2>2. ReviewerSound'
        BY <2>1 DEF ReviewerSound, Reviewing
    <2> QED BY <1>1, <2>2, ReviewStays
<1> QED BY <1>2, <1>3 DEF H!SaveWake, H!Tell, H!ReadFails, H!Dies

\* The world moves.
LEMMA ReviewWorld == ReviewSound /\ (H!Tick \/ H!Push \/ H!Review \/ H!Build) => ReviewSound'
<1> SUFFICES ASSUME ReviewSound, H!Tick \/ H!Push \/ H!Review \/ H!Build PROVE ReviewSound'
    OBVIOUS
<1>1. /\ clock' \in Nat /\ clock <= clock'
      /\ pull'.head \in Heads /\ DOMAIN pull' = {"open", "head"}
    BY SMTT(30) DEF ReviewSound, HistorySound, HistoryTypes, H!Tick, H!Push, H!Review, H!Build
<1>2. UNCHANGED <<comments, sending, state, reviewer>>
    BY DEF H!Tick, H!Push, H!Review, H!Build
<1>3. HistorySound'
    BY <1>1, <1>2, HistoryKept DEF ReviewSound
<1>4. ReviewerSound'
    <2>1. reviewer.at \in Reviewing => reviewer.now <= clock'
        <3>1. reviewer.at \in Reviewing => reviewer.now \in Nat /\ reviewer.now <= clock
            BY DEF ReviewSound, ReviewerSound
        <3>2. clock \in Nat
            BY DEF ReviewSound, HistorySound, HistoryTypes
        <3> QED BY <1>1, <3>1, <3>2
    <2> QED BY <1>2, <2>1 DEF ReviewSound, ReviewerSound, Unposted
<1> QED BY <1>3, <1>4 DEF ReviewSound

\* Nothing was asked for yet.
LEMMA InitReview == H!Init => ReviewSound
<1> SUFFICES ASSUME H!Init PROVE ReviewSound
    OBVIOUS
<1>1. H!Head0 \in Heads
    BY HeadsAssumption DEF H!Head0
<1>2. /\ clock = 0 /\ comments = << >> /\ sending = {} /\ state = << >> /\ reviewer = H!Idle
      /\ pull = [open |-> TRUE, head |-> H!Head0]
    BY DEF H!Init
<1>3. DOMAIN comments = {} /\ DOMAIN state = {}
    BY <1>2
<1>4. HistoryTypes
    <2>1. << >> \in Seq([request : Nat, by : {"caller", "other"}, head : Heads, at : Nat])
          /\ << >> \in Seq([head : Heads, at : Nat, comment : Nat])
        OBVIOUS
    <2> QED BY <1>1, <1>2, <2>1 DEF HistoryTypes
<1>5. EntriesSound /\ EntriesSpaced /\ PostedSound
    BY <1>3 DEF EntriesSound, EntriesSpaced, PostedSound
<1>6. LostSound
    BY <1>2 DEF LostSound
<1>7. ReviewerSound
    BY <1>2 DEF ReviewerSound, Reviewing, RunFields, H!Idle
<1> QED BY <1>4, <1>5, <1>6, <1>7 DEF ReviewSound, HistorySound

\* What was asked for and what the running command knows agree after every step.
THEOREM ReviewInvariant == H!Spec => []ReviewSound
<1>1. ReviewSound /\ [H!Next]_H!vars => ReviewSound'
    <2> SUFFICES ASSUME ReviewSound, [H!Next]_H!vars PROVE ReviewSound'
        OBVIOUS
    <2>1. CASE H!Next
        BY <2>1, ReviewReads, ReviewFails, ReviewWorld, ActStep, SendStep, SentStep, ArrivesStep,
           AskStep DEF H!Next
    <2>2. CASE UNCHANGED H!vars
        <3>1. UNCHANGED <<clock, pull, comments, sending, state, reviewer>>
            BY <2>2 DEF H!vars
        <3>2. ReviewerSound'
            BY <3>1 DEF ReviewSound, ReviewerSound, Unposted
        <3> QED BY <3>1, <3>2, ReviewStays
    <2> QED BY <2>1, <2>2
<1> QED BY <1>1, InitReview, PTL DEF H!Spec

\* Own requests for one commit are a timeout apart.
LEMMA SoundIsSpaced == ReviewSound => H!RequestsSpaced
<1> DEFINE Own(c) == \/ comments[c].request # 0
                     \/ \E i \in DOMAIN state : state[i].comment = c
<1> SUFFICES ASSUME ReviewSound, NEW c \in DOMAIN comments, NEW d \in DOMAIN comments,
                    c < d, Own(c), comments[d].request # 0,
                    comments[c].head = comments[d].head
             PROVE  comments[d].at - comments[c].at > Timeout
    BY DEF H!RequestsSpaced
<1>1. /\ c \in Nat \ {0} /\ d \in Nat
      /\ comments[c].at \in Nat /\ comments[d].at \in Nat
      /\ \A i \in DOMAIN state :
            i \in Nat \ {0} /\ state[i].at \in Nat /\ state[i].comment \in Nat
    BY ReviewLists DEF ReviewSound, HistorySound, AComment, ARequest
<1>2. PICK k \in DOMAIN state : k = comments[d].request
    BY DEF ReviewSound, HistorySound, PostedSound
<1>3. /\ state[k].head = comments[d].head /\ state[k].at <= comments[d].at
      /\ state[k].comment \in {0, d}
    BY <1>2 DEF ReviewSound, HistorySound, PostedSound
<1>4. ASSUME NEW j \in DOMAIN state, j < k, state[j].head = comments[c].head,
             state[j].comment \in {0, c}
      PROVE  comments[d].at - comments[c].at > Timeout
    <2>1. state[j].comment # 0 /\ state[k].at - state[j].at > Timeout
        BY <1>3, <1>4 DEF ReviewSound, HistorySound, EntriesSpaced
    <2>2. comments[c].at = state[j].at
        BY <1>4, <2>1 DEF ReviewSound, HistorySound, EntriesSound
    <2> QED BY <1>1, <1>3, <2>1, <2>2, TimeoutAssumption
<1>5. CASE comments[c].request # 0
    <2>1. PICK j \in DOMAIN state : j = comments[c].request
        BY <1>5 DEF ReviewSound, HistorySound, PostedSound
    <2>2. state[j].head = comments[c].head /\ state[j].comment \in {0, c}
        BY <1>5, <2>1 DEF ReviewSound, HistorySound, PostedSound
    <2>3. j # k
        BY <1>1, <1>2, <1>5, <2>1 DEF ReviewSound, HistorySound, PostedSound
    <2>4. ~(k < j)
        <3> SUFFICES ASSUME k < j PROVE FALSE
            OBVIOUS
        <3>1. state[k].comment # 0
            BY <1>3, <2>2 DEF ReviewSound, HistorySound, EntriesSpaced
        <3>2. state[k].comment < c
            BY <1>3, <1>5, <2>1 DEF ReviewSound, HistorySound, PostedSound
        <3> QED BY <1>1, <1>3, <3>1, <3>2
    <2> QED BY <1>1, <1>4, <2>2, <2>3, <2>4
<1>6. CASE comments[c].request = 0
    <2>1. PICK j \in DOMAIN state : state[j].comment = c
        BY <1>6
    <2>2. state[j].head = comments[c].head
        BY <1>1, <2>1 DEF ReviewSound, HistorySound, EntriesSound
    <2>3. j # k
        BY <1>1, <1>3, <2>1
    <2>4. ~(k < j)
        BY <1>1, <1>3, <1>6, <2>1, <2>2 DEF ReviewSound, HistorySound, EntriesSpaced
    <2> QED BY <1>1, <1>4, <2>1, <2>2, <2>3, <2>4
<1> QED BY <1>5, <1>6

\* The tool's requests for one commit are more than the timeout apart.
THEOREM RequestsAlwaysSpaced == H!Spec => []RequestsSpaced
    BY ReviewInvariant, SoundIsSpaced, PTL DEF RequestsSpaced

-----------------------------------------------------------------------------
\* A command that does not come to tell a condition has nothing to show for it.
LEMMA TellsNothing ==
    ASSUME WakeInv, UNCHANGED <<wake, told, missed>>,
           DOMAIN reviewer' = RunFields, reviewer'.at # "tell"
    PROVE  WakeInv'
    BY DEF WakeInv, IsList

\* Where the steps of a command lead.
LEMMA CommandLeads ==
    ASSUME DOMAIN reviewer = RunFields,
           \/ \E action \in scenario.actions, head \in Heads, now \in 0 .. clock :
                 H!Start(action, head, now)
           \/ H!ReadPull \/ H!ReadComments \/ H!ReadCi \/ H!Act \/ H!RecheckPull \/ H!RecheckComments
           \/ H!Send \/ H!Sent \/ H!ReadFails \/ H!Dies
    PROVE  DOMAIN reviewer' = RunFields /\ reviewer'.at # "tell"
<1>1. DOMAIN H!Idle = RunFields /\ H!Idle.at = "idle"
    BY DEF H!Idle, RunFields
<1>2. ASSUME NEW result, reviewer' = H!After(result)
      PROVE  DOMAIN reviewer' = RunFields /\ reviewer'.at # "tell"
    <2>1. CASE reviewer' = [reviewer EXCEPT !.at = "condition", !.result = result]
        BY <2>1 DEF RunFields
    <2>2. CASE reviewer' = H!Idle
        BY <1>1, <2>2
    <2> QED BY <1>2, <2>1, <2>2 DEF H!After
<1>3. CASE \E action \in scenario.actions, head \in Heads, now \in 0 .. clock :
              H!Start(action, head, now)
    <2>1. PICK action \in scenario.actions, head \in Heads, now \in 0 .. clock :
              reviewer' = [H!Idle EXCEPT !.at = "pull", !.action = action, !.head = head, !.now = now,
                                  !.saved = state]
        BY <1>3 DEF H!Start
    <2> QED BY <1>1, <2>1 DEF RunFields
<1>4. CASE H!ReadPull
    BY <1>2, <1>4 DEF H!ReadPull, RunFields
<1>5. CASE H!ReadComments
    BY <1>5 DEF H!ReadComments, RunFields
<1>6. CASE H!ReadCi
    BY <1>6 DEF H!ReadCi, RunFields
<1>7. CASE H!RecheckPull
    BY <1>2, <1>7 DEF H!RecheckPull, RunFields
<1>8. CASE H!RecheckComments
    BY <1>2, <1>8 DEF H!RecheckComments, RunFields
<1>9. CASE H!Act
    <2>1. \/ \E result : reviewer' = H!After(result)
          \/ \E intent, initial :
                reviewer' = [reviewer EXCEPT !.at = "recheck", !.saved = intent, !.initial = initial]
        BY ZenonT(30), <1>9 DEF H!Act, H!TrackExisting, H!Saves, H!Ends
    <2> QED BY <1>2, <2>1 DEF RunFields
<1>10. CASE H!Send
    <2>1. \/ \E result : reviewer' = H!After(result)
          \/ reviewer' = [reviewer EXCEPT !.at = "sent", !.seen = Len(comments) + 1]
        BY <1>10 DEF H!Send, H!Ends
    <2> QED BY <1>2, <2>1 DEF RunFields
<1>11. CASE H!Sent
    BY <1>2, <1>11 DEF H!Sent, H!Saves, H!Ends
<1>12. CASE H!ReadFails
    BY <1>2, <1>12 DEF H!ReadFails, H!Ends
<1>13. CASE H!Dies
    BY <1>1, <1>13 DEF H!Dies
<1> QED BY <1>3, <1>4, <1>5, <1>6, <1>7, <1>8, <1>9, <1>10, <1>11, <1>12, <1>13

\* A wake compares its condition with the one saved last, and saves it.
LEMMA WakeSaved == WakeInv /\ H!SaveWake => WakeInv'
<1> SUFFICES ASSUME WakeInv, H!SaveWake PROVE WakeInv'
    OBVIOUS
<1>1. IsList(missed) /\ DOMAIN reviewer = RunFields
    BY DEF WakeInv
<1>2. CASE UNCHANGED <<wake, missed>> /\ reviewer' = H!Idle
    <2>1. DOMAIN reviewer' = RunFields /\ reviewer'.at # "tell"
        BY <1>2 DEF H!Idle, RunFields
    <2> QED BY <1>2, <2>1, TellsNothing DEF H!SaveWake
<1>3. CASE wake' = [at |-> reviewer.now, condition |-> H!Observed] /\ missed' = Append(missed, H!Observed)
    <2> DEFINE longer == Append(missed, H!Observed)
    <2>1. /\ IsList(longer) /\ Len(missed) \in Nat /\ DOMAIN missed = 1 .. Len(missed)
          /\ DOMAIN longer = 1 .. Len(missed) + 1
          /\ \A i \in DOMAIN missed : longer[i] = missed[i]
          /\ longer[Len(missed) + 1] = H!Observed
        BY <1>1, ListAppend
    <2>2. longer # << >> /\ Len(longer) = Len(missed) + 1
        <3> HIDE DEF longer
        <3>1. Len(longer) \in Nat /\ DOMAIN longer = 1 .. Len(longer)
            BY <2>1, ListFacts
        <3>2. Len(longer) = Len(missed) + 1
            BY <2>1, <3>1
        <3>3. 1 \in DOMAIN longer
            BY <2>1
        <3> QED BY <3>2, <3>3
    <2>3. missed' = longer
        BY <1>3
    <2> HIDE DEF longer
    <2>4. /\ IsList(missed') /\ missed' # << >> /\ missed'[Len(missed')] = H!Observed
          /\ Len(missed') = Len(missed) + 1
        BY <2>1, <2>2, <2>3 DEF IsList
    <2>5. wake'.condition = H!Observed /\ told' = told
        BY <1>3 DEF H!SaveWake
    <2>6. SavedBefore' = wake.condition
        <3>1. missed = << >> <=> Len(missed) = 0
            <4>1. missed = [i \in 1 .. Len(missed) |-> missed[i]]
                BY <1>1, ListFacts
            <4> QED BY <2>1, <4>1
        <3>2. CASE missed = << >>
            BY <2>4, <2>5, <3>1, <3>2 DEF SavedBefore, WakeInv
        <3>3. CASE missed # << >>
            <4>1. /\ Len(missed) \in DOMAIN missed /\ Len(missed') # 1
                  /\ Len(missed') - 1 = Len(missed)
                BY <2>1, <2>4, <3>1, <3>3
            <4>2. missed'[Len(missed)] = missed[Len(missed)]
                BY <2>1, <2>3, <4>1
            <4> QED BY <3>3, <4>1, <4>2 DEF SavedBefore, WakeInv
        <3> QED BY <3>2, <3>3
    <2>7. CASE reviewer' = [reviewer EXCEPT !.at = "tell", !.result = H!Observed,
                                  !.notify = H!Notifies(wake.condition, H!Observed)]
        <3>1. DOMAIN reviewer' = RunFields /\ reviewer'.result = H!Observed
              /\ reviewer'.notify = H!Notifies(wake.condition, H!Observed)
            BY <1>1, <2>7 DEF RunFields
        <3>2. H!Notifies(SavedBefore, reviewer.result)' = H!Notifies(wake.condition, H!Observed)
            BY <2>6, <3>1 DEF H!Notifies, H!changed, H!Blocking
        <3> QED BY <2>4, <2>5, <3>1, <3>2 DEF WakeInv
    <2>8. CASE reviewer' = H!Idle
        <3>1. DOMAIN reviewer' = RunFields /\ reviewer'.at # "tell"
            BY <2>8 DEF H!Idle, RunFields
        <3> QED BY <2>4, <2>5, <3>1 DEF WakeInv
    <2> QED BY <2>7, <2>8 DEF H!SaveWake
<1> QED BY <1>2, <1>3 DEF H!SaveWake

\* The automation hears the condition.
LEMMA WakeTold == WakeInv /\ H!Tell => WakeInv'
<1> SUFFICES ASSUME WakeInv, H!Tell PROVE WakeInv'
    OBVIOUS
<1>1. /\ reviewer.at = "tell" /\ told' = reviewer.result /\ missed' = << >>
      /\ reviewer' = H!Idle /\ wake' = wake
    BY DEF H!Tell
<1>2. wake.condition = reviewer.result
    BY <1>1 DEF WakeInv
<1>3. DOMAIN reviewer' = RunFields /\ reviewer'.at # "tell"
    BY <1>1 DEF H!Idle, RunFields
<1>4. IsList(<< >>)
    BY DEF IsList
<1>5. IsList(missed')
    BY <1>1, <1>4 DEF IsList
<1> QED BY <1>1, <1>2, <1>3, <1>5 DEF WakeInv

\* wake.json holds the last condition saved, and what a wake tells was compared with it.
THEOREM WakeInvariant == H!Spec => []WakeInv
<1>1. H!Init => WakeInv
    <2> SUFFICES ASSUME H!Init PROVE WakeInv
        OBVIOUS
    <2>1. missed = << >> /\ wake.condition = H!Silence /\ told = H!Silence /\ reviewer = H!Idle
        BY DEF H!Init
    <2>2. DOMAIN reviewer = RunFields /\ reviewer.at # "tell"
        BY <2>1 DEF H!Idle, RunFields
    <2>3. IsList(<< >>)
        BY DEF IsList
    <2> QED BY <2>1, <2>2, <2>3 DEF WakeInv
<1>2. WakeInv /\ [H!Next]_H!vars => WakeInv'
    <2> SUFFICES ASSUME WakeInv, [H!Next]_H!vars PROVE WakeInv'
        OBVIOUS
    <2>1. DOMAIN reviewer = RunFields
        BY DEF WakeInv
    <2>2. CASE \/ \E action \in scenario.actions, head \in Heads, now \in 0 .. clock :
                     H!Start(action, head, now)
               \/ H!ReadPull \/ H!ReadComments \/ H!ReadCi \/ H!Act \/ H!RecheckPull \/ H!RecheckComments
               \/ H!Send \/ H!Sent \/ H!ReadFails \/ H!Dies
        <3>1. UNCHANGED <<wake, told, missed>>
            BY <2>2 DEF H!Start, H!ReadPull, H!ReadComments, H!ReadCi, H!Act, H!RecheckPull,
                H!RecheckComments, H!Send, H!Sent, H!ReadFails, H!Dies
        <3> QED BY <2>1, <2>2, <3>1, CommandLeads, TellsNothing
    <2>3. CASE H!SaveWake \/ H!Tell
        BY <2>3, WakeSaved, WakeTold
    <2>4. CASE \/ \E r \in sending : H!Arrives(r)
               \/ H!Tick \/ H!Push \/ H!Review \/ H!Build
               \/ \E by \in {"caller", "other"} : H!Ask(by)
               \/ UNCHANGED H!vars
        <3>1. UNCHANGED <<wake, told, missed, reviewer>>
            BY <2>4 DEF H!Arrives, H!Tick, H!Push, H!Review, H!Build, H!Ask, H!vars
        <3> QED BY <3>1 DEF WakeInv, IsList, SavedBefore, H!Notifies, H!changed, H!Blocking
    <2> QED BY <2>2, <2>3, <2>4 DEF H!Next
<1> QED BY <1>1, <1>2, PTL DEF H!Spec

\* A wake tells what is new.
LEMMA TellsNew == WakeInv => H!WakesTellTransitions
<1> SUFFICES ASSUME WakeInv, reviewer.at = "tell", told' = reviewer.result
             PROVE  /\ reviewer.notify => \/ told # reviewer.result
                                     \/ \E i \in DOMAIN missed : missed[i] # reviewer.result
                    /\ ~reviewer.notify /\ Len(missed) = 1 =>
                          told = reviewer.result
                              \/ (reviewer.result.kind = "waiting" /\ told.kind \notin H!Blocking)
    BY DEF H!WakesTellTransitions
<1>1. /\ reviewer.notify = H!Notifies(SavedBefore, reviewer.result) /\ missed # << >>
      /\ IsList(missed)
    BY DEF WakeInv
<1>2. H!Notifies(SavedBefore, reviewer.result) => SavedBefore # reviewer.result
    BY DEF H!Notifies, H!changed, H!Blocking
<1>3. SavedBefore = told \/ SavedBefore \in {missed[i] : i \in DOMAIN missed}
    <2>1. Len(missed) \in Nat \ {0} /\ DOMAIN missed = 1 .. Len(missed)
        BY <1>1, ListTail
    <2>2. Len(missed) # 1 => Len(missed) - 1 \in DOMAIN missed
        BY <2>1
    <2> QED BY <2>2 DEF SavedBefore
<1>4. Len(missed) = 1 => SavedBefore = told
    BY DEF SavedBefore
<1>5. ~H!Notifies(SavedBefore, reviewer.result) =>
          SavedBefore = reviewer.result \/ (reviewer.result.kind = "waiting" /\ SavedBefore.kind \notin H!Blocking)
    BY DEF H!Notifies, H!changed
<1> QED BY <1>1, <1>2, <1>3, <1>4, <1>5

\* No wake repeats what was heard, and its silence means that nothing is new.
THEOREM WakesAlwaysTell == H!Spec => WakesTellTransitions
    BY WakeInvariant, TellsNew, PTL DEF WakesTellTransitions
=============================================================================
