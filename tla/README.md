# Verification of the core programs of this repository

The repository is a monorepo of independent programs. This directory holds TLA+ models of
the ones that carry logic of their own, TLC configurations that check the models, and
TLAPS proofs:

- `prediction_bot`, a Discord bot with which the members of a server (a guild) bet granted
  points on the outcomes of markets: an event-sourced economy in PostgreSQL, concurrent
  Discord handlers, a grant worker and an outbox of announcements;
- `hearthstone_simulator`, a rules engine for a card game with a suspendable resolution
  stack and checkpoints;
- `book_smartz`, a web application in which readers rank books, with append-only
  histories, private profiles, a rate-limited catalog and a diagnostics queue;
- three command line tools that talk to GitHub (`tools/ticket_publication`,
  `tools/hosted_review`, `tools/merge_verification`);
- the calculation graphs of `kafka_calculator`.

The programs share no state, so no module composes two of them. Paths below are relative
to the program's directory. `PROJECT.json` has the components with their status, the map
from definitions to source lines, the runs, the mutants and the hazards with the
properties that cover them.

## Inventory

### prediction_bot (`prediction_bot/lib/src`, `prediction_bot/bin/src`)

| Component | State | Operations | Hard behaviours |
|---|---|---|---|
| Domain rules, `domain.rs` | policy, accounts, markets of a guild | `decide_*` (command to events), `apply_*` (event to state), `replay` | integer shares and intervals, i64 limits, long command sequences |
| Event store, `store.rs` | tables `prediction_events`, `prediction_commands`; published views | `execute`, `transact`, `load`, `publish`, `view` | duplicate deliveries, awaiting between two receipt checks, retries, lost COMMIT, crash before publishing |
| Grant worker, `store.rs`, `discord.rs` | the grants a pass found | find due grants in a view, execute them | stale views, a clock set back |
| Membership lookup, `discord/resolvers.rs` | none | evidence for a settlement or a new resolver | evidence is older than the lock |
| Announcement settings and outbox, `announcements/persistence.rs` | destination, version, pause; rows pending, delivered, discarded | `enqueue`, `configure_announcements`, `next_due`, `still_eligible`, `finish_attempt` | configuration changes while a message is under way |
| Announcement worker, `announcements/worker.rs` | attempts of a batch | discover, check, send, record; shutdown | timeouts with late posts, aborts, fairness between guilds |
| Interactions, `discord.rs`, `discord/transport.rs` | tasks, replies, forms | acknowledge, make content, edit | redelivery, calls that fail after they took effect |
| Guided flows, `discord/*`, `discord_ui.rs` | component ids of messages | pickers, pages, confirmations | controls pressed late, twice or by others |
| Gateway lifecycle, `discord.rs`, `bin/src` | gateway lock, worker tasks, pool, deadline | start, supervise, shut down | two processes, a lost session, a full pool, hanging tasks |

Handlers and the grant worker call `Store::execute`, which calls the pure domain rules
inside a transaction under the guild's advisory lock; `transact` calls `enqueue` in the
same transaction; administrators change the settings through `configure_announcements`,
which writes an event and a receipt to the same tables under the same lock; the
announcement worker shares only the database with the rest. It is correct when points
are conserved and every market can be settled, a guild's history always loads, every
commit is one command decided against everything before it, acknowledged commands are
durable and visible, every due grant is made once, announcements appear in order and
under the configuration in force, a stake is taken once however often it is confirmed,
and a shutdown ends with nothing left writing.

### hearthstone_simulator (`core`, `simulator`)

| Component | State | Operations | Hard behaviours |
|---|---|---|---|
| World, `zone.rs`, `weapon.rs`, `death.rs`, `enchantment.rs`, `aura.rs` | entities, zone index, attachments, derived keywords and costs, pending deaths | move, spawn, copy, transform, equip, attach, refresh | derived state that must be recomputed, capacities, replacement scopes |
| Resolution, `resolver.rs`, `simulation_event_resolver.rs`, `simulation_effect_executor.rs`, `simulation_health.rs`, `trigger.rs` | operation stack, prepared events, slots, scopes, budget, pending choice | pop and execute an operation; raise events; run effects | nested triggers, failure in the middle, suspension |
| Actions, `simulation_action*.rs`, `simulation.rs` | whose turn, status | play, attack, hero power, end turn, choose | legality, turn order, abandonment |
| Checkpoints, `simulation_checkpoint.rs` | the serialized world | save, restore | references of a suspended sequence |

### book_smartz (`domain`, `storage`, `web`)

| Component | State | Operations | Hard behaviours |
|---|---|---|---|
| Ranking domain, `domain/*` | ranking and one placement, from events | start, answer, skip, replay | bounds of the binary search |
| Ranking actions, `web/actions.rs`, `storage/*` | two append-only histories per reader | offer, submit, execute, check | requests that race for one action, stale preparations, lost commits |
| Profile, `web/profile*`, `web/identity.rs` | profile, submissions, drafts, sessions | save, check, recover, sign in and out | a check that overtakes the save, two accounts in one browser |
| Catalog, `web/catalog*` | admission tables, metadata cache | search, look up | shared limits, concurrent writers of one row |
| Diagnostics, `web/diagnostics.rs` | bounded queue, counters | record, deliver, summarize, shut down | counting losses while they are reported, a deadline |

### Tools and kafka_calculator

| Component | State | Operations | Hard behaviours |
|---|---|---|---|
| `ticket_publication` | batch file, issues on GitHub | prepare, publish, authorize-retry, adopt, reconstruct | creations whose answer is lost, interruption anywhere |
| `hosted_review` | request file, wake file, comments | request, poll, track, wake | late comments, commands that die |
| `merge_verification` | receipts | before, after | reads interleaved with pushes, builds, merges |
| `kafka_calculator/core` | a graph definition | validate | cycles, shared and repeated operands, order of the checks |

## Modules

| Module | Role |
|---|---|
| `Domain` | decision rules and event application of `domain.rs` as operators |
| `Economy` | what the bot promises of one guild: commands take effect one at a time (the abstract specification) |
| `DomainProofs` | lemmas about the operators of `Domain`, shared by the two proof modules about the guild |
| `EconomyProofs` | theorems about `Economy` |
| `EventStore` | `execute_inner`, `transact`, `load`, `publish`, `grant_due`, `configure_announcements`; implements `Economy` |
| `EventStoreProofs` | theorems about `EventStore` |
| `Announcements` | settings, outbox and delivery worker |
| `AnnouncementsProofs` | theorems about `Announcements` |
| `Panels` | the controls on the messages of the guided flows |
| `Interactions` | a delivery from acknowledgement to edited reply, over `Panels` and `Domain` |
| `InteractionsProofs` | theorems about `Interactions` |
| `Gateway` | processes, gateway lock, workers, pool and shutdown |
| `HsWorld`, `HsResolve`, `HsEffects`, `HsSimulation`, `HsCheckpoint` | the simulator's world, resolution engine, effects, actions and checkpoint checks as operators on a world |
| `HsCards` | how cards are written down |
| `Hearthstone` | the game as a state machine: one step per operation of the driver |
| `Ranking`, `RankingActions` | the ranking domain; the web's ranking actions over it |
| `AlgorithmProofs` | theorems about `RankingActions`, the search of `Ranking` and, through `Calculation`, the calculator |
| `Profile`, `Catalog`, `Diagnostics` | three parts of the `book_smartz` web process |
| `BookWeb` | the three of them side by side, their assumptions and what holds of each |
| `BookWebProofs` | theorems about the three, through `BookWeb` |
| `Publication`, `HostedReview`, `MergeVerification` | the tools that talk to GitHub |
| `Tools` | the three of them side by side, their assumptions and what holds of each |
| `ProtocolProofs` | theorems about `Gateway` and, through `Tools`, about the tools |
| `CalculationGraph`, `Calculation` | the calculator; what holds of it, beside other programs |
| `MC…` | instances for TLC |

**Domain.** A `Decide…` operator yields the empty set where the code returns an error and
otherwise the singleton of the event sequence. `Apply` yields `Invalid` where `apply_inner`
returns an error. `finish` applies the decided events to a copy of the state, so `Finish`
accepts a decision only when `ApplyDecision` is valid. Maps are functions on the keys they
hold. Bets are kept as the amount per member and outcome, since the code only reads their
sums, and an allocation maps each member to an amount, 0 standing for no entry. `I64Max`
stands for `i64::MAX`. Texts are left out, except for the number of options.

**Economy.** One action per command. Every command reads any clock value. `Join` takes the
policy of the process that decides it (`GRANT_AMOUNT`, `GRANT_INTERVAL_SECONDS`), which is any
policy: a process may be restarted with another one, and a COMMIT that was left to the server
may land after the restart. The guild keeps the policy it was initialized with. `enrolled_at`
and `granted` are history variables.

**EventStore.** One guild. `task[t].pc` follows `execute_inner`: preflight receipt check,
membership lookup, lock, second receipt check, transaction, commit, publish. A transaction
is atomic at COMMIT; its reads and inserts up to there are one step since it holds the
lock and nobody else writes. Faults: a transient error (retried at most twice), a lost
connection (a COMMIT under way is left to the server, which may finish or abort it while
it still holds the lock) and a crash of the process. `guild` is a history variable with
the projection of the committed rows. Announcement changes differ as in the code: no
retry, no replay, no publication; disabling has no preflight check, and a destination may
be rejected before the lock. The verification error of `execute_inner` is not modelled:
no caller in the program produces one.

**Announcements.** Transactions are one step each (they take the guild lock); the worker's
reads, its request and its recording are separate steps, so settings change between any
two. Discord may post and answer, refuse (to be retried, or pausing the guild), or leave
the request unanswered, posted at once, later or never. One attempt per guild is under way
at a time because the worker awaits its whole batch.

**Panels and Interactions.** A control is the custom id of a button, or of a menu with the
value chosen from it; a panel is the set of its controls. Every control that was ever
shown can be pressed at any time, by anybody who sees it. A task acknowledges, makes its
content from the current view or by a command, and edits the reply; each call may fail
before or after it took effect, and Discord may deliver an interaction again. The store is
the serial one that `EventStore` shows the real one to be. A behaviour starts with one
opened flow; when that opening is refused, its reply has no controls.

**Gateway.** What a task computes is in the modules above; here it is the connections and
locks it holds. A process starts, takes the advisory lock on a connection of its own, runs
client and workers, and shuts down under one deadline; it may die at any time, and the
database may drop the guard's session without telling it. The tasks are the grant worker,
the handlers, and one attempt per guild of the batch that the announcement worker has
spawned (up to `BatchSize`, 8 in the code). Each begins a transaction on a connection of
the pool and waits for a guild's lock with it in hand: `transact` for any guild,
`finish_attempt` for its own. `batch` has the attempts that have not ended; the next
batch waits for all of them. Reads that hold a connection but no lock (`next_due`,
`still_eligible`, the discovery of grants) are left out: they end by themselves, like
`reading`. An aborted task is gone at once, but the session of its transaction is not: it may still
get its lock, and ends later (`SessionEnds`), rolled back or with the COMMIT that was under way,
as in `EventStore`. So `WorkersWithinGuard` is about tasks, not about such a COMMIT: the comment at
`discord.rs:1723` ("so their database writes cannot outlive the lock") holds for writes
that are still to be sent, while a COMMIT sent before the abort may take effect after
`guard.close`; the guild's lock still orders it before the commits of a second process.
`"overdue"` is the phase after the deadline; the gateway, then given up on, counts as closed, and
handlers run on to the end of the process.

**Hearthstone.** A function that takes the ECS world by `&mut` is an operator from a world
to a world; one that returns `Err` leaves its reason in `w.err` and what it had changed in
place, as `?` does. `Submit` and `Choose` are the public calls; `Resolve` pops one operation,
so the properties see every world in between. The random generator is a choice over what
its number selects. A checkpoint holds the whole world, which the model's world already is,
so only the acceptance of a checkpoint is modelled. A copy that waits on the stack has the
policy (with its state in play, or as the card it is now) that was captured when the effect ran.
The driver recomputes it from the zone its source is in by then (`dispatch_copy`), while
restoration refuses a policy that no longer fits (`ValidCopy`); see `CheckpointRestores`
under *Finding*.

**RankingActions, Profile.** A transaction locks the reader's row from its first read to its
commit and is one step; its commit may be lost, durable or not. One request runs several
transactions with other requests between them. In `Profile` one browser with tabs and a
back button can send any page again.

**Catalog, Diagnostics.** Time is a counter; the intervals are constants. `evicted` is a
history variable: whether the work a request had read has left the cache since, so that its
row may be a new one, which has nothing to keep. `Diagnostics`
keeps every sender's steps, the worker's steps and the steps of the shutdown apart, with
`fate` counting what became of the records.

**Publication, HostedReview, MergeVerification.** Every call to GitHub and every save is a
step. A lost answer leaves the request in flight, and it may take effect later. Locks of
the state directories admit one command at a time. `vouched` in `MergeVerification` is a
history variable with the gates (one per required context, and one for each of the other
reads) that have been open for a head. Checks and statuses are two reads, and what
published the one may start again before the other is read, so that no single moment need
have had both: what a receipt stands for is that every gate was open once.

**CalculationGraph.** The passes over the declarations are one action each; the depth-first
search, the sort, the type resolution and the reachability search take one action per turn
of their loops. Nothing evaluates a graph yet, so validation is all there is to model.

Operators marked *Mutant* are deliberately wrong variants of the definition that follows
them. They are no part of a specification; each shows that a property notices that mistake.

## Runs

Parts that share no state are checked in one run: a behaviour chooses its scenario (or
surface) at the start, the variables of the others rest, and the state spaces add up.

| Run | Instance | Shows |
|---|---|---|
| `guild` | three scenarios: a market with two members, a moderator, a bot and `I64Max` = 12; grants at clock readings 0, 1, 2, 4, 7 under two policies; three members with 4 points, stakes of 1 and 3 | `PointsConserved`, `OpenMarketsSettle`, `GrantsMatchSchedule`, `GrantsCatchUp`, `PayoutsAreFairest` |
| `store` | two handlers, five requests, one of them with a stolen key, one fault | `WritersNeverCollide`, `ReadYourWrites` |
| `store_refines` | two submissions that spend everything with one fault, the process restarted under either of two policies; or a resolver added, removed and settling with one clock change | `ImplementsEconomy` |
| `store_grants` | one member, the grant worker, three clock changes, one fault | `GrantsArrive`, `RequestsAnswered` |
| `announcements` | two scenarios: two guilds and batches of one, a fault and a clock set back; one guild with two channels, two changes of settings, three events and two faults | `AnnouncedAsRecorded`, `FormerSettingsAreGone`, `EventuallyAnnounced` |
| `interactions` | seven starting points (bet, browse, settle, add, remove, inspect, create), three markets, pages of one | `StakeTakenOnce`, `NoEffectUnacknowledged`, `RecordedIsNeverRejected`, `PickersReachEverything` |
| `gateway` | two processes with pools of four, one of them with a handler, batches of two attempts and a session that may be lost; two guilds | `WorkersWithinGuard`, `PoolMakesProgress`, `ShutdownEnds` |
| `hearthstone` | six games of up to four actions | `CheckpointRestores`, `ZonesConsistent`, `NothingLeftOver`, `ResolutionEnds` |
| `hearthstone_shield` | a minion with a Divine Shield, a ping, an enchanting spell | violates `SpentShieldStaysSpent` |
| `book_smartz` | two readers, two request slots, two actions, one direct command, one fault | `RankingFollowsAnswers`, `ActionsDecidedOnce`, `RepliesStayTrue`, `RequestsEnd` |
| `book_web` | profile: two accounts, three pages, two logins; catalog: two readers, two works, three requests; diagnostics: a queue of two, five records | `ToldStaysTrue`, `SavesAreSerial`, `DraftsStayPrivate`, `AdmissionsWithinLimits`, `MetadataSurvives`, `RecordsAccountedFor` |
| `tools` | publication: two tickets, two faults; review: two heads, three clock readings; merge: two heads, two files, two commands, three moves; graph: about 5000 definitions | `NoUnauthorizedDuplicates`, `OutcomeIsHonest`, `RequestsSpaced`, `WakesTellTransitions`, `MergedIsReviewed`, `VerdictIsRight` |

**Bounds.** `I64Max` 12 lets balances and pools meet the limit exactly with two grants of 6
and exceed it with more, so overflow checks do refuse commands. Irregular clock readings
make grants cover none, one or several intervals, and be made early. Stakes of 1 and 3 by
three members yield equal and different fractions with one or two points left over. Two
handlers give the races of two deliveries of a key; one fault is placed at every point of
every interleaving, and a crash followed by deliveries of the same keys exercises recovery.
Two faults of the outbox allow a timeout followed by a crash. Pages of one market make
three markets three pages. A pool of four is one connection for the guard and three for
four tasks (grants, an interaction, two attempts), fewer than the tasks that want one. `Busy` and
`Losing` name the process that has interactions and announcements and the one whose session
the database may drop; the other process has grants only, starts and stops at any time, and
meets the first one's handlers and abandoned sessions at the locks of both guilds. The
theorems have no such bounds. The zone limits of the games (3 on the
board, 4 in hand and deck, 1 secret) are reached; `Budget` 60 is exhausted by a game whose
triggers feed each other. Two request slots and a direct command are the three actors that
can meet at one reader's histories. A cache of one work makes every second one evict. Two
in-flight troubles of the tools are a lost answer and a death. The graphs are all sums
over four nodes, a typed graph for every operation and pair of types, and one definition
per defect. `Max…` constants only cap counters. Deadlock is not checked: with all bounds
used up the systems rest. Symmetry of the handler tasks is used in safety and refinement
runs of the store only.

**Fairness.** `EventStore`: tasks of the runtime keep running (weak fairness of a worker's
own steps); PostgreSQL queues waiters for an advisory lock, so a waiter is served in turn
(strong fairness of `Lock`); the server ends an abandoned session; and `grant_worker` runs
`grant_due` every minute. Nothing is assumed of deliveries, faults and the clock.
`Announcements`: the worker polls every second, its tasks run, a request ends by its
timeout, time passes, the grace period ends, and the operator restarts a stopped process.
`Answer` is fair as a whole: nothing forces Discord to succeed, but the instance has
finitely many faults. The instance's clock stops at its last reading, so a retry later than
that counts as blocked in `EventuallyAnnounced`. `Gateway`: `main` goes on
and its timers fire; no worker is assumed to stop by itself, and neither Discord nor the
database to answer. `Hearthstone`: the driver loop of a call runs on
(`DriverRuns`). `RankingActions`: a request's task keeps running (`FairSpec`, which the run
uses; the theorems are about `Spec`, without fairness). Where a fairness condition
is written with its `ENABLED` spelled out, a comment says so.

## Finding

`hearthstone_shield`: `damage_passes_protection` (`simulator/simulation_health.rs:148`) takes
`DivineShield` out of the derived `Keywords` only. `recalculate_keywords`
(`simulator/enchantment.rs:71`) rebuilds them from `BaseKeywords` and the attached modifiers
whenever an enchantment comes or goes, so a spent printed shield returns. The test
`damage_handles_missing_targets_immunity_shields_armor_and_negative_values` asserts that
it is gone after absorbing damage; for Stealth the code attaches an ordered removal
because that "survives recalculation".

A second disagreement is part of what `CheckpointRestores` says. A game of the `hearthstone` run
(`Copies`) has a minion that recalls itself and then offers a choice while its own
copy waits on the stack. The driver would go on: it takes the policy of the copy from live state
(`simulator/simulation_event_resolver.rs:217-229`; the test
`copy_operations_use_the_sources_current_zone_after_nested_work` asserts that). But a
checkpoint taken at the choice has the policy that was captured when the effect ran, and
restoration refuses it with `Invariant` (`simulator/simulation_effect_executor.rs:1483-1495`), and `fork`,
which restores a checkpoint, with it. `DESIGN.md:657` says of a suspended choice that checkpoint and
restoration "preserve these values directly", and README.md:17 lists suspended-choice
restoration and checkpoint-exact forks. `CheckpointRestores` states exactly this: a paused
world with the policies its driver would use is restored, and the world as it is is
restored if and only if none of its policies is stale.

## Proofs

Every theorem is about the specification without fairness, for all constants that satisfy
the named assumptions of its module: TLC shows the property on a small instance, the
theorem for any number of tasks, requests, faults, processes, readers and events. The
argument is always the same three facts: `Init => IInv`, `IInv /\ [Next]_vars => IInv'`
(one step per action) and `IInv` implies the property. TLC checked each `IInv` before it
was proved.

| Proof module | Theorem | States |
|---|---|---|
| `EconomyProofs` | `EconomyInvariant`, `EconomyTypeOK` | no balance, pool or due time leaves i64 |
| | `GrantsFollowSchedule` | `GrantsMatchSchedule` |
| | `GrantsAlwaysCatchUp` | `GrantsCatchUp` (action property) |
| | `LedgerInvariant` | the books: stakes add up to pools, only members have stakes |
| | `PointsAreConserved` | `PointsConserved` |
| | `PayoutsAlwaysFairest` | `PayoutsAreFairest` |
| | `MarketsAlwaysSettle` | `OpenMarketsSettle` |
| `EventStoreProofs` | `StoreInvariant` | its `IInv` |
| | `WritersSerialized` | `WritersNeverCollide` |
| | `WritesAreRead` | `ReadYourWrites` |
| | `StoreImplementsEconomy` | `ImplementsEconomy` (the refinement) |
| `AnnouncementsProofs` | `TypeCorrect` | settings, outbox, attempts, late requests and posts keep their types |
| | `FormerSettingsGone` | `FormerSettingsAreGone` |
| | `Announced` | `AnnouncedAsRecorded` |
| `InteractionsProofs` | `InteractionInvariant` | its `IInv` |
| | `StakesTakenOnce` | `StakeTakenOnce` |
| | `EffectsAcknowledged` | `NoEffectUnacknowledged` |
| | `RecordedNeverRejected` | `RecordedIsNeverRejected` (action property) |
| | `PickersAlwaysReach` | `PickersReachEverything` |
| `ProtocolProofs` | `GatewayInvariant` | its `IInv` |
| | `WorkersGuarded` | `WorkersWithinGuard` |
| | `PoolGoesOn` | `PoolMakesProgress` |
| | `MergeInvariant` | the `MergeInv` of the merge verification |
| | `MergedAlwaysReviewed` | `MergedIsReviewed` |
| | `PublicationInvariant` | the `PublicationInv` of the publication |
| | `NeverDuplicated` | `NoUnauthorizedDuplicates` |
| | `OutcomeAlwaysHonest` | `OutcomeIsHonest` (action property) |
| | `ReviewInvariant` | the `ReviewSound` of the hosted review |
| | `RequestsAlwaysSpaced` | `RequestsSpaced` |
| | `WakesAlwaysTell` | `WakesTellTransitions` (action property) |
| `AlgorithmProofs` | `ActionInvariant` | its `IInv` |
| | `DecidedOnceAlways` | `ActionsDecidedOnce` |
| | `RepliesTrueAlways` | `RepliesStayTrue` |
| | `FollowsAnswersAlways` | `RankingFollowsAnswers` |
| | `CalculationInvariant` | the `GraphInv` of the calculation graphs |
| | `VerdictAlwaysRight` | `VerdictIsRight` |
| `BookWebProofs` | `ProfileInvariant` | its `IInv` |
| | `ToldAlwaysTrue` | `ToldStaysTrue` |
| | `SavesAlwaysSerial` | `SavesAreSerial` |
| | `DraftsAlwaysPrivate` | `DraftsStayPrivate` |
| | `AdmissionsAlwaysWithinLimits` | `AdmissionsWithinLimits` |
| | `MetadataAlwaysSurvives` | `MetadataSurvives` (action property) |
| | `RecordsAlwaysAccountedFor` | `RecordsAccountedFor` |

**DomainProofs.** What the rules return and preserve, for every state and event. An accepted
decision passed the checks of each of its events (`FinishNone` to `FinishThree`); each
event keeps the types (the `…Typed` lemmas, from the `Can…` checks of `apply_inner`); a
grant multiplies out the covered intervals (`GrantArithmetic`). `Replay` is a recursive
function over a history. That it unfolds at every length (`ReplayProjects`), depends only on
the events (`ReplaySame`) and replays a decision to `ApplyDecision` of what was before it
(`ReplayDecision`) is proved without an induction scheme: the lengths at which such a fact
fails have a least element (`LeastNumber`), whose predecessor contradicts it.

The laws of sums over a finite set (`SumRemove`, `SumPlus`, `SumScale`, `SumMonotone`, `SumChange`,
`SumCounts`) are proved the same way, with a smallest set at which the law fails
(`SmallestSet`), after `SumsExist` has shown that the recursive function behind
`SumFunctionOnSet` exists. On them rest the ledger of a state, what each event does to it
(`Books` and the `…Books` lemmas), and the division of a pool. There `Remainder` shows that the
floors of the shares leave no more points than there are winners, `FirstOnes` that exactly
as many winners stand in front of the line as points are left, `DividedInFull` that the
shares add up to the pool and none is below its stake, and `ExtraLargest` that who gets one
of the points left over has no smaller fraction than who does not.

**EconomyProofs** assumes finitely many users, which are positive numbers, positive policies
and representable times. `IInv` is `TypeOK`, `NothingBeforeJoining` (who is not enrolled was
granted nothing) and `GrantsMatchSchedule`. The schedule alone is not inductive: joining
starts a schedule with the initial grant, which is right only if nothing was granted before,
and the products need the types. A join creates the account on schedule (`JoinStep`), a
grant extends it (`ScheduleExtends`, `GrantStep`), and every other command leaves policy,
members and due times alone (`CommitFrame`). The ledger is a second invariant on top of it:
`PointsConserved` alone is not inductive, because a refund pays the stakes while the ledger
counts the pool, so `InOrder` adds that the stakes of every market sum up to its pool. Fair
payouts and settlements then follow from the books of one state (`FairFromBooks`,
`SettlesFromBooks`): moving a point between two winners changes the squared distance by twice
`W * (W - miss(u) + miss(v))`, where `W` is the winners' stake, which is not negative because of
`ExtraLargest` (`Exchange`, `DividedFairest`); a payout or refund is at most the pool, and a
balance and a pool together at most what was granted, so no credit overflows
(`PoolCreditable`).

**EventStoreProofs** assumes of the requests that an interaction comes from a Discord member
and that a key asks for the announcement settings always or never, as keys are made from
one interaction or one submission. A history that loads says nothing about the transaction
that is about to extend it, so `IInv` adds: the lock has one holder, the task past
`lock_guild` or the session whose client is gone (`LockExcludes`); the writes of a
transaction that has decided, and the ones left to the server, continue the history with the
next revisions, a free receipt, enrollments with their initial grants, and events that
domain replay accepts (`Fits`, `OrphanFits`); every view in a task or in the cache is the
replay of a committed prefix (`PrefixView`); and who is about to report success has found or
written the receipt, with a view at least as new (`ReceiptFound`). `Fits` is established
when a transaction decides, because `Replay` of the rows it loaded is the state its decision
was checked against; it survives the other tasks' steps because only the holder of the lock
commits; and a COMMIT turns it into a longer history that loads.

The refinement rests on a second invariant, `RInv`. `Projected` says that `guild`, the state
`Economy` would be in, is the projection of the rows: their replay, and per member the sums of
what enrollments and grants record, 0 for who is no member (a member enrolls once, so that the
sum over its enrollments is the one enrollment). `Prepared` and `Decided` say that the writes of
a transaction that has decided, or was left to the server, are a command `Economy` has against
`guild` at their time of acceptance, or change the announcements only. `Transact` establishes
it, since what it replays under the lock is `guild`; a COMMIT needs it, and leaves no other
transaction to disturb (`CommitTxRefines`, `OrphanCommitRefines`). The rest is arithmetic over
the rows (`TotalAdds`, `JoinTotals`) and that `Economy`'s instance of `Domain` is `Domain`
(`SameApply` and its neighbours). Every other step stutters (`NextRefines`).

**AnnouncementsProofs** holds for any guilds, channels, finite set of clock readings, batch
limit and bounds. Its `IInv` adds to the types three facts that neither property implies. An
attempt was never found under a later configuration version, and one found under the current
version found the announcements enabled (`AttemptOfSettings`): so a failure that
`Applicable` lets through pauses enabled settings of its own version. A message that was
posted, is under way or may still arrive late is not newer than any pending row, nor than
the last event, and a welcome names its channel (`Accords`): the check before sending
establishes it (`EligibleAccords`), transactions keep it because rows only leave the pending
state and new rows are newer (`RowsEvolve`). And a row recorded, or about to be recorded, as
delivered was posted. Then a message that is posted finds every older row delivered, hence
posted before it, or discarded (`ToldPost`), and the first posts are in order. Deadlines have
the type "a natural number or a value of `RetryAt`", since the prover knows nothing of
exponents.

**InteractionsProofs** assumes of the enumerated commands only that each opens a flow or
writes, as slash commands do. That a stake is taken once follows from its receipt, but that
every confirmation of one stake carries one key is a fact about all messages ever shown:
`Controlled` says that every control on them is one some handler reads, and that one with
the key of a stake was made for the form that was submitted, for its own member. It is
proved once per panel of `Panels`. `Recorded` and `Handled` tie effects, receipts and the
content of the tasks together, so that a second click recovers the receipt before the market
is looked at. `PickersReachEverything` rests on ranks: in a finite, totally ordered set the
entries with fewer than *k* ahead of them are *k* in number (`FirstOnes`, shared with the
payouts), so a page, the ranks between two multiples of `PageSize`, has between one and
`PageSize` entries up to the last page, and every rank falls on one (`PagesPartition`); the
two orders of the menus, by identifier and by closing time, are such orders. It needs one
more invariant, `Listable`: the committed markets are numbered and have a closing time,
whatever members have entered meanwhile. For that the guilds the runs start from are assumed
to be states of the domain (`GuildsAssumption`) and stakes and durations numbers
(`AmountsAssumption`), and a market is created only while an identifier is free, the bound
that stands for identifiers that never run out.

**ProtocolProofs**, the gateway: it assumes finitely many handlers and guilds, told apart, and a pool of
at least two connections, for any batch size. `IInv` says that `main` holds the guard exactly in the phases between
`gateway_guard` and `guard.close`, that the process that believes so is the holder in the
database until a session is dropped, that workers live between spawning and `join!` and
attempts within their worker, and that a guild's lock belongs to exactly the session that is
in a transaction of that guild, abandoned or not. The last is what `PoolGoesOn` needs:
whoever waits for a lock with a connection in hand waits for a session that needs
nothing more. That a transaction gives its connection back before the view is refreshed
keeps tasks that need a second connection from holding a first.

**ProtocolProofs**, the merge verification: it assumes that there is a head. `MergeInv` says of
each place of a command what its reads so far have established: the gates they found open
are vouched for (`BeforeReads`), the pull request is merged at the receipt's head, its changes
are the receipt's files and the merge commit holds them (`AfterReads`); and of each receipt
that passed that it stands for all of it (`ReceiptSound`). `OpenIsVouched` ties `vouched` to what CI
and the reviewers have published. The property alone is not inductive: it speaks of `after`,
whose gates are what a receipt of `before`, perhaps long ago, was given for.

**ProtocolProofs**, the publication: it assumes a plan that is a list and has no cycle (of any
set of tickets without all of the plan, some ticket outside has its blockers in the set, which is
what `plan.rs` checks). The properties speak of issues on GitHub; the code decides on a
batch file that may be behind them. `Counted` has every issue and every request in flight
as a request made, and `Credited` bounds the requests made together with those the saved batch
still permits without a word from the operator: a ticket saved as pending or authorized,
or the creation that is about to be sent, for which `creating` was saved first. That a
pending ticket was never asked for (`Fresh`) is what lets a publication with such tickets
call itself partial; that a mapped one names an issue with its own marker (`StatusSound`) and that nothing is
asked for before its blockers exist (`BlockersFirst`) is what the final inspection rests on. `RunSound`
carries what each pass has established to its end: at the labels and after them all links are
there, unless someone edited them meanwhile (`Whole`).

**ProtocolProofs**, the hosted review: it assumes that there is a head and that the timeout is a
natural number. The property is about when comments were created on GitHub; the command
decides on times in `state.json`. `EntriesSound` says that a saved request with a known comment
has its time, `PostedSound` that a posted one is no older than its saved intent, was posted once
and only after the comments of the requests before it, and `LostSound` that one whose answer was
lost is still unconfirmed. Then `decide` keeps the saved requests for one head apart
(`EntriesSpaced`): it asks again only when the newest is confirmed and its time is more than the
timeout ago, and confirming a request later only moves it away from those before. What the
running command holds is what it saved (`ReviewerSound`), whose intent nothing has posted until
it sends it. `WakeInv` says that `wake.json` has the last condition saved and that what
is told was compared with the one before.

**AlgorithmProofs**, the ranking: it assumes that a reader's history from before the run replays and is
not the work of an action of the run. `Evidence` says that a stage of an action is recorded
at most once, after its intent; that an event in the ranking is the one its action prepared,
the only one, and not rejected; and that one action is open at a time. Every transaction of
`execute` looks at both histories again under the reader's lock, which is what makes it
inductive; `ReplySound` and `TaskSound` carry what a request has seen to what it says.
`RankingFollowsAnswers` is a statement about every history that replays: while a placement
is open, each answered opponent lies outside the bounds of the search on the side of the
answer, and inserting between the bounds keeps all orders (`Holds`, again by a least
counterexample on the length of the history).

**AlgorithmProofs**, the calculator: it assumes of a definition what the Rust types say of it
(`IsProfile`: lists are lists, a node has a kind, typed values and an expression of that kind);
`ProfilesAssumption` evaluates it on the definitions of the run. `GraphInv` says, pass by pass,
what is established. The open calls of the search form a path without repetitions, each
waiting for the next (`CallsSound`), so that a dependency found open closes a cycle of real
edges; a finished node reads finished nodes only (`MarksSound`), so that when all are finished
no set of nodes waits for itself (`Grounded`). In the sort, the in-degree of a node is the
number of its operands that the order lacks (`SortSound`), which makes `ready` the frontier and
its smallest element the one the stable order wants next; since the graph is grounded, the
frontier is empty only when all are listed. Types are then resolved from typed operands
(`TypesSound`), and whatever is reached or queued lies in every set that contains the outputs
and what its members read (`ReachSound`), so that a node never reached contributes to none.
What the walks and the heap of the code compute thus follows step by step from the
loops of the model, and no induction over graphs is needed.

**BookWebProofs**, the profile: it assumes that the absent reader is none of the readers. A save id is minted
by one page for one reader and one revision, and every page, task, draft and row that names
it agrees with that page (`PagesSound`, `RowsSound`, `DraftsSound`). A row with an outcome keeps
it, and the text a request applies is the one its row was prepared with (`TasksSound`), so
that what was told is what is recorded (`ToldSound`) although any page may be sent again
after any sign-in. `SavesAreSerial` is inductive together with them: a save is applied only
to the revision its row names, which makes the revisions of the applied saves an initial
segment.

**BookWebProofs**, the catalog: it assumes a positive interval, natural limits and finitely many
requests at a time. The limits are about every admission ever made, the code counts rows of
a table it prunes. `TableSound` says that what was pruned is older than every window still to
come and that the gate is an interval behind the last admission; then a reader's later
admissions within a window of any earlier one are those the code counted (`Limited`), and the
calls at the provider, made or still to be made, are at most the admissions (`PermitsSound`). For
the cache, `LookupSound` says that the row of a work contains what any lookup in flight has
read of it until it is evicted, although other requests merge, evict and restore that row.

**BookWebProofs**, the diagnostics: it assumes room for a record. `Balanced` accounts for every
record, in the queue, in the hands of sender and worker, written, failed, dropped or discarded;
`Told` orders the counters that summaries report. `Drains` carries the barrier: while the
process awaits it, it is the last entry of the queue, since nothing is accepted any more, so
that its acknowledgement means that the worker has delivered everything before it.

A failed proof corrected the models. Verdicts and observations of `Ranking`, `HostedReview` and
`Interactions` had been written with `CASE` where the code has a chain of conditions; where
two guards hold, `CASE` does not say which value it has, so nothing that depends on the
code's order could be proved. They are `IF` chains now, in the order of the code. And
`Economy` had one current policy, which joins recorded and a restart replaced. The proof of the
refinement failed at a COMMIT left to the server, and with two policies TLC found it false: the
join of a process that died, decided under its policy, commits after its successor has started
with another. No command is lost or doubled by that, so `Economy` was wrong, not the code: a
join carries the policy it was decided with. `MergedIsReviewed` had asked for
one moment at which all checks passed, and `MetadataSurvives` for every field ever read; neither
could be made inductive, for the two reasons given under *Modules*, and both now say what
the code does ensure.

**Only model-checked.**

- Liveness (`GrantsArrive`, `RequestsAnswered`, `EventuallyAnnounced`, `ShutdownEnds`,
  `ResolutionEnds`, `RequestsEnd`): fairness and `ENABLED` are out of the prover's reach.
- The simulator (`CheckpointRestores`, `ZonesConsistent`, `NothingLeftOver`): its programs are
  trees, walked by recursive operators, which the prover cannot reason about.

## Not modelled

Of the modelled programs: parsing and formatting (Discord options and mentions, HTML,
message texts, CloudEvent JSON, CSV), migrations, cryptography of cookies and forms, the
identity provider, several guilds in one store (guilds share nothing but the pool and the
workers, for which `Gateway` and `Announcements` have several), native
effect callbacks of the simulator (none is registered in the repository outside tests),
and read-only commands. Of the repository: `nicknamer`, `nicknamer2`, `predix` and
`mindreadr` are CRUD services or early stages whose requests are single statements;
`pinyin-composer`, the coverage tool and the web front ends transform text;
`tools/pool_receipt` wraps one child process and writes what it said to private files,
`tools/topcoat` bundles assets and formats sources during a build; samples,
test support and vendored code are not core logic.
