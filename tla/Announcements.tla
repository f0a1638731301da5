--------------------------- MODULE Announcements ---------------------------
(***************************************************************************)
(* Market announcements: the settings and the outbox of                    *)
(* prediction_bot/lib/src/announcements/persistence.rs, and the delivery   *)
(* worker of announcements/worker.rs.                                      *)
(*                                                                         *)
(* Rows enter a guild's outbox in the transaction that records their event *)
(* (enqueue).  The worker finds the oldest pending row of each guild,      *)
(* checks again that it may be sent, posts it to Discord, and records the  *)
(* outcome, while an administrator moves or disables the destination.      *)
(* Every transaction runs under the guild's advisory lock and is one step  *)
(* here; EventStore models what happens inside.  A request to Discord may  *)
(* be posted and answered, posted without the answer arriving, refused, or *)
(* reach Discord only after the worker has given up on it.  The process    *)
(* may crash or be shut down, which aborts attempts after a grace period.  *)
(*                                                                         *)
(* Message texts and snapshots are left out; a row is a welcome (Enabled)  *)
(* or market activity.                                                     *)
(***************************************************************************)
EXTENDS Integers, Sequences, FiniteSets, FiniteSetsExt, Functions, SequencesExt

CONSTANTS
    Guilds,         \* guild identifiers, ordered
    Channels,       \* channels a guild may choose
    Times,          \* wall-clock readings
    BatchLimit,     \* guilds served by one batch (8 in the code)
    MaxRevision,    \* bound on the events of a guild
    MaxVersion,     \* bound on the configuration changes of a guild
    MaxFaults,      \* bound on failed, lost and aborted requests and crashes
    MaxSetbacks     \* bound on the times the clock is set back

ASSUME GuildsAssumption == Guilds \subseteq Nat /\ IsFiniteSet(Guilds)
ASSUME ChannelsAssumption == Channels \subseteq Nat \ {0}
ASSUME TimesAssumption == Times \subseteq Nat /\ IsFiniteSet(Times) /\ Times # {}
ASSUME BoundsAssumption ==
    /\ BatchLimit \in Nat \ {0}
    /\ MaxRevision \in Nat /\ MaxVersion \in Nat /\ MaxFaults \in Nat /\ MaxSetbacks \in Nat

VARIABLES
    settings,   \* prediction_announcement_settings, per guild
    outbox,     \* prediction_announcement_outbox, per guild in order of revision
    revision,   \* the last event revision of each guild
    worker,     \* "up", "stopping" during the grace period, "down"
    attempt,    \* the delivery attempt under way for each guild
    late,       \* requests the worker gave up on that Discord may still receive
    posted,     \* history: the messages of each guild's channels, in order
    paused_by,  \* history: the configuration version whose failure paused the guild
    clock, setbacks, faults

database == <<settings, outbox, revision>>
process == <<worker, attempt>>
discord == <<late, posted>>
environment == <<clock, setbacks, faults>>
vars == <<database, process, discord, paused_by, environment>>

-----------------------------------------------------------------------------
(* Rows.                                                                   *)

Row(rev, welcome, at) ==
    [ revision |-> rev, welcome |-> welcome, state |-> "pending",
      attempts |-> 0, next_attempt_at |-> at, delivered_to |-> 0 ]

\* No welcome: market activity.  A welcome carries the channel its event names.
Activity == 0

IsPending(row) == row.state = "pending"
Pending(g) == {i \in DOMAIN outbox[g] : IsPending(outbox[g][i])}
\* Mutant: the newest pending row is sent first.
Newest(g) == outbox[g][Max(Pending(g))]

Oldest(g) == outbox[g][Min(Pending(g))]

UpdateWhere(rows, Test(_), Change(_)) ==
    [i \in DOMAIN rows |-> IF Test(rows[i]) THEN Change(rows[i]) ELSE rows[i]]

Discarded(row) == [row EXCEPT !.state = "discarded"]

\* The settings allow delivery.
Active(g) == settings[g].enabled /\ ~settings[g].paused

\* What an attempt remembers of the row and the settings it was found under.
NoAttempt == [pc |-> "idle", revision |-> 0, channel |-> 0, version |-> 0, attempts |-> 0,
              outcome |-> "none"]

Message(g) ==
    [revision |-> attempt[g].revision, channel |-> attempt[g].channel]

RowOf(g) == SelectInSeq(outbox[g], LAMBDA row : row.revision = attempt[g].revision)

Init ==
    /\ settings = [g \in Guilds |->
                    [enabled |-> FALSE, channel |-> 0, version |-> 0, paused |-> FALSE]]
    /\ outbox = [g \in Guilds |-> << >>]
    /\ revision = [g \in Guilds |-> 0]
    /\ worker = "up"
    /\ attempt = [g \in Guilds |-> NoAttempt]
    /\ late = [g \in Guilds |-> {}]
    /\ posted = [g \in Guilds |-> << >>]
    /\ paused_by = [g \in Guilds |-> 0]
    /\ clock = Min(Times)
    /\ setbacks = 0
    /\ faults = 0

-----------------------------------------------------------------------------
(* Transactions of the store.                                              *)

\* A command records an event; an announced one enters the outbox of a guild
\* that has announcements enabled, paused or not.
Record(g, announced) ==
    /\ worker # "down"
    /\ revision[g] < MaxRevision
    /\ revision' = [revision EXCEPT ![g] = @ + 1]
    /\ outbox' = IF announced /\ settings[g].enabled
                 THEN [outbox EXCEPT ![g] = Append(@, Row(revision'[g], Activity, clock))]
                 ELSE outbox
    /\ UNCHANGED <<settings, process, discord, paused_by, environment>>

\* A new destination replaces the pending welcome of the one before.
DiscardWelcomes(rows) ==
    UpdateWhere(rows, LAMBDA row : IsPending(row) /\ row.welcome # Activity, Discarded)

\* configure_announcements with Set: pending rows are due again at once, and a
\* destination that is not the current one is welcomed.
SetChannel(g, channel) ==
    /\ worker # "down"
    /\ settings[g].version < MaxVersion
    /\ LET welcome == ~(settings[g].enabled /\ settings[g].channel = channel)
           requeued == UpdateWhere(outbox[g], IsPending,
                LAMBDA row : [row EXCEPT !.attempts = 0, !.next_attempt_at = clock])
       IN  /\ welcome => revision[g] < MaxRevision
           /\ settings' = [settings EXCEPT ![g] =
                [enabled |-> TRUE, channel |-> channel, version |-> @.version + 1,
                 paused |-> FALSE]]
           /\ revision' = IF welcome THEN [revision EXCEPT ![g] = @ + 1] ELSE revision
           /\ outbox' = [outbox EXCEPT ![g] =
                IF welcome
                THEN Append(DiscardWelcomes(requeued), Row(revision'[g], channel, clock))
                ELSE requeued]
    /\ paused_by' = [paused_by EXCEPT ![g] = 0]
    /\ UNCHANGED <<process, discord, environment>>

\* configure_announcements with Disable: the channel is kept, pending rows are not.
Disable(g) ==
    /\ worker # "down"
    /\ settings[g].version < MaxVersion
    /\ settings' = [settings EXCEPT ![g] =
            [enabled |-> FALSE, channel |-> @.channel, version |-> @.version + 1,
             paused |-> FALSE]]
    /\ outbox' = [outbox EXCEPT ![g] = UpdateWhere(@, IsPending, Discarded)]
    /\ paused_by' = [paused_by EXCEPT ![g] = 0]
    /\ UNCHANGED <<revision, process, discord, environment>>

-----------------------------------------------------------------------------
(* The delivery worker.                                                    *)

\* Mutant: a row waits for older rows that are long delivered or discarded.
IsDueAfterNothing(g) ==
    Active(g) /\ 1 \in Pending(g) /\ Oldest(g).next_attempt_at <= clock

IsDue(g) == Active(g) /\ Pending(g) # {} /\ Oldest(g).next_attempt_at <= clock

\* next_due: the oldest pending row of each guild, earliest deadline first.
Before(g, h) ==
    \/ Oldest(g).next_attempt_at < Oldest(h).next_attempt_at
    \/ Oldest(g).next_attempt_at = Oldest(h).next_attempt_at /\ g < h

Batch ==
    LET due == {g \in Guilds : IsDue(g)}
    IN  {g \in due : Cardinality({h \in due : Before(h, g)}) < BatchLimit}

Found(g) ==
    [ pc |-> "found", revision |-> Oldest(g).revision, channel |-> settings[g].channel,
      version |-> settings[g].version, attempts |-> Oldest(g).attempts, outcome |-> "none" ]

\* A batch is found only when every attempt of the last one has been awaited.
Discover ==
    /\ worker = "up"
    /\ \A g \in Guilds : attempt[g].pc = "idle"
    /\ Batch # {}
    /\ attempt' = [g \in Guilds |-> IF g \in Batch THEN Found(g) ELSE NoAttempt]
    /\ UNCHANGED <<worker, database, discord, paused_by, environment>>

\* still_eligible: the row is still the oldest pending one, and the settings are
\* those it was found under.
StillEligible(g) ==
    /\ Pending(g) # {} /\ Oldest(g).revision = attempt[g].revision
    /\ Active(g)
    /\ settings[g].channel = attempt[g].channel
    /\ settings[g].version = attempt[g].version

Check(g) ==
    /\ attempt[g].pc = "found"
    /\ attempt' = [attempt EXCEPT ![g] =
            IF StillEligible(g) THEN [@ EXCEPT !.pc = "send"] ELSE NoAttempt]
    /\ UNCHANGED <<worker, database, discord, paused_by, environment>>

\* The request leaves the process.
Send(g) ==
    /\ attempt[g].pc = "send"
    /\ attempt' = [attempt EXCEPT ![g].pc = "sent"]
    /\ UNCHANGED <<worker, database, discord, paused_by, environment>>

Outcome(g, outcome) ==
    attempt' = [attempt EXCEPT ![g].pc = "finish", ![g].outcome = outcome]

Post(g, message) == posted' = [posted EXCEPT ![g] = Append(@, message)]

Fault == faults < MaxFaults /\ faults' = faults + 1

\* Discord posts the message and answers with its id.
Delivered(g) ==
    /\ attempt[g].pc = "sent"
    /\ Post(g, Message(g))
    /\ Outcome(g, "delivered")
    /\ UNCHANGED <<worker, database, late, paused_by, environment>>

\* Discord refuses it: a failure to retry, or one that pauses the guild.
Refused(g, outcome) ==
    /\ attempt[g].pc = "sent"
    /\ Fault
    /\ Outcome(g, outcome)
    /\ UNCHANGED <<worker, database, discord, paused_by, clock, setbacks>>

\* No answer within thirty seconds, or a broken connection: the message was
\* posted all the same, or may be later.
TimedOut(g) ==
    /\ attempt[g].pc = "sent"
    /\ Fault
    /\ Outcome(g, "retry")
    /\ \/ Post(g, Message(g)) /\ UNCHANGED late
       \/ late' = [late EXCEPT ![g] = @ \cup {Message(g)}] /\ UNCHANGED posted
    /\ UNCHANGED <<worker, database, paused_by, clock, setbacks>>

\* retry_at: five seconds, doubled with every failure, at most five minutes.
RetryAt(now, failures) ==
    LET exponent == Min({failures - 1, 6})
    IN  now + Min({300, 5 * 2 ^ exponent})

\* Mutant: a failure counts whatever was configured since the row was found.
PendingOnly(g) == RowOf(g) # 0 /\ IsPending(outbox[g][RowOf(g)])

\* A failure counts only under the configuration version it happened under.
Applicable(g) ==
    /\ RowOf(g) # 0 /\ IsPending(outbox[g][RowOf(g)])
    /\ settings[g].version = attempt[g].version

\* A row still pending has been delivered, to the channel of the attempt.
RecordDelivery(g) ==
    IF RowOf(g) # 0 /\ IsPending(outbox[g][RowOf(g)])
    THEN [outbox EXCEPT ![g][RowOf(g)] =
            [@ EXCEPT !.state = "delivered", !.delivered_to = attempt[g].channel]]
    ELSE outbox

\* Where a failure leaves the row: a pause keeps it due.
RecordFailure(g) ==
    LET attempts == attempt[g].attempts + 1
        deadline == IF attempt[g].outcome = "pause" THEN clock ELSE RetryAt(clock, attempts)
    IN  [outbox EXCEPT ![g][RowOf(g)] =
            [@ EXCEPT !.attempts = attempts, !.next_attempt_at = deadline]]

\* finish_attempt
Finish(g) ==
    /\ attempt[g].pc = "finish"
    /\ IF attempt[g].outcome = "delivered"
       THEN outbox' = RecordDelivery(g) /\ UNCHANGED <<settings, paused_by>>
       ELSE IF Applicable(g)
       THEN /\ outbox' = RecordFailure(g)
            /\ IF attempt[g].outcome = "pause"
               THEN /\ settings' = [settings EXCEPT ![g].paused = TRUE]
                    /\ paused_by' = [paused_by EXCEPT ![g] = attempt[g].version]
               ELSE UNCHANGED <<settings, paused_by>>
       ELSE UNCHANGED <<outbox, settings, paused_by>>
    /\ attempt' = [attempt EXCEPT ![g] = NoAttempt]
    /\ UNCHANGED <<worker, revision, discord, environment>>

\* A query of the attempt fails: it ends with nothing recorded.
Abandon(g) ==
    /\ attempt[g].pc \in {"found", "finish"}
    /\ Fault
    /\ attempt' = [attempt EXCEPT ![g] = NoAttempt]
    /\ UNCHANGED <<worker, database, discord, paused_by, clock, setbacks>>

-----------------------------------------------------------------------------
(* Shutdown, crashes and the environment.                                  *)

\* Discovery stops; attempts under way may finish within the grace period.
Shutdown ==
    /\ worker = "up"
    /\ Fault
    /\ worker' = "stopping"
    /\ UNCHANGED <<attempt, database, discord, paused_by, clock, setbacks>>

Drained ==
    /\ worker = "stopping"
    /\ \A g \in Guilds : attempt[g].pc = "idle"
    /\ worker' = "down"
    /\ UNCHANGED <<attempt, database, discord, paused_by, environment>>

\* Requests that were sent may still reach Discord.
DropAttempts ==
    /\ attempt' = [g \in Guilds |-> NoAttempt]
    /\ late' = [g \in Guilds |->
            IF attempt[g].pc = "sent" THEN late[g] \cup {Message(g)} ELSE late[g]]
    /\ UNCHANGED posted

\* The grace period ends with attempts still under way: they are aborted.
Abort ==
    /\ worker = "stopping"
    /\ \E g \in Guilds : attempt[g].pc # "idle"
    /\ DropAttempts
    /\ worker' = "down"
    /\ UNCHANGED <<database, paused_by, environment>>

Crash ==
    /\ worker # "down"
    /\ Fault
    /\ DropAttempts
    /\ worker' = "down"
    /\ UNCHANGED <<database, paused_by, clock, setbacks>>

Restart ==
    /\ worker = "down"
    /\ worker' = "up"
    /\ UNCHANGED <<attempt, database, discord, paused_by, environment>>

\* Discord posts, or drops, a request nobody waits for.
PostLate(g) ==
    \E message \in late[g] :
        /\ late' = [late EXCEPT ![g] = @ \ {message}]
        /\ Post(g, message)
        /\ UNCHANGED <<database, process, paused_by, environment>>

Lose(g) ==
    \E message \in late[g] :
        /\ late' = [late EXCEPT ![g] = @ \ {message}]
        /\ UNCHANGED <<database, process, posted, paused_by, environment>>

Advance ==
    /\ \E time \in Times : time > clock /\ clock' = time
    /\ UNCHANGED <<database, process, discord, paused_by, setbacks, faults>>

SetBack ==
    /\ setbacks < MaxSetbacks /\ setbacks' = setbacks + 1
    /\ \E time \in Times : time < clock /\ clock' = time
    /\ UNCHANGED <<database, process, discord, paused_by, faults>>

Answer(g) ==
    \/ Delivered(g)
    \/ TimedOut(g)
    \/ \E outcome \in {"retry", "pause"} : Refused(g, outcome)

Next ==
    \/ \E g \in Guilds :
        \/ \E announced \in BOOLEAN : Record(g, announced)
        \/ \E channel \in Channels : SetChannel(g, channel)
        \/ Disable(g)
        \/ Check(g) \/ Send(g) \/ Answer(g) \/ Finish(g) \/ Abandon(g)
        \/ PostLate(g) \/ Lose(g)
    \/ Discover
    \/ Shutdown \/ Drained \/ Abort \/ Crash \/ Restart
    \/ Advance \/ SetBack

Spec == Init /\ [][Next]_vars

\* The worker polls again and again, its tasks run, requests end (by a timeout
\* at the latest), the process is restarted, and time passes.  Events, changes
\* of the settings, faults and setbacks of the clock are not assumed to happen.
Fairness ==
    /\ WF_vars(Discover) /\ WF_vars(Drained \/ Abort) /\ WF_vars(Restart) /\ WF_vars(Advance)
    /\ \A g \in Guilds :
        WF_vars(Check(g)) /\ WF_vars(Send(g)) /\ WF_vars(Answer(g)) /\ WF_vars(Finish(g))

FairSpec == Spec /\ Fairness

-----------------------------------------------------------------------------
(* Properties.                                                             *)

FirstPost(g, rev) == SelectInSeq(posted[g], LAMBDA message : message.revision = rev)

\* Members read a guild's announcements in the order of its events: through
\* retries, duplicates, crashes, late requests and moves to another channel, a
\* message first appears after every older one that was not discarded.
InOrder(g) ==
    \A i, j \in DOMAIN outbox[g] :
        LET older == FirstPost(g, outbox[g][i].revision)
            newer == FirstPost(g, outbox[g][j].revision)
        IN  i < j /\ outbox[g][i].state # "discarded" /\ newer # 0
                => older # 0 /\ older < newer

\* A row is recorded as delivered only when its message was posted in the very
\* channel the row names, also when the destination moved during the request;
\* and a welcome is posted only in the channel it welcomes.
InPlace(g) ==
    \A i \in DOMAIN outbox[g] :
        LET row == outbox[g][i]
        IN  /\ row.state = "delivered" =>
                    \E k \in DOMAIN posted[g] :
                        posted[g][k] = [revision |-> row.revision, channel |-> row.delivered_to]
            /\ row.welcome # Activity =>
                    \A k \in DOMAIN posted[g] :
                        posted[g][k].revision = row.revision => posted[g][k].channel = row.welcome

\* The channels show what the outbox says, in order and in place.
AnnouncedAsRecorded == \A g \in Guilds : InOrder(g) /\ InPlace(g)

\* Nothing of a former configuration has an effect on the current one: a failure
\* that was under way when the settings changed never pauses the new settings,
\* and however often the destination changes while a welcome waits or is
\* retried, a pending welcome names the current destination.
FormerSettingsAreGone ==
    \A g \in Guilds :
        /\ settings[g].paused => settings[g].enabled /\ paused_by[g] = settings[g].version
        /\ \A i \in Pending(g) :
              outbox[g][i].welcome # Activity =>
                  settings[g].enabled /\ settings[g].channel = outbox[g][i].welcome

\* Every queued announcement is eventually delivered or discarded, unless the
\* guild's delivery is paused: no failure, crash, abort, clock set back or busy
\* other guild leaves it behind.  (A retry later than the last clock reading of
\* the instance is out of its sight.)
EventuallyAnnounced ==
    \A g \in Guilds : \A rev \in 1 .. MaxRevision :
        LET waiting == \E i \in Pending(g) : outbox[g][i].revision = rev
            blocked == \/ settings[g].paused
                       \/ Pending(g) # {} /\ Oldest(g).next_attempt_at > Max(Times)
        IN  waiting ~> (~waiting \/ blocked)
=============================================================================
