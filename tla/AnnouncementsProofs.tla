------------------------ MODULE AnnouncementsProofs ------------------------
(***************************************************************************)
(* Proofs about the announcements, for any guilds, channels, clock and     *)
(* batch limit and any number of events, changes, faults and crashes.      *)
(*                                                                         *)
(* What the channels show follows from what is under way: a message leaves *)
(* only when its row is the oldest pending one, so no message that was     *)
(* sent, or may still arrive, is newer than a pending row (Accords).  A    *)
(* row that is neither pending nor discarded is delivered, hence posted,   *)
(* so whatever is posted next comes after it (PostsInOrder).  That pauses  *)
(* and welcomes are current rests on the version an attempt carries        *)
(* (AttemptOfSettings).                                                    *)
(***************************************************************************)
EXTENDS Announcements, WellFoundedInduction, TLAPS

-----------------------------------------------------------------------------
(* The minimum of a set of numbers.                                        *)

\* A set of natural numbers that is not empty has a least element.
LEMMA MinIsLeast ==
  ASSUME NEW S \in SUBSET Nat, S # {}
  PROVE  Min(S) \in S /\ \A x \in S : Min(S) <= x
<1>1. PICK x \in S : \A y \in S : ~(<<y, x>> \in OpToRel(<, Nat))
  BY NatLessThanWellFounded, WFMin
<1>2. ASSUME NEW y \in S PROVE x <= y
  <2>1. <<y, x>> \in Nat \X Nat
    OBVIOUS
  <2>2. ~(<<y, x>>[1] < <<y, x>>[2])
    BY <1>1, <2>1 DEF OpToRel
  <2> QED
    BY <2>2
<1> QED
  BY <1>2 DEF Min

-----------------------------------------------------------------------------
(* Types.                                                                  *)

\* When a row may be due.
Deadlines == Nat \cup {RetryAt(time, failures) : time \in Nat, failures \in Nat}

Rows == [ revision : Nat, welcome : Nat, state : {"pending", "delivered", "discarded"},
          attempts : Nat, next_attempt_at : Deadlines, delivered_to : Nat ]

Attempts == [ pc : {"idle", "found", "send", "sent", "finish"}, revision : Nat, channel : Nat,
              version : Nat, attempts : Nat, outcome : {"none", "delivered", "retry", "pause"} ]

Messages == [revision : Nat, channel : Nat]

\* Type invariant.
TypeOK ==
    /\ settings \in [Guilds -> [enabled : BOOLEAN, channel : Nat, version : Nat, paused : BOOLEAN]]
    /\ outbox \in [Guilds -> Seq(Rows)]
    /\ revision \in [Guilds -> Nat]
    /\ worker \in {"up", "stopping", "down"}
    /\ attempt \in [Guilds -> Attempts]
    /\ late \in [Guilds -> SUBSET Messages]
    /\ posted \in [Guilds -> Seq(Messages)]
    /\ paused_by \in [Guilds -> Nat]
    /\ clock \in Nat

\* The oldest pending row is a row, and none that is pending comes before it.
LEMMA PendingType ==
  ASSUME TypeOK, NEW g \in Guilds, Pending(g) # {}
  PROVE  /\ Pending(g) \subseteq DOMAIN outbox[g]
         /\ Min(Pending(g)) \in Pending(g)
         /\ Oldest(g) \in Rows
         /\ \A i \in Pending(g) : Min(Pending(g)) <= i
<1>1. outbox[g] \in Seq(Rows)
  BY DEF TypeOK
<1>2. Pending(g) \in SUBSET Nat /\ Pending(g) \subseteq DOMAIN outbox[g]
  BY <1>1 DEF Pending
<1> QED
  BY <1>1, <1>2, MinIsLeast DEF Oldest

\* The initial state has the types.
LEMMA TypeInit == Init => TypeOK
<1>1. Min(Times) \in Nat
  BY MinIsLeast, TimesAssumption
<1> QED
  BY <1>1 DEF Init, TypeOK, NoAttempt, Attempts

\* A recorded event keeps the types.
LEMMA RecordType ==
  ASSUME TypeOK, NEW g \in Guilds, NEW announced, Record(g, announced)
  PROVE  TypeOK'
<1>1. Row(revision'[g], Activity, clock) \in Rows
  BY DEF TypeOK, Record, Row, Rows, Activity, Deadlines
<1>2. outbox' \in [Guilds -> Seq(Rows)]
  BY <1>1 DEF TypeOK, Record
<1> QED
  BY <1>2 DEF TypeOK, Record, process, discord, environment

\* Disabling the announcements keeps the types.
LEMMA DisableType ==
  ASSUME TypeOK, NEW g \in Guilds, Disable(g)
  PROVE  TypeOK'
<1>1. \A row \in Rows : Discarded(row) \in Rows
  BY DEF Discarded, Rows
<1>2. outbox[g] \in Seq(Rows)
  BY DEF TypeOK
<1>3. UpdateWhere(outbox[g], IsPending, Discarded) \in Seq(Rows)
  BY <1>1, <1>2 DEF UpdateWhere
<1> QED
  BY <1>3 DEF TypeOK, Disable, process, discord, environment

\* What SetChannel does to a row that waits.
Requeued(row) == [row EXCEPT !.attempts = 0, !.next_attempt_at = clock]

\* What SetChannel does to the outbox, with its parts named.
LEMMA SetChannelOutbox ==
  ASSUME TypeOK, NEW g \in Guilds, NEW channel \in Channels, SetChannel(g, channel)
  PROVE  LET requeued == UpdateWhere(outbox[g], IsPending, Requeued)
         IN  /\ requeued \in Seq(Rows)
             /\ DiscardWelcomes(requeued) \in Seq(Rows)
             /\ outbox' = [outbox EXCEPT ![g] =
                    IF ~(settings[g].enabled /\ settings[g].channel = channel)
                    THEN Append(DiscardWelcomes(requeued), Row(revision'[g], channel, clock))
                    ELSE requeued]
<1> DEFINE requeued == UpdateWhere(outbox[g], IsPending, Requeued)
<1>1. outbox[g] \in Seq(Rows)
  BY DEF TypeOK
<1>2. \A row \in Rows : Requeued(row) \in Rows /\ Discarded(row) \in Rows
  <2>1. clock \in Deadlines
    BY DEF TypeOK, Deadlines
  <2> QED
    BY <2>1 DEF Requeued, Discarded, Rows
<1>3. requeued \in Seq(Rows)
  BY <1>1, <1>2 DEF UpdateWhere
<1>4. DiscardWelcomes(requeued) \in Seq(Rows)
  <2> HIDE DEF requeued
  <2> QED
    BY <1>2, <1>3 DEF DiscardWelcomes, UpdateWhere
<1>5. requeued = UpdateWhere(outbox[g], IsPending,
                    LAMBDA row : [row EXCEPT !.attempts = 0, !.next_attempt_at = clock])
  BY DEF UpdateWhere, Requeued
<1> QED
  BY <1>3, <1>4, <1>5 DEF SetChannel

\* A new destination keeps the types.
LEMMA SetChannelType ==
  ASSUME TypeOK, NEW g \in Guilds, NEW channel \in Channels, SetChannel(g, channel)
  PROVE  TypeOK'
<1>1. revision' \in [Guilds -> Nat]
  BY DEF SetChannel, TypeOK
<1>2. channel \in Nat
  BY ChannelsAssumption
<1>3. Row(revision'[g], channel, clock) \in Rows
  BY <1>1, <1>2 DEF TypeOK, Row, Rows, Deadlines
<1>4. outbox' \in [Guilds -> Seq(Rows)]
  <2> DEFINE requeued == UpdateWhere(outbox[g], IsPending, Requeued)
             rows == IF ~(settings[g].enabled /\ settings[g].channel = channel)
                     THEN Append(DiscardWelcomes(requeued), Row(revision'[g], channel, clock))
                     ELSE requeued
  <2>1. requeued \in Seq(Rows) /\ DiscardWelcomes(requeued) \in Seq(Rows)
    BY SetChannelOutbox
  <2>2. outbox' = [outbox EXCEPT ![g] = rows]
    BY SetChannelOutbox
  <2> HIDE DEF requeued
  <2>3. rows \in Seq(Rows)
    BY <1>3, <2>1
  <2> HIDE DEF rows
  <2> QED
    BY <2>2, <2>3 DEF TypeOK
<1>5. settings' \in [Guilds -> [enabled : BOOLEAN, channel : Nat, version : Nat, paused : BOOLEAN]]
  BY <1>2 DEF SetChannel, TypeOK
<1> QED
  BY <1>1, <1>4, <1>5 DEF SetChannel, TypeOK, process, discord, environment

\* Finding a batch keeps the types.
LEMMA DiscoverType ==
  ASSUME TypeOK, Discover
  PROVE  TypeOK'
<1>1. \A g \in Batch : Found(g) \in Attempts
  <2> SUFFICES ASSUME NEW g \in Batch PROVE Found(g) \in Attempts
    OBVIOUS
  <2>1. g \in Guilds /\ Pending(g) # {}
    BY DEF Batch, IsDue
  <2>2. Oldest(g) \in Rows
    BY <2>1, PendingType
  <2> QED
    BY <2>1, <2>2 DEF Found, Attempts, Rows, TypeOK
<1>2. NoAttempt \in Attempts
  BY DEF NoAttempt, Attempts
<1>3. attempt' \in [Guilds -> Attempts]
  BY <1>1, <1>2 DEF Discover
<1> QED
  BY <1>3 DEF Discover, TypeOK, database, discord, environment

\* What is recorded of a request in the process.
LEMMA OutcomeEffect ==
  ASSUME TypeOK, NEW g \in Guilds, NEW outcome \in {"delivered", "retry", "pause"},
         Outcome(g, outcome)
  PROVE  /\ attempt' = [attempt EXCEPT ![g] = [@ EXCEPT !.pc = "finish", !.outcome = outcome]]
         /\ attempt' \in [Guilds -> Attempts]
<1>1. attempt' = [attempt EXCEPT ![g] = [@ EXCEPT !.pc = "finish", !.outcome = outcome]]
  BY DEF Outcome, TypeOK
<1>2. [attempt[g] EXCEPT !.pc = "finish", !.outcome = outcome] \in Attempts
  BY DEF TypeOK, Attempts
<1> QED
  BY <1>1, <1>2 DEF TypeOK

\* A post keeps the type of the posts.
LEMMA PostType ==
  ASSUME TypeOK, NEW g \in Guilds, NEW message \in Messages, Post(g, message)
  PROVE  posted' \in [Guilds -> Seq(Messages)]
<1>1. Append(posted[g], message) \in Seq(Messages)
  BY DEF TypeOK
<1> QED
  BY <1>1 DEF TypeOK, Post

\* The steps of one attempt that leave the database alone.
LEMMA AttemptType ==
  ASSUME TypeOK, NEW g \in Guilds, Check(g) \/ Send(g) \/ Answer(g) \/ Abandon(g)
  PROVE  TypeOK'
<1>1. NoAttempt \in Attempts
  BY DEF NoAttempt, Attempts
<1>2. CASE Check(g)
  BY <1>1, <1>2 DEF TypeOK, Check, database, discord, environment, Attempts
<1>3. CASE Send(g)
  BY <1>3 DEF TypeOK, Send, database, discord, environment, Attempts
<1>4. CASE Abandon(g)
  BY <1>1, <1>4 DEF TypeOK, Abandon, database, discord
<1>5. Message(g) \in Messages
  BY DEF TypeOK, Message, Messages, Attempts
<1>6. CASE Delivered(g)
  <2>1. attempt' \in [Guilds -> Attempts]
    BY <1>6, OutcomeEffect DEF Delivered
  <2>2. posted' \in [Guilds -> Seq(Messages)]
    BY <1>5, <1>6, PostType DEF Delivered
  <2> QED
    BY <1>6, <2>1, <2>2 DEF TypeOK, Delivered, database, environment
<1>7. CASE TimedOut(g)
  <2>1. attempt' \in [Guilds -> Attempts]
    BY <1>7, OutcomeEffect DEF TimedOut
  <2>2. posted' \in [Guilds -> Seq(Messages)]
    BY <1>5, <1>7, PostType DEF TimedOut, TypeOK
  <2>3. late' \in [Guilds -> SUBSET Messages]
    <3>1. late[g] \cup {Message(g)} \in SUBSET Messages
      BY <1>5 DEF TypeOK
    <3> QED
      BY <1>7, <3>1 DEF TimedOut, TypeOK
  <2> QED
    BY <1>7, <2>1, <2>2, <2>3 DEF TypeOK, TimedOut, database
<1>8. ASSUME NEW outcome \in {"retry", "pause"}, Refused(g, outcome) PROVE TypeOK'
  <2>1. attempt' \in [Guilds -> Attempts]
    BY <1>8, OutcomeEffect DEF Refused
  <2> QED
    BY <1>8, <2>1 DEF TypeOK, Refused, database, discord
<1> QED
  BY <1>2, <1>3, <1>4, <1>6, <1>7, <1>8 DEF Answer

\* The row an attempt is about.
LEMMA RowOfFact ==
  ASSUME TypeOK, NEW g \in Guilds, RowOf(g) # 0
  PROVE  /\ RowOf(g) \in DOMAIN outbox[g]
         /\ outbox[g][RowOf(g)] \in Rows
         /\ outbox[g][RowOf(g)].revision = attempt[g].revision
<1> DEFINE I == {i \in 1 .. Len(outbox[g]) : outbox[g][i].revision = attempt[g].revision}
<1>1. RowOf(g) = IF I # {} THEN Min(I) ELSE 0
  BY DEF RowOf, SelectInSeq
<1>2. I \in SUBSET Nat
  OBVIOUS
<1>3. RowOf(g) \in I
  BY <1>1, <1>2, MinIsLeast
<1>4. outbox[g] \in Seq(Rows)
  BY DEF TypeOK
<1> QED
  BY <1>3, <1>4

\* A change to one row.
LEMMA RowChangeType ==
  ASSUME TypeOK, NEW g \in Guilds, NEW k \in DOMAIN outbox[g], NEW row \in Rows
  PROVE  [outbox EXCEPT ![g] = [@ EXCEPT ![k] = row]] \in [Guilds -> Seq(Rows)]
<1>1. outbox[g] \in Seq(Rows)
  BY DEF TypeOK
<1>2. [outbox[g] EXCEPT ![k] = row] \in Seq(Rows)
  BY <1>1
<1> QED
  BY <1>2 DEF TypeOK

\* A delivery that is recorded changes the row of its attempt, which was pending.
LEMMA RecordDeliveryEffect ==
  ASSUME TypeOK, NEW g \in Guilds, RecordDelivery(g) # outbox
  PROVE  LET row == outbox[g][RowOf(g)]
         IN  /\ RowOf(g) # 0 /\ IsPending(row)
             /\ RecordDelivery(g) = [outbox EXCEPT ![g] = [@ EXCEPT ![RowOf(g)] =
                    [row EXCEPT !.state = "delivered", !.delivered_to = attempt[g].channel]]]
             /\ RecordDelivery(g) \in [Guilds -> Seq(Rows)]
<1> DEFINE k == RowOf(g)
           row == [outbox[g][k] EXCEPT !.state = "delivered", !.delivered_to = attempt[g].channel]
<1>1. k # 0 /\ IsPending(outbox[g][k])
  BY DEF RecordDelivery
<1>2. RecordDelivery(g) = [outbox EXCEPT ![g] = [@ EXCEPT ![k] = row]]
  BY <1>1 DEF RecordDelivery
<1>3. k \in DOMAIN outbox[g] /\ outbox[g][k] \in Rows
  BY <1>1, RowOfFact
<1>4. row \in Rows
  BY <1>3 DEF TypeOK, Attempts, Rows
<1> HIDE DEF k, row
<1>5. [outbox EXCEPT ![g] = [@ EXCEPT ![k] = row]] \in [Guilds -> Seq(Rows)]
  BY <1>3, <1>4, RowChangeType
<1> QED
  BY <1>1, <1>2, <1>5 DEF k, row

\* A failure that is recorded changes when the row of its attempt is due.
LEMMA RecordFailureEffect ==
  ASSUME TypeOK, NEW g \in Guilds, RowOf(g) # 0
  PROVE  \E attempts \in Nat, deadline \in Deadlines :
            LET row == outbox[g][RowOf(g)]
            IN  /\ RecordFailure(g) = [outbox EXCEPT ![g] = [@ EXCEPT ![RowOf(g)] =
                        [row EXCEPT !.attempts = attempts, !.next_attempt_at = deadline]]]
                /\ RecordFailure(g) \in [Guilds -> Seq(Rows)]
<1> DEFINE k == RowOf(g)
           attempts == attempt[g].attempts + 1
           deadline == IF attempt[g].outcome = "pause" THEN clock ELSE RetryAt(clock, attempts)
           row == [outbox[g][k] EXCEPT !.attempts = attempts, !.next_attempt_at = deadline]
<1>1. attempts \in Nat /\ deadline \in Deadlines
  BY DEF TypeOK, Attempts, Deadlines
<1>2. RecordFailure(g) = [outbox EXCEPT ![g] = [@ EXCEPT ![k] = row]]
  BY DEF RecordFailure
<1>3. k \in DOMAIN outbox[g] /\ outbox[g][k] \in Rows
  BY RowOfFact
<1> HIDE DEF attempts, deadline, k
<1>4. row \in Rows
  BY <1>1, <1>3 DEF Rows
<1>5. [outbox EXCEPT ![g] = [@ EXCEPT ![k] = row]] \in [Guilds -> Seq(Rows)]
  <2> HIDE DEF row
  <2> QED
    BY <1>3, <1>4, RowChangeType
<1> QED
  BY <1>1, <1>2, <1>5 DEF k

\* Recording an outcome keeps the types.
LEMMA FinishType ==
  ASSUME TypeOK, NEW g \in Guilds, Finish(g)
  PROVE  TypeOK'
<1>1. attempt[g] \in Attempts /\ outbox[g] \in Seq(Rows)
  BY DEF TypeOK
<1>2. attempt' \in [Guilds -> Attempts]
  BY DEF Finish, TypeOK, NoAttempt, Attempts
<1>3. RecordDelivery(g) \in [Guilds -> Seq(Rows)]
  BY RecordDeliveryEffect DEF TypeOK
<1>4. Applicable(g) => RecordFailure(g) \in [Guilds -> Seq(Rows)]
  BY RecordFailureEffect DEF Applicable
<1>5. outbox' \in [Guilds -> Seq(Rows)]
  BY <1>3, <1>4 DEF Finish, TypeOK
<1>6. /\ settings' \in [Guilds -> [enabled : BOOLEAN, channel : Nat, version : Nat, paused : BOOLEAN]]
      /\ paused_by' \in [Guilds -> Nat]
  <2>1. [settings EXCEPT ![g].paused = TRUE]
          \in [Guilds -> [enabled : BOOLEAN, channel : Nat, version : Nat, paused : BOOLEAN]]
    BY DEF TypeOK
  <2>2. [paused_by EXCEPT ![g] = attempt[g].version] \in [Guilds -> Nat]
    BY <1>1 DEF TypeOK, Attempts
  <2> QED
    BY <2>1, <2>2 DEF Finish, TypeOK
<1> QED
  BY <1>2, <1>5, <1>6 DEF Finish, TypeOK, discord, environment

\* Shutdown, crash and restart keep the types.
LEMMA WorkerType ==
  ASSUME TypeOK, Shutdown \/ Drained \/ Abort \/ Crash \/ Restart
  PROVE  TypeOK'
<1>1. NoAttempt \in Attempts
  BY DEF NoAttempt, Attempts
<1>2. \A g \in Guilds : Message(g) \in Messages
  BY DEF TypeOK, Message, Messages, Attempts
<1>3. CASE Abort \/ Crash
  <2>1. attempt' \in [Guilds -> Attempts]
    BY <1>1, <1>3 DEF Abort, Crash, DropAttempts
  <2>2. late' \in [Guilds -> SUBSET Messages]
    <3>1. late' = [g \in Guilds |->
            IF attempt[g].pc = "sent" THEN late[g] \cup {Message(g)} ELSE late[g]]
      BY <1>3 DEF Abort, Crash, DropAttempts
    <3>2. \A g \in Guilds : late[g] \in SUBSET Messages
      BY DEF TypeOK
    <3>3. \A g \in Guilds : late'[g] \in SUBSET Messages
      BY <1>2, <3>1, <3>2
    <3> QED
      BY <3>1, <3>3
  <2> QED
    BY <1>3, <2>1, <2>2 DEF TypeOK, Abort, Crash, DropAttempts, database, environment
<1> QED
  BY <1>3 DEF TypeOK, Shutdown, Drained, Restart, database, discord, environment

\* Late requests and the clock keep the types.
LEMMA EnvironmentType ==
  ASSUME TypeOK, (\E g \in Guilds : PostLate(g) \/ Lose(g)) \/ Advance \/ SetBack
  PROVE  TypeOK'
<1>1. ASSUME NEW g \in Guilds, PostLate(g) \/ Lose(g) PROVE TypeOK'
  <2>1. PICK message \in late[g] : late' = [late EXCEPT ![g] = @ \ {message}]
                                   /\ (Post(g, message) \/ UNCHANGED posted)
    BY <1>1 DEF PostLate, Lose
  <2>2. message \in Messages /\ late' \in [Guilds -> SUBSET Messages]
    BY <2>1 DEF TypeOK
  <2>3. posted' \in [Guilds -> Seq(Messages)]
    BY <2>1, <2>2, PostType DEF TypeOK
  <2> QED
    BY <1>1, <2>2, <2>3 DEF TypeOK, PostLate, Lose, database, process, environment
<1>2. CASE Advance \/ SetBack
  BY <1>2, TimesAssumption DEF TypeOK, Advance, SetBack, database, process, discord
<1> QED
  BY <1>1, <1>2

\* Every step keeps the types.
LEMMA TypeStep == TypeOK /\ [Next]_vars => TypeOK'
<1> SUFFICES ASSUME TypeOK, [Next]_vars PROVE TypeOK'
  OBVIOUS
<1>1. CASE UNCHANGED vars
  BY <1>1 DEF TypeOK, vars, database, process, discord, environment
<1> QED
  BY <1>1, RecordType, SetChannelType, DisableType, DiscoverType, AttemptType, FinishType,
     WorkerType, EnvironmentType DEF Next

-----------------------------------------------------------------------------
(* The inductive invariant.                                                *)

\* No attempt was found under settings of the future, and one found under the
\* current version finds the announcements enabled.
AttemptOfSettings(g) ==
    attempt[g].pc # "idle" =>
        /\ attempt[g].version <= settings[g].version
        /\ attempt[g].version = settings[g].version => settings[g].enabled

SettingsInv == FormerSettingsAreGone /\ \A g \in Guilds : AttemptOfSettings(g)

\* Rows are in the order of their events, each of which has at most one row.
RowsInOrder(rows, last) ==
    /\ \A i \in DOMAIN rows : rows[i].revision <= last
    /\ \A i, j \in DOMAIN rows : i < j => rows[i].revision < rows[j].revision

\* A message that was sent, or is about to be, is not ahead of a pending row nor
\* of the rows to come, and a welcome names its own channel.
Accords(message, rows, last) ==
    /\ message.revision <= last
    /\ \A i \in DOMAIN rows :
        /\ IsPending(rows[i]) => message.revision <= rows[i].revision
        /\ rows[i].revision = message.revision /\ rows[i].welcome # Activity =>
                message.channel = rows[i].welcome

WasPosted(message, posts) == \E k \in DOMAIN posts : posts[k] = message

DeliveriesPosted(rows, posts) ==
    \A i \in DOMAIN rows :
        rows[i].state = "delivered" =>
            WasPosted([revision |-> rows[i].revision, channel |-> rows[i].delivered_to], posts)

\* Every post of a row comes after a post of each older row that is not discarded.
PostsInOrder(rows, posts) ==
    \A i, j \in DOMAIN rows, k \in DOMAIN posts :
        i < j /\ rows[i].state # "discarded" /\ posts[k].revision = rows[j].revision =>
            \E l \in DOMAIN posts : l < k /\ posts[l].revision = rows[i].revision

\* What holds of the rows of a guild, its last revision and what was posted.
Told(rows, last, posts) ==
    /\ RowsInOrder(rows, last)
    /\ \A k \in DOMAIN posts : Accords(posts[k], rows, last)
    /\ DeliveriesPosted(rows, posts)
    /\ PostsInOrder(rows, posts)

\* What holds of the requests that are under way.
UnderWay(g) ==
    /\ \A message \in late[g] : Accords(message, outbox[g], revision[g])
    /\ attempt[g].pc \in {"send", "sent"} => Accords(Message(g), outbox[g], revision[g])
    /\ attempt[g].pc = "finish" /\ attempt[g].outcome = "delivered" =>
            WasPosted(Message(g), posted[g])

OutboxInv == \A g \in Guilds : Told(outbox[g], revision[g], posted[g]) /\ UnderWay(g)

\* The inductive invariant.
IInv == TypeOK /\ SettingsInv /\ OutboxInv

-----------------------------------------------------------------------------
(* The rows and the posts of one guild.                                    *)

\* How a transaction changes rows: what they announce stays, none becomes
\* pending again or comes back, and at most one is added, for a newer event.
RowsEvolve(rows, last, new, newLast) ==
    /\ last <= newLast
    /\ \A i \in DOMAIN rows :
        /\ i \in DOMAIN new
        /\ new[i].revision = rows[i].revision /\ new[i].welcome = rows[i].welcome
        /\ IsPending(new[i]) => IsPending(rows[i])
        /\ new[i].state # "discarded" => rows[i].state # "discarded"
    /\ \A i \in DOMAIN new \ DOMAIN rows :
        /\ IsPending(new[i]) /\ last < new[i].revision /\ new[i].revision <= newLast
        /\ \A j \in DOMAIN new : j # i => j < i

\* A message in accord with the rows stays so through a transaction.
LEMMA AccordsEvolve ==
  ASSUME NEW rows \in Seq(Rows), NEW last \in Nat, NEW new \in Seq(Rows), NEW newLast \in Nat,
         RowsEvolve(rows, last, new, newLast), NEW message \in Messages,
         Accords(message, rows, last)
  PROVE  Accords(message, new, newLast)
<1>1. /\ \A i \in DOMAIN rows : rows[i] \in Rows
      /\ \A i \in DOMAIN new : new[i] \in Rows
  OBVIOUS
<1>2. message.revision <= newLast
  BY DEF Accords, RowsEvolve, Messages
<1>3. ASSUME NEW i \in DOMAIN new
      PROVE  /\ IsPending(new[i]) => message.revision <= new[i].revision
             /\ new[i].revision = message.revision /\ new[i].welcome # Activity =>
                    message.channel = new[i].welcome
  <2>1. CASE i \in DOMAIN rows
    <3>1. /\ new[i].revision = rows[i].revision /\ new[i].welcome = rows[i].welcome
          /\ IsPending(new[i]) => IsPending(rows[i])
      BY <2>1 DEF RowsEvolve
    <3> QED
      BY <2>1, <3>1 DEF Accords
  <2>2. CASE i \notin DOMAIN rows
    <3>1. last < new[i].revision /\ new[i].revision \in Nat
      BY <1>1, <2>2 DEF RowsEvolve, Rows
    <3>2. message.revision <= last /\ message.revision \in Nat
      BY DEF Accords, Messages
    <3> QED
      BY <3>1, <3>2
  <2> QED
    BY <2>1, <2>2
<1> QED
  BY <1>2, <1>3 DEF Accords

\* A transaction keeps the rows in the order of their events.
LEMMA RowsInOrderEvolve ==
  ASSUME NEW rows \in Seq(Rows), NEW last \in Nat, NEW new \in Seq(Rows), NEW newLast \in Nat,
         RowsEvolve(rows, last, new, newLast), RowsInOrder(rows, last)
  PROVE  RowsInOrder(new, newLast)
<1>1. /\ \A i \in DOMAIN rows : rows[i] \in Rows /\ i \in Nat
      /\ \A i \in DOMAIN new : new[i] \in Rows /\ i \in Nat
  OBVIOUS
<1>2. ASSUME NEW i \in DOMAIN new PROVE new[i].revision <= newLast
  <2>1. CASE i \in DOMAIN rows
    <3>1. /\ rows[i].revision <= last /\ last <= newLast
          /\ new[i].revision = rows[i].revision
      BY <2>1 DEF RowsInOrder, RowsEvolve
    <3>2. rows[i].revision \in Nat
      BY <1>1, <2>1 DEF Rows
    <3> QED
      BY <3>1, <3>2
  <2>2. CASE i \notin DOMAIN rows
    BY <2>2 DEF RowsEvolve
  <2> QED
    BY <2>1, <2>2
<1>3. ASSUME NEW i \in DOMAIN new, NEW j \in DOMAIN new, i < j
      PROVE  new[i].revision < new[j].revision
  <2>1. i \in DOMAIN rows
    <3>1. i \notin DOMAIN rows => j < i
      BY <1>3 DEF RowsEvolve
    <3> QED
      BY <1>1, <1>3, <3>1
  <2>2. new[i].revision = rows[i].revision /\ rows[i].revision <= last
    BY <2>1 DEF RowsInOrder, RowsEvolve
  <2>3. CASE j \in DOMAIN rows
    <3>1. new[j].revision = rows[j].revision
      BY <2>3 DEF RowsEvolve
    <3> QED
      BY <1>3, <2>1, <2>2, <2>3, <3>1 DEF RowsInOrder
  <2>4. CASE j \notin DOMAIN rows
    <3>1. last < new[j].revision
      BY <2>4 DEF RowsEvolve
    <3>2. new[j].revision \in Nat /\ rows[i].revision \in Nat
      BY <1>1, <2>1 DEF Rows
    <3> QED
      BY <2>2, <3>1, <3>2
  <2> QED
    BY <2>3, <2>4
<1> QED
  BY <1>2, <1>3 DEF RowsInOrder

\* A transaction keeps rows and posts in accord, if what it records as delivered
\* was posted.
LEMMA ToldEvolve ==
  ASSUME NEW rows \in Seq(Rows), NEW last \in Nat, NEW new \in Seq(Rows), NEW newLast \in Nat,
         RowsEvolve(rows, last, new, newLast),
         NEW posts \in Seq(Messages), Told(rows, last, posts), DeliveriesPosted(new, posts)
  PROVE  Told(new, newLast, posts)
<1>1. /\ \A i \in DOMAIN rows : rows[i] \in Rows /\ i \in Nat
      /\ \A i \in DOMAIN new : new[i] \in Rows /\ i \in Nat
      /\ \A k \in DOMAIN posts : posts[k] \in Messages
  OBVIOUS
<1>2. \A k \in DOMAIN posts : Accords(posts[k], new, newLast)
  BY <1>1, AccordsEvolve DEF Told
<1>3. ASSUME NEW i \in DOMAIN new, NEW j \in DOMAIN new, NEW k \in DOMAIN posts,
             i < j, new[i].state # "discarded", posts[k].revision = new[j].revision
      PROVE  \E l \in DOMAIN posts : l < k /\ posts[l].revision = new[i].revision
  <2>1. posts[k].revision <= last
    BY DEF Told, Accords
  <2>2. i \in DOMAIN rows
    <3>1. i \notin DOMAIN rows => j < i
      BY <1>3 DEF RowsEvolve
    <3> QED
      BY <1>1, <1>3, <3>1
  <2>3. j \in DOMAIN rows
    <3>1. j \notin DOMAIN rows => last < new[j].revision
      BY DEF RowsEvolve
    <3>2. new[j].revision \in Nat
      BY <1>1 DEF Rows
    <3> QED
      BY <1>3, <2>1, <3>1, <3>2
  <2>4. /\ new[i].revision = rows[i].revision /\ new[j].revision = rows[j].revision
        /\ rows[i].state # "discarded"
    BY <1>3, <2>2, <2>3 DEF RowsEvolve
  <2> QED
    BY <1>3, <2>2, <2>3, <2>4 DEF Told, PostsInOrder
<1> QED
  BY <1>2, <1>3, RowsInOrderEvolve DEF Told, PostsInOrder

\* A post of a message in accord with the rows keeps the posts in accord.
LEMMA ToldPost ==
  ASSUME NEW rows \in Seq(Rows), NEW last \in Nat, NEW posts \in Seq(Messages),
         NEW message \in Messages, Told(rows, last, posts), Accords(message, rows, last)
  PROVE  /\ Told(rows, last, Append(posts, message))
         /\ WasPosted(message, Append(posts, message))
         /\ \A m : WasPosted(m, posts) => WasPosted(m, Append(posts, message))
<1> DEFINE new == Append(posts, message)
           n == Len(posts)
<1>1. /\ n \in Nat /\ DOMAIN posts = 1 .. n /\ DOMAIN new = 1 .. n + 1
      /\ new[n + 1] = message
      /\ \A k \in 1 .. n : new[k] = posts[k] /\ posts[k] \in Messages
  OBVIOUS
<1>2. \A i \in DOMAIN rows : rows[i] \in Rows /\ i \in Nat
  OBVIOUS
<1> HIDE DEF new, n
<1>3. \A m : WasPosted(m, posts) => WasPosted(m, new)
  BY <1>1 DEF WasPosted
<1>4. WasPosted(message, new)
  BY <1>1 DEF WasPosted
<1>5. \A k \in DOMAIN new : Accords(new[k], rows, last)
  <2> SUFFICES ASSUME NEW k \in DOMAIN new PROVE Accords(new[k], rows, last)
    OBVIOUS
  <2>1. CASE k = n + 1
    BY <1>1, <2>1
  <2>2. CASE k # n + 1
    BY <1>1, <2>2 DEF Told
  <2> QED
    BY <2>1, <2>2
<1>6. DeliveriesPosted(rows, new)
  BY <1>3 DEF Told, DeliveriesPosted
<1>7. ASSUME NEW i \in DOMAIN rows, NEW j \in DOMAIN rows, NEW k \in DOMAIN new,
             i < j, rows[i].state # "discarded", new[k].revision = rows[j].revision
      PROVE  \E l \in DOMAIN new : l < k /\ new[l].revision = rows[i].revision
  <2>1. CASE k # n + 1
    <3>1. k \in DOMAIN posts /\ posts[k].revision = rows[j].revision
      BY <1>1, <1>7, <2>1
    <3>2. PICK l \in DOMAIN posts : l < k /\ posts[l].revision = rows[i].revision
      BY <1>7, <3>1 DEF Told, PostsInOrder
    <3> QED
      BY <1>1, <3>2
  <2>2. CASE k = n + 1
    <3>1. rows[i].revision < rows[j].revision
      BY <1>7 DEF Told, RowsInOrder
    <3>2. ~IsPending(rows[i])
      <4>1. rows[j].revision = message.revision
        BY <1>1, <1>7, <2>2
      <4>2. IsPending(rows[i]) => message.revision <= rows[i].revision
        BY DEF Accords
      <4>3. rows[i].revision \in Nat /\ message.revision \in Nat
        BY <1>2 DEF Rows, Messages
      <4> QED
        BY <3>1, <4>1, <4>2, <4>3
    <3>3. rows[i].state = "delivered"
      BY <1>2, <1>7, <3>2 DEF IsPending, Rows
    <3>4. WasPosted([revision |-> rows[i].revision, channel |-> rows[i].delivered_to], posts)
      BY <3>3 DEF Told, DeliveriesPosted
    <3>5. PICK l \in DOMAIN posts :
            posts[l] = [revision |-> rows[i].revision, channel |-> rows[i].delivered_to]
      BY <3>4 DEF WasPosted
    <3> QED
      BY <1>1, <2>2, <3>5
  <2> QED
    BY <2>1, <2>2
<1>8. Told(rows, last, new)
  BY <1>5, <1>6, <1>7 DEF Told, PostsInOrder
<1> QED
  BY <1>3, <1>4, <1>8 DEF new

-----------------------------------------------------------------------------
(* The settings.                                                           *)

\* The initial settings have no past.
LEMMA SettingsInit == Init => SettingsInv
  BY DEF Init, SettingsInv, FormerSettingsAreGone, AttemptOfSettings, NoAttempt, Pending

\* A step that leaves the settings alone, and whose rows evolve.
LEMMA SettingsFrame ==
  ASSUME TypeOK, SettingsInv, UNCHANGED <<settings, paused_by>>,
         \A g \in Guilds :
            /\ AttemptOfSettings(g)'
            /\ \A i \in DOMAIN outbox'[g] :
                IsPending(outbox'[g][i]) /\ outbox'[g][i].welcome # Activity =>
                    /\ i \in DOMAIN outbox[g] /\ IsPending(outbox[g][i])
                    /\ outbox'[g][i].welcome = outbox[g][i].welcome
  PROVE  SettingsInv'
  BY DEF SettingsInv, FormerSettingsAreGone, Pending

-----------------------------------------------------------------------------
(* Transactions.                                                           *)

\* What a transaction other than a recorded delivery does to the rows.
RowsKeep(rows, last, new, newLast) ==
    /\ RowsEvolve(rows, last, new, newLast)
    /\ \A i \in DOMAIN new :
        new[i].state = "delivered" =>
            /\ i \in DOMAIN rows /\ rows[i].state = "delivered"
            /\ rows[i].delivered_to = new[i].delivered_to

\* Rows that stay the same evolve.
LEMMA RowsKeepSelf ==
  ASSUME NEW rows \in Seq(Rows), NEW last \in Nat
  PROVE  RowsKeep(rows, last, rows, last)
  BY DEF RowsKeep, RowsEvolve

\* Without a new delivery, what is recorded as delivered stays posted.
LEMMA RowsKeepPosted ==
  ASSUME NEW rows, NEW last, NEW new, NEW newLast, NEW posts,
         RowsKeep(rows, last, new, newLast), DeliveriesPosted(rows, posts)
  PROVE  DeliveriesPosted(new, posts)
  BY DEF RowsKeep, RowsEvolve, DeliveriesPosted

\* A row of a new event may be added to rows that evolve.
LEMMA RowsKeepAppend ==
  ASSUME NEW rows \in Seq(Rows), NEW last \in Nat, NEW new \in Seq(Rows), NEW row \in Rows,
         RowsKeep(rows, last, new, last), DOMAIN new = DOMAIN rows,
         IsPending(row), row.revision = last + 1
  PROVE  RowsKeep(rows, last, Append(new, row), last + 1)
<1> DEFINE more == Append(new, row)
           n == Len(new)
<1>1. /\ n \in Nat /\ DOMAIN new = 1 .. n /\ DOMAIN more = 1 .. n + 1
      /\ more[n + 1] = row /\ \A i \in 1 .. n : more[i] = new[i]
  OBVIOUS
<1>2. row.state # "delivered"
  BY DEF IsPending
<1> HIDE DEF more, n
<1>3. RowsEvolve(rows, last, more, last + 1)
  BY <1>1 DEF RowsKeep, RowsEvolve
<1>4. RowsKeep(rows, last, more, last + 1)
  BY <1>1, <1>2, <1>3 DEF RowsKeep
<1> QED
  BY <1>4 DEF more

\* What stays of a row that is discarded, or due again.
LEMMA RowFacts ==
  ASSUME NEW row \in Rows
  PROVE  /\ Discarded(row).revision = row.revision /\ Discarded(row).welcome = row.welcome
         /\ Discarded(row).delivered_to = row.delivered_to
         /\ Discarded(row).state = "discarded"
         /\ Requeued(row).revision = row.revision /\ Requeued(row).welcome = row.welcome
         /\ Requeued(row).delivered_to = row.delivered_to
         /\ Requeued(row).state = row.state
  BY DEF Discarded, Requeued, Rows

\* The transactions change the rows of their guild only.
LEMMA DatabaseStep ==
  ASSUME TypeOK, TypeOK', OutboxInv, UNCHANGED <<late, posted>>,
         \A g \in Guilds :
            /\ RowsEvolve(outbox[g], revision[g], outbox'[g], revision'[g])
            /\ DeliveriesPosted(outbox'[g], posted[g])
            /\ attempt'[g] = attempt[g] \/ attempt'[g] = NoAttempt
  PROVE  OutboxInv'
<1> SUFFICES ASSUME NEW g \in Guilds
             PROVE  Told(outbox'[g], revision'[g], posted'[g]) /\ UnderWay(g)'
  BY DEF OutboxInv
<1>1. /\ outbox[g] \in Seq(Rows) /\ outbox'[g] \in Seq(Rows)
      /\ revision[g] \in Nat /\ revision'[g] \in Nat
      /\ posted[g] \in Seq(Messages) /\ posted'[g] = posted[g]
      /\ late[g] \subseteq Messages /\ late'[g] = late[g]
  BY DEF TypeOK
<1>2. RowsEvolve(outbox[g], revision[g], outbox'[g], revision'[g])
  OBVIOUS
<1>3. Told(outbox'[g], revision'[g], posted'[g])
  BY <1>1, <1>2, ToldEvolve DEF OutboxInv
<1>4. \A message \in Messages :
        Accords(message, outbox[g], revision[g]) => Accords(message, outbox'[g], revision'[g])
  BY <1>1, <1>2, AccordsEvolve
<1>5. UnderWay(g)'
  <2>1. \A message \in late'[g] : Accords(message, outbox'[g], revision'[g])
    BY <1>1, <1>4 DEF OutboxInv, UnderWay
  <2>2. CASE attempt'[g] = NoAttempt
    BY <2>1, <2>2 DEF UnderWay, NoAttempt
  <2>3. CASE attempt'[g] = attempt[g]
    <3>1. Message(g)' = Message(g) /\ Message(g) \in Messages
      BY <2>3 DEF Message, TypeOK, Messages, Attempts
    <3> QED
      BY <1>1, <1>4, <2>1, <2>3, <3>1 DEF OutboxInv, UnderWay
  <2> QED
    BY <2>2, <2>3
<1> QED
  BY <1>3, <1>5

\* A recorded event keeps the invariant.
LEMMA RecordStep ==
  ASSUME IInv, TypeOK', NEW g \in Guilds, NEW announced, Record(g, announced)
  PROVE  SettingsInv' /\ OutboxInv'
<1> DEFINE row == Row(revision'[g], Activity, clock)
<1>1. TypeOK /\ SettingsInv /\ OutboxInv
  BY DEF IInv
<1>2. /\ revision' = [revision EXCEPT ![g] = @ + 1] /\ revision[g] \in Nat
      /\ outbox[g] \in Seq(Rows)
  BY <1>1 DEF Record, TypeOK
<1>3. row \in Rows /\ IsPending(row) /\ row.revision = revision[g] + 1 /\ row.welcome = Activity
  BY <1>1, <1>2 DEF TypeOK, Row, Rows, Activity, Deadlines, IsPending
<1>4. /\ outbox' = outbox \/ outbox' = [outbox EXCEPT ![g] = Append(outbox[g], row)]
      /\ UNCHANGED <<settings, paused_by, attempt, late, posted>>
  BY DEF Record, process, discord
<1> HIDE DEF row
<1>5. RowsKeep(outbox[g], revision[g], Append(outbox[g], row), revision[g] + 1)
  BY <1>2, <1>3, RowsKeepSelf, RowsKeepAppend
<1>6. RowsKeep(outbox[g], revision[g], outbox[g], revision[g] + 1)
  BY <1>2, RowsKeepSelf DEF RowsKeep, RowsEvolve
<1>7. \A h \in Guilds : RowsKeep(outbox[h], revision[h], outbox'[h], revision'[h])
  BY <1>1, <1>2, <1>4, <1>5, <1>6, RowsKeepSelf DEF TypeOK
<1>8. OutboxInv'
  <2>1. \A h \in Guilds : /\ RowsEvolve(outbox[h], revision[h], outbox'[h], revision'[h])
                          /\ DeliveriesPosted(outbox'[h], posted[h])
    BY <1>1, <1>7, RowsKeepPosted DEF RowsKeep, OutboxInv, Told
  <2> QED
    BY <1>1, <1>4, <2>1, DatabaseStep
<1>9. SettingsInv'
  <2>1. ASSUME NEW h \in Guilds, NEW i \in DOMAIN outbox'[h],
               IsPending(outbox'[h][i]), outbox'[h][i].welcome # Activity
        PROVE  /\ i \in DOMAIN outbox[h] /\ IsPending(outbox[h][i])
               /\ outbox'[h][i].welcome = outbox[h][i].welcome
    <3>1. CASE outbox'[h] = outbox[h]
      BY <2>1, <3>1
    <3>2. CASE outbox'[h] = Append(outbox[h], row) /\ h = g
      BY <1>2, <1>3, <2>1, <3>2
    <3> QED
      BY <1>1, <1>4, <3>1, <3>2 DEF TypeOK
  <2>2. \A h \in Guilds : AttemptOfSettings(h)'
    BY <1>1, <1>4 DEF SettingsInv, AttemptOfSettings
  <2> QED
    BY <1>1, <1>4, <2>1, <2>2, SettingsFrame
<1> QED
  BY <1>8, <1>9

\* Settings that change get a new version: no attempt was found under it.
LEMMA NewVersion ==
  ASSUME IInv, NEW g \in Guilds, UNCHANGED attempt,
         settings'[g].version = settings[g].version + 1,
         \A h \in Guilds : h # g => settings'[h] = settings[h]
  PROVE  \A h \in Guilds : AttemptOfSettings(h)'
<1> SUFFICES ASSUME NEW h \in Guilds PROVE AttemptOfSettings(h)'
  OBVIOUS
<1>1. attempt'[h] = attempt[h] /\ AttemptOfSettings(h)
  BY DEF IInv, SettingsInv
<1>2. CASE h # g
  BY <1>1, <1>2 DEF AttemptOfSettings
<1>3. CASE h = g
  <2>1. settings[g].version \in Nat /\ attempt[g].version \in Nat
    BY DEF IInv, TypeOK, Attempts
  <2> QED
    BY <1>1, <1>3, <2>1 DEF AttemptOfSettings
<1> QED
  BY <1>2, <1>3

\* Disabling keeps the invariant: nothing is pending afterwards.
LEMMA DisableStep ==
  ASSUME IInv, TypeOK', NEW g \in Guilds, Disable(g)
  PROVE  SettingsInv' /\ OutboxInv'
<1> DEFINE new == UpdateWhere(outbox[g], IsPending, Discarded)
<1>1. TypeOK /\ SettingsInv /\ OutboxInv
  BY DEF IInv
<1>2. outbox[g] \in Seq(Rows) /\ revision[g] \in Nat
  BY <1>1 DEF TypeOK
<1>3. /\ DOMAIN new = DOMAIN outbox[g]
      /\ \A i \in DOMAIN outbox[g] :
            /\ outbox[g][i] \in Rows
            /\ new[i] = IF IsPending(outbox[g][i]) THEN Discarded(outbox[g][i]) ELSE outbox[g][i]
  BY <1>2 DEF UpdateWhere
<1>4. /\ outbox' = [outbox EXCEPT ![g] = new]
      /\ settings' = [settings EXCEPT ![g] =
            [enabled |-> FALSE, channel |-> @.channel, version |-> @.version + 1,
             paused |-> FALSE]]
      /\ UNCHANGED <<revision, attempt, late, posted>>
      /\ paused_by' = [paused_by EXCEPT ![g] = 0]
  BY DEF Disable, process, discord
<1> HIDE DEF new
<1>5. \A i \in DOMAIN new : ~IsPending(new[i])
  BY <1>3 DEF IsPending, Discarded, Rows
<1>6. RowsKeep(outbox[g], revision[g], new, revision[g])
  <2>1. \A i \in DOMAIN outbox[g] :
            /\ new[i].revision = outbox[g][i].revision /\ new[i].welcome = outbox[g][i].welcome
            /\ new[i].delivered_to = outbox[g][i].delivered_to
            /\ new[i].state = outbox[g][i].state \/ new[i].state = "discarded"
    BY <1>3, RowFacts
  <2> QED
    BY <1>2, <1>3, <1>5, <2>1 DEF RowsKeep, RowsEvolve, IsPending
<1>7. \A h \in Guilds : RowsKeep(outbox[h], revision[h], outbox'[h], revision'[h])
  BY <1>1, <1>4, <1>6, RowsKeepSelf DEF TypeOK
<1>8. OutboxInv'
  <2>1. \A h \in Guilds : /\ RowsEvolve(outbox[h], revision[h], outbox'[h], revision'[h])
                          /\ DeliveriesPosted(outbox'[h], posted[h])
    BY <1>1, <1>7, RowsKeepPosted DEF RowsKeep, OutboxInv, Told
  <2> QED
    BY <1>1, <1>4, <2>1, DatabaseStep
<1>9. SettingsInv'
  <2>1. \A h \in Guilds : AttemptOfSettings(h)'
    <3>1. settings'[g].version = settings[g].version + 1
      BY <1>1, <1>4 DEF TypeOK
    <3>2. \A h \in Guilds : h # g => settings'[h] = settings[h]
      BY <1>1, <1>4 DEF TypeOK
    <3> QED
      BY <1>4, <3>1, <3>2, NewVersion
  <2>2. Pending(g)' = {} /\ ~settings'[g].paused
    BY <1>1, <1>4, <1>5 DEF Pending, TypeOK
  <2>3. \A h \in Guilds : h # g => /\ settings'[h] = settings[h] /\ outbox'[h] = outbox[h]
                                   /\ paused_by'[h] = paused_by[h]
    BY <1>1, <1>4 DEF TypeOK
  <2> QED
    BY <1>1, <2>1, <2>2, <2>3 DEF SettingsInv, FormerSettingsAreGone, Pending
<1> QED
  BY <1>8, <1>9

\* What SetChannel does to the rows: those that wait stay, but for the welcomes
\* of another destination.
LEMMA SetChannelRows ==
  ASSUME IInv, NEW g \in Guilds, NEW channel \in Channels, SetChannel(g, channel)
  PROVE  /\ RowsKeep(outbox[g], revision[g], outbox'[g], revision'[g])
         /\ \A i \in DOMAIN outbox'[g] :
                IsPending(outbox'[g][i]) /\ outbox'[g][i].welcome # Activity =>
                    outbox'[g][i].welcome = channel
<1> DEFINE requeued == UpdateWhere(outbox[g], IsPending, Requeued)
           kept == DiscardWelcomes(requeued)
           row == Row(revision'[g], channel, clock)
           welcome == ~(settings[g].enabled /\ settings[g].channel = channel)
<1>1. TypeOK /\ SettingsInv
  BY DEF IInv
<1>2. outbox[g] \in Seq(Rows) /\ revision[g] \in Nat /\ channel \in Nat
  BY <1>1, ChannelsAssumption DEF TypeOK
<1>3. /\ requeued \in Seq(Rows) /\ kept \in Seq(Rows)
      /\ outbox'[g] = IF welcome THEN Append(kept, row) ELSE requeued
  <2>1. requeued \in Seq(Rows) /\ kept \in Seq(Rows)
    BY <1>1, SetChannelOutbox
  <2>2. outbox' = [outbox EXCEPT ![g] = IF welcome THEN Append(kept, row) ELSE requeued]
    BY <1>1, SetChannelOutbox
  <2> HIDE DEF requeued, kept, row, welcome
  <2> QED
    BY <1>1, <2>1, <2>2 DEF TypeOK
<1>4. revision'[g] = IF welcome THEN revision[g] + 1 ELSE revision[g]
  BY <1>1 DEF SetChannel, TypeOK
<1>5. /\ DOMAIN requeued = DOMAIN outbox[g]
      /\ \A i \in DOMAIN outbox[g] :
            /\ outbox[g][i] \in Rows /\ requeued[i] \in Rows
            /\ requeued[i].revision = outbox[g][i].revision
            /\ requeued[i].welcome = outbox[g][i].welcome
            /\ requeued[i].state = outbox[g][i].state
            /\ requeued[i].delivered_to = outbox[g][i].delivered_to
  <2>1. /\ DOMAIN requeued = DOMAIN outbox[g]
        /\ \A i \in DOMAIN outbox[g] :
            requeued[i] = IF IsPending(outbox[g][i]) THEN Requeued(outbox[g][i]) ELSE outbox[g][i]
    BY <1>2 DEF UpdateWhere
  <2>2. \A i \in DOMAIN outbox[g] : outbox[g][i] \in Rows /\ requeued[i] \in Rows
    <3> HIDE DEF requeued
    <3> QED
      BY <1>2, <1>3, <2>1
  <2> HIDE DEF requeued
  <2> QED
    BY <2>1, <2>2, RowFacts
<1> HIDE DEF requeued
<1>6. /\ DOMAIN kept = DOMAIN outbox[g]
      /\ \A i \in DOMAIN outbox[g] :
            kept[i] = IF IsPending(requeued[i]) /\ requeued[i].welcome # Activity
                      THEN Discarded(requeued[i]) ELSE requeued[i]
  BY <1>5 DEF DiscardWelcomes, UpdateWhere
<1>7. \A i \in DOMAIN outbox[g] :
            /\ kept[i].revision = outbox[g][i].revision
            /\ kept[i].welcome = outbox[g][i].welcome
            /\ kept[i].delivered_to = outbox[g][i].delivered_to
            /\ kept[i].state = outbox[g][i].state \/ kept[i].state = "discarded"
            /\ IsPending(kept[i]) => kept[i].welcome = Activity
  <2> SUFFICES ASSUME NEW i \in DOMAIN outbox[g]
               PROVE  /\ kept[i].revision = outbox[g][i].revision
                      /\ kept[i].welcome = outbox[g][i].welcome
                      /\ kept[i].delivered_to = outbox[g][i].delivered_to
                      /\ kept[i].state = outbox[g][i].state \/ kept[i].state = "discarded"
                      /\ IsPending(kept[i]) => kept[i].welcome = Activity
    OBVIOUS
  <2> HIDE DEF kept
  <2>1. CASE IsPending(requeued[i]) /\ requeued[i].welcome # Activity
    BY <1>5, <1>6, <2>1, RowFacts DEF IsPending
  <2>2. CASE ~(IsPending(requeued[i]) /\ requeued[i].welcome # Activity)
    <3>1. kept[i] = requeued[i]
      BY <1>6, <2>2
    <3> QED
      BY <1>5, <2>2, <3>1
  <2> QED
    BY <2>1, <2>2
<1> HIDE DEF kept
<1>8. CASE ~welcome
  <2>1. RowsKeep(outbox[g], revision[g], requeued, revision[g])
    BY <1>2, <1>5 DEF RowsKeep, RowsEvolve, IsPending
  <2>2. ASSUME NEW i \in DOMAIN requeued, IsPending(requeued[i]), requeued[i].welcome # Activity
        PROVE  requeued[i].welcome = channel
    <3>1. i \in Pending(g) /\ outbox[g][i].welcome # Activity
      BY <1>5, <2>2 DEF Pending, IsPending
    <3> QED
      BY <1>1, <1>5, <1>8, <3>1 DEF SettingsInv, FormerSettingsAreGone, Pending
  <2> QED
    BY <1>3, <1>4, <1>8, <2>1, <2>2
<1>9. CASE welcome
  <2>1. row \in Rows /\ IsPending(row) /\ row.revision = revision[g] + 1 /\ row.welcome = channel
    BY <1>1, <1>2, <1>4, <1>9 DEF TypeOK, Row, Rows, Deadlines, IsPending
  <2> HIDE DEF row
  <2>2. RowsKeep(outbox[g], revision[g], kept, revision[g])
    BY <1>2, <1>6, <1>7 DEF RowsKeep, RowsEvolve, IsPending
  <2>3. RowsKeep(outbox[g], revision[g], Append(kept, row), revision[g] + 1)
    BY <1>2, <1>3, <1>6, <2>1, <2>2, RowsKeepAppend
  <2>4. \A i \in DOMAIN Append(kept, row) :
            \/ i \in DOMAIN outbox[g] /\ Append(kept, row)[i] = kept[i]
            \/ Append(kept, row)[i] = row
    BY <1>3, <1>6
  <2> QED
    BY <1>3, <1>4, <1>7, <1>9, <2>1, <2>3, <2>4
<1> QED
  BY <1>8, <1>9

\* A new destination keeps the invariant.
LEMMA SetChannelStep ==
  ASSUME IInv, TypeOK', NEW g \in Guilds, NEW channel \in Channels, SetChannel(g, channel)
  PROVE  SettingsInv' /\ OutboxInv'
<1>1. TypeOK /\ SettingsInv /\ OutboxInv
  BY DEF IInv
<1>2. /\ settings' = [settings EXCEPT ![g] =
            [enabled |-> TRUE, channel |-> channel, version |-> @.version + 1,
             paused |-> FALSE]]
      /\ UNCHANGED <<attempt, late, posted>>
      /\ paused_by' = [paused_by EXCEPT ![g] = 0]
  BY DEF SetChannel, process, discord
<1>3. \A h \in Guilds : h # g => /\ settings'[h] = settings[h] /\ outbox'[h] = outbox[h]
                                 /\ paused_by'[h] = paused_by[h] /\ revision'[h] = revision[h]
  BY <1>1 DEF SetChannel, TypeOK
<1>4. \A h \in Guilds : RowsKeep(outbox[h], revision[h], outbox'[h], revision'[h])
  BY <1>1, <1>3, SetChannelRows, RowsKeepSelf DEF TypeOK
<1>5. OutboxInv'
  <2>1. \A h \in Guilds : /\ RowsEvolve(outbox[h], revision[h], outbox'[h], revision'[h])
                          /\ DeliveriesPosted(outbox'[h], posted[h])
    BY <1>1, <1>4, RowsKeepPosted DEF RowsKeep, OutboxInv, Told
  <2> QED
    BY <1>1, <1>2, <2>1, DatabaseStep
<1>6. SettingsInv'
  <2>1. settings'[g] = [enabled |-> TRUE, channel |-> channel,
                        version |-> settings[g].version + 1, paused |-> FALSE]
    BY <1>1, <1>2 DEF TypeOK
  <2>2. \A h \in Guilds : AttemptOfSettings(h)'
    BY <1>2, <1>3, <2>1, NewVersion
  <2>3. \A i \in Pending(g)' : outbox'[g][i].welcome # Activity => outbox'[g][i].welcome = channel
    BY SetChannelRows DEF Pending
  <2> QED
    BY <1>1, <1>3, <2>1, <2>2, <2>3 DEF SettingsInv, FormerSettingsAreGone, Pending
<1> QED
  BY <1>5, <1>6

-----------------------------------------------------------------------------
(* The worker.                                                             *)

\* A message that leaves accords with the rows: the row was the oldest pending
\* one when it was checked.
LEMMA EligibleAccords ==
  ASSUME IInv, NEW g \in Guilds, StillEligible(g)
  PROVE  Accords(Message(g), outbox[g], revision[g])
<1> DEFINE m == Min(Pending(g))
<1>1. TypeOK /\ SettingsInv /\ RowsInOrder(outbox[g], revision[g])
  BY DEF IInv, OutboxInv, Told
<1>2. /\ Pending(g) # {} /\ outbox[g][m].revision = attempt[g].revision
      /\ settings[g].channel = attempt[g].channel
  BY DEF StillEligible, Oldest
<1>3. m \in Pending(g) /\ m \in DOMAIN outbox[g] /\ \A i \in Pending(g) : m <= i
  BY <1>1, <1>2, PendingType
<1>4. outbox[g] \in Seq(Rows) /\ attempt[g].revision \in Nat
  BY <1>1 DEF TypeOK, Attempts
<1>5. \A i \in DOMAIN outbox[g] : i \in Nat /\ outbox[g][i] \in Rows /\ outbox[g][i].revision \in Nat
  <2>1. \A i \in DOMAIN outbox[g] : i \in Nat /\ outbox[g][i] \in Rows
    BY <1>4
  <2> QED
    BY <2>1 DEF Rows
<1> HIDE DEF m
<1>6. Message(g).revision = outbox[g][m].revision /\ Message(g).channel = settings[g].channel
  BY <1>2 DEF Message
<1>7. Message(g).revision <= revision[g]
  BY <1>1, <1>3, <1>6 DEF RowsInOrder
<1>8. ASSUME NEW i \in DOMAIN outbox[g], IsPending(outbox[g][i])
      PROVE  Message(g).revision <= outbox[g][i].revision
  <2>1. m <= i
    BY <1>3, <1>8 DEF Pending
  <2>2. CASE m = i
    BY <1>5, <1>6, <2>2
  <2>3. CASE m < i
    BY <1>1, <1>3, <1>5, <1>6, <2>3 DEF RowsInOrder
  <2> QED
    BY <1>3, <1>5, <2>1, <2>2, <2>3
<1>9. ASSUME NEW i \in DOMAIN outbox[g], outbox[g][i].revision = Message(g).revision,
             outbox[g][i].welcome # Activity
      PROVE  Message(g).channel = outbox[g][i].welcome
  <2>1. i = m
    BY <1>1, <1>3, <1>5, <1>6, <1>9 DEF RowsInOrder
  <2> QED
    BY <1>1, <1>3, <1>6, <1>9, <2>1 DEF SettingsInv, FormerSettingsAreGone
<1> QED
  BY <1>7, <1>8, <1>9 DEF Accords

\* A step that leaves rows and settings alone keeps the settings' invariant if
\* its attempts were there before.
LEMMA SettingsKept ==
  ASSUME IInv, UNCHANGED <<settings, paused_by, outbox>>,
         \A g \in Guilds :
            \/ attempt'[g].pc = "idle"
            \/ /\ attempt[g].pc # "idle"
               /\ attempt'[g].version = attempt[g].version
  PROVE  SettingsInv'
<1>1. \A g \in Guilds : AttemptOfSettings(g)'
  BY DEF IInv, SettingsInv, AttemptOfSettings
<1> QED
  BY <1>1 DEF IInv, SettingsInv, FormerSettingsAreGone, Pending

\* Finding a batch keeps the invariant: its attempts carry the current version.
LEMMA DiscoverStep ==
  ASSUME IInv, Discover
  PROVE  SettingsInv' /\ OutboxInv'
<1>1. UNCHANGED <<settings, outbox, revision, late, posted, paused_by>>
  BY DEF Discover, database, discord
<1>2. ASSUME NEW g \in Guilds
      PROVE  \/ attempt'[g].pc = "idle"
             \/ /\ attempt'[g].pc = "found" /\ attempt'[g].version = settings[g].version
                /\ settings[g].enabled
  <2>1. CASE g \in Batch
    BY <2>1 DEF Discover, Found, Batch, IsDue, Active
  <2>2. CASE g \notin Batch
    BY <2>2 DEF Discover, NoAttempt
  <2> QED
    BY <2>1, <2>2
<1>3. \A g \in Guilds : AttemptOfSettings(g)'
  BY <1>1, <1>2 DEF AttemptOfSettings, IInv, TypeOK
<1>4. SettingsInv'
  BY <1>1, <1>3 DEF IInv, SettingsInv, FormerSettingsAreGone, Pending
<1>5. OutboxInv'
  BY <1>1, <1>2 DEF IInv, OutboxInv, UnderWay
<1> QED
  BY <1>4, <1>5

\* The check before the request keeps the invariant.
LEMMA CheckStep ==
  ASSUME IInv, NEW g \in Guilds, Check(g)
  PROVE  SettingsInv' /\ OutboxInv'
<1>1. /\ UNCHANGED <<settings, outbox, revision, late, posted, paused_by>>
      /\ attempt[g].pc = "found"
  BY DEF Check, database, discord
<1>2. \A h \in Guilds : h # g => attempt'[h] = attempt[h]
  BY DEF Check, IInv, TypeOK
<1>3. \/ attempt'[g] = NoAttempt
      \/ StillEligible(g) /\ attempt'[g] = [attempt[g] EXCEPT !.pc = "send"]
  BY DEF Check, IInv, TypeOK
<1>4. attempt[g] \in Attempts
  BY DEF IInv, TypeOK
<1>5. SettingsInv'
  <2>1. attempt'[g].pc = "idle" \/ attempt'[g].version = attempt[g].version
    BY <1>3, <1>4 DEF NoAttempt, Attempts
  <2> QED
    BY <1>1, <1>2, <2>1, SettingsKept
<1>6. UnderWay(g)'
  <2>1. CASE attempt'[g] = NoAttempt
    BY <1>1, <2>1 DEF IInv, OutboxInv, UnderWay, NoAttempt
  <2>2. CASE StillEligible(g) /\ attempt'[g] = [attempt[g] EXCEPT !.pc = "send"]
    <3>1. Message(g)' = Message(g) /\ attempt'[g].pc = "send"
      BY <1>4, <2>2 DEF Message, Attempts
    <3>2. Accords(Message(g), outbox[g], revision[g])
      BY <2>2, EligibleAccords
    <3> QED
      BY <1>1, <3>1, <3>2 DEF IInv, OutboxInv, UnderWay
  <2> QED
    BY <1>3, <2>1, <2>2
<1>7. OutboxInv'
  BY <1>1, <1>2, <1>6 DEF IInv, OutboxInv, UnderWay, Message
<1> QED
  BY <1>5, <1>7

\* Sending keeps the invariant: the message was already in accord.
LEMMA SendStep ==
  ASSUME IInv, NEW g \in Guilds, Send(g)
  PROVE  SettingsInv' /\ OutboxInv'
<1>1. /\ UNCHANGED <<settings, outbox, revision, late, posted, paused_by>>
      /\ attempt[g].pc = "send" /\ attempt[g] \in Attempts
      /\ attempt'[g] = [attempt[g] EXCEPT !.pc = "sent"]
      /\ \A h \in Guilds : h # g => attempt'[h] = attempt[h]
  BY DEF Send, database, discord, IInv, TypeOK
<1>2. /\ Message(g)' = Message(g) /\ attempt'[g].pc = "sent"
      /\ attempt'[g].version = attempt[g].version
  BY <1>1 DEF Message, Attempts
<1>3. SettingsInv'
  BY <1>1, <1>2, SettingsKept
<1>4. OutboxInv'
  BY <1>1, <1>2 DEF IInv, OutboxInv, UnderWay, Message
<1> QED
  BY <1>3, <1>4

\* An attempt that ends without a record keeps the invariant.
LEMMA AbandonStep ==
  ASSUME IInv, NEW g \in Guilds, Abandon(g)
  PROVE  SettingsInv' /\ OutboxInv'
<1>1. /\ UNCHANGED <<settings, outbox, revision, late, posted, paused_by>>
      /\ attempt'[g] = NoAttempt
      /\ \A h \in Guilds : h # g => attempt'[h] = attempt[h]
  BY DEF Abandon, database, discord, IInv, TypeOK
<1>2. SettingsInv'
  BY <1>1, SettingsKept DEF NoAttempt
<1>3. OutboxInv'
  <2>1. UnderWay(g)'
    BY <1>1 DEF IInv, OutboxInv, UnderWay, NoAttempt
  <2> QED
    BY <1>1, <2>1 DEF IInv, OutboxInv, UnderWay, Message
<1> QED
  BY <1>2, <1>3

\* The steps of Discord: messages in accord with the rows are posted, or may be.
LEMMA DiscordStep ==
  ASSUME IInv, NEW g \in Guilds, NEW message \in Messages,
         Accords(message, outbox[g], revision[g]),
         UNCHANGED <<settings, outbox, revision, paused_by>>,
         Post(g, message) \/ UNCHANGED posted,
         \A h \in Guilds : h # g => late'[h] = late[h] /\ attempt'[h] = attempt[h],
         late'[g] \subseteq late[g] \cup {message},
         \/ attempt'[g] = attempt[g]
         \/ /\ attempt[g].pc = "sent" /\ attempt'[g].pc = "finish"
            /\ attempt'[g].version = attempt[g].version
            /\ attempt'[g].outcome = "delivered" => Post(g, message) /\ Message(g)' = message
  PROVE  SettingsInv' /\ OutboxInv'
<1>1. SettingsInv'
  BY SettingsKept
<1>2. ASSUME NEW h \in Guilds
      PROVE  /\ Told(outbox[h], revision[h], posted[h]) /\ UnderWay(h)
             /\ outbox[h] \in Seq(Rows) /\ revision[h] \in Nat /\ posted[h] \in Seq(Messages)
  BY DEF IInv, OutboxInv, TypeOK
<1>3. /\ \A h \in Guilds : h # g => posted'[h] = posted[h]
      /\ posted'[g] = posted[g] \/ posted'[g] = Append(posted[g], message)
      /\ Post(g, message) => posted'[g] = Append(posted[g], message)
  BY DEF Post, IInv, TypeOK
<1>4. /\ Told(outbox[g], revision[g], posted'[g])
      /\ Post(g, message) => WasPosted(message, posted'[g])
      /\ \A m : WasPosted(m, posted[g]) => WasPosted(m, posted'[g])
  BY <1>2, <1>3, ToldPost
<1>5. UnderWay(g)'
  <2>1. \A m \in late'[g] : Accords(m, outbox[g], revision[g])
    BY <1>2 DEF UnderWay
  <2>2. CASE attempt'[g] = attempt[g]
    <3>1. Message(g)' = Message(g)
      BY <2>2 DEF Message
    <3> QED
      BY <1>2, <1>4, <2>1, <2>2, <3>1 DEF UnderWay
  <2>3. CASE attempt'[g].pc = "finish" /\ (attempt'[g].outcome = "delivered" =>
                Post(g, message) /\ Message(g)' = message)
    BY <1>4, <2>1, <2>3 DEF UnderWay
  <2> QED
    BY <2>2, <2>3
<1>6. \A h \in Guilds : h # g => UnderWay(h)' /\ Told(outbox[h], revision[h], posted[h])'
  BY <1>2, <1>3 DEF UnderWay, Message
<1>7. OutboxInv'
  BY <1>4, <1>5, <1>6 DEF OutboxInv
<1> QED
  BY <1>1, <1>7

\* Every end of a request keeps the invariant.
LEMMA AnswerStep ==
  ASSUME IInv, NEW g \in Guilds, Answer(g)
  PROVE  SettingsInv' /\ OutboxInv'
<1> DEFINE message == Message(g)
<1>1. TypeOK /\ attempt[g].pc = "sent"
  BY DEF IInv, Answer, Delivered, TimedOut, Refused
<1>2. /\ message \in Messages
      /\ Accords(message, outbox[g], revision[g])
  BY <1>1 DEF IInv, OutboxInv, UnderWay, Message, Messages, TypeOK, Attempts
<1>3. PICK outcome \in {"delivered", "retry", "pause"} :
        Outcome(g, outcome) /\ (outcome = "delivered" => Delivered(g))
  BY DEF Answer, Delivered, TimedOut, Refused
<1>4. attempt' = [attempt EXCEPT ![g] = [@ EXCEPT !.pc = "finish", !.outcome = outcome]]
  BY <1>1, <1>3, OutcomeEffect
<1>5. /\ attempt'[g].pc = "finish" /\ attempt'[g].outcome = outcome
      /\ attempt'[g].version = attempt[g].version /\ Message(g)' = Message(g)
      /\ \A h \in Guilds : h # g => attempt'[h] = attempt[h]
  <2>1. attempt[g] \in Attempts
    BY <1>1 DEF TypeOK
  <2>2. attempt'[g] = [attempt[g] EXCEPT !.pc = "finish", !.outcome = outcome]
    BY <1>1, <1>4 DEF TypeOK
  <2>3. \A h \in Guilds : h # g => attempt'[h] = attempt[h]
    BY <1>1, <1>4 DEF TypeOK
  <2> QED
    BY <2>1, <2>2, <2>3 DEF Attempts, Message
<1>6. UNCHANGED <<settings, outbox, revision, paused_by>>
  BY DEF Answer, Delivered, TimedOut, Refused, database
<1>7. /\ Post(g, message) \/ UNCHANGED posted
      /\ late' = late \/ late' = [late EXCEPT ![g] = @ \cup {message}]
  BY DEF Answer, Delivered, TimedOut, Refused, discord
<1>8. /\ \A h \in Guilds : h # g => late'[h] = late[h]
      /\ late'[g] \subseteq late[g] \cup {message}
  BY <1>1, <1>7 DEF TypeOK
<1>9. outcome = "delivered" => Post(g, message)
  BY <1>3 DEF Delivered
<1> HIDE DEF message
<1> QED
  BY <1>1, <1>2, <1>5, <1>6, <1>7, <1>8, <1>9, DiscordStep DEF message

\* A late request keeps the invariant, whether it is posted or lost.
LEMMA LateStep ==
  ASSUME IInv, NEW g \in Guilds, PostLate(g) \/ Lose(g)
  PROVE  SettingsInv' /\ OutboxInv'
<1>1. PICK message \in late[g] : /\ late' = [late EXCEPT ![g] = @ \ {message}]
                                 /\ Post(g, message) \/ UNCHANGED posted
  BY DEF PostLate, Lose
<1>2. UNCHANGED <<settings, outbox, revision, attempt, paused_by>>
  BY DEF PostLate, Lose, database, process
<1>3. message \in Messages /\ Accords(message, outbox[g], revision[g])
  BY DEF IInv, TypeOK, OutboxInv, UnderWay
<1>4. /\ \A h \in Guilds : h # g => late'[h] = late[h]
      /\ late'[g] \subseteq late[g] \cup {message}
  BY <1>1 DEF IInv, TypeOK
<1> QED
  BY <1>1, <1>2, <1>3, <1>4, DiscordStep

\* Shutdown, aborts, crashes, restarts and the clock keep the invariant.
LEMMA WorkerStep ==
  ASSUME IInv, Shutdown \/ Drained \/ Abort \/ Crash \/ Restart \/ Advance \/ SetBack
  PROVE  SettingsInv' /\ OutboxInv'
<1>1. UNCHANGED <<settings, outbox, revision, posted, paused_by>>
  BY DEF Shutdown, Drained, Abort, Crash, Restart, Advance, SetBack, DropAttempts, database,
         discord
<1>2. CASE Abort \/ Crash
  <2>1. \A g \in Guilds :
            /\ attempt'[g].pc = "idle"
            /\ late'[g] = IF attempt[g].pc = "sent" THEN late[g] \cup {Message(g)} ELSE late[g]
    <3>1. NoAttempt.pc = "idle"
      BY DEF NoAttempt
    <3> QED
      BY <1>2, <3>1 DEF Abort, Crash, DropAttempts
  <2>2. SettingsInv'
    BY <1>1, <2>1, SettingsKept
  <2>3. ASSUME NEW g \in Guilds PROVE UnderWay(g)'
    <3>1. UnderWay(g)
      BY DEF IInv, OutboxInv
    <3>2. \A message \in late'[g] : Accords(message, outbox[g], revision[g])
      BY <2>1, <3>1 DEF UnderWay
    <3> QED
      BY <1>1, <2>1, <3>2 DEF UnderWay
  <2> QED
    BY <1>1, <2>2, <2>3 DEF IInv, OutboxInv
<1>3. CASE ~(Abort \/ Crash)
  <2>1. UNCHANGED <<attempt, late>>
    BY <1>3 DEF Shutdown, Drained, Restart, Advance, SetBack, process, discord
  <2>2. SettingsInv'
    BY <1>1, <2>1, SettingsKept
  <2> QED
    BY <1>1, <2>1, <2>2 DEF IInv, OutboxInv, UnderWay, Message
<1> QED
  BY <1>2, <1>3

\* A recorded outcome: the row of the attempt stays what it announces, and is
\* marked as delivered only after its message was posted.
LEMMA FinishRows ==
  ASSUME IInv, NEW g \in Guilds, Finish(g)
  PROVE  /\ RowsEvolve(outbox[g], revision[g], outbox'[g], revision[g])
         /\ DeliveriesPosted(outbox'[g], posted[g])
         /\ DOMAIN outbox'[g] = DOMAIN outbox[g]
         /\ \A h \in Guilds : h # g => outbox'[h] = outbox[h]
<1> DEFINE k == RowOf(g)
           rows == outbox[g]
<1>1. TypeOK /\ rows \in Seq(Rows) /\ revision[g] \in Nat /\ attempt[g] \in Attempts
  BY DEF IInv, TypeOK
<1>2. DeliveriesPosted(rows, posted[g])
  BY DEF IInv, OutboxInv, Told
<1>3. CASE outbox' = outbox
  BY <1>1, <1>2, <1>3, RowsKeepSelf DEF RowsKeep
<1>4. ASSUME outbox' # outbox
      PROVE  /\ k # 0
             /\ \E row : /\ outbox' = [outbox EXCEPT ![g] = [@ EXCEPT ![k] = row]]
                         /\ row.revision = rows[k].revision /\ row.welcome = rows[k].welcome
                         /\ \/ row.state = rows[k].state /\ row.delivered_to = rows[k].delivered_to
                            \/ /\ row.state = "delivered" /\ rows[k].state # "discarded"
                               /\ row.delivered_to = attempt[g].channel
                               /\ attempt[g].outcome = "delivered"
  <2>1. CASE attempt[g].outcome = "delivered"
    <3> DEFINE row == [rows[k] EXCEPT !.state = "delivered", !.delivered_to = attempt[g].channel]
    <3>1. outbox' = RecordDelivery(g)
      BY <2>1 DEF Finish
    <3>2. /\ k # 0 /\ IsPending(rows[k])
          /\ outbox' = [outbox EXCEPT ![g] = [@ EXCEPT ![k] = row]]
      BY <1>1, <1>4, <3>1, RecordDeliveryEffect
    <3>3. rows[k] \in Rows
      BY <1>1, <3>2, RowOfFact
    <3>4. /\ row.revision = rows[k].revision /\ row.welcome = rows[k].welcome
          /\ row.state = "delivered" /\ row.delivered_to = attempt[g].channel
      BY <3>3 DEF Rows
    <3>5. rows[k].state # "discarded"
      BY <3>2 DEF IsPending
    <3> HIDE DEF row, k, rows
    <3> QED
      BY <2>1, <3>2, <3>4, <3>5
  <2>2. CASE attempt[g].outcome # "delivered"
    <3>1. Applicable(g) /\ outbox' = RecordFailure(g)
      BY <1>4, <2>2 DEF Finish
    <3>2. k # 0
      BY <3>1 DEF Applicable
    <3>3. PICK attempts \in Nat, deadline \in Deadlines :
            outbox' = [outbox EXCEPT ![g] = [@ EXCEPT ![k] =
                        [rows[k] EXCEPT !.attempts = attempts, !.next_attempt_at = deadline]]]
      BY <1>1, <3>1, <3>2, RecordFailureEffect
    <3> DEFINE row == [rows[k] EXCEPT !.attempts = attempts, !.next_attempt_at = deadline]
    <3>4. rows[k] \in Rows
      BY <1>1, <3>2, RowOfFact
    <3>5. /\ row.revision = rows[k].revision /\ row.welcome = rows[k].welcome
          /\ row.state = rows[k].state /\ row.delivered_to = rows[k].delivered_to
      BY <3>4 DEF Rows
    <3>6. outbox' = [outbox EXCEPT ![g] = [@ EXCEPT ![k] = row]]
      BY <3>3
    <3> HIDE DEF row, k, rows
    <3> QED
      BY <3>2, <3>5, <3>6
  <2> QED
    BY <2>1, <2>2
<1>5. CASE outbox' # outbox
  <2>1. PICK row : /\ outbox' = [outbox EXCEPT ![g] = [@ EXCEPT ![k] = row]]
                   /\ row.revision = rows[k].revision /\ row.welcome = rows[k].welcome
                   /\ \/ row.state = rows[k].state /\ row.delivered_to = rows[k].delivered_to
                      \/ /\ row.state = "delivered" /\ rows[k].state # "discarded"
                         /\ row.delivered_to = attempt[g].channel
                         /\ attempt[g].outcome = "delivered"
    BY <1>4, <1>5
  <2>2. k \in DOMAIN rows /\ rows[k].revision = attempt[g].revision
    BY <1>1, <1>4, <1>5, RowOfFact
  <2>3. /\ DOMAIN outbox'[g] = DOMAIN rows
        /\ \A i \in DOMAIN rows : outbox'[g][i] = IF i = k THEN row ELSE rows[i]
        /\ \A h \in Guilds : h # g => outbox'[h] = outbox[h]
    BY <1>1, <2>1, <2>2 DEF TypeOK
  <2> HIDE DEF k
  <2>4. RowsEvolve(rows, revision[g], outbox'[g], revision[g])
    <3>1. IsPending(row) => IsPending(rows[k])
      BY <2>1 DEF IsPending
    <3>2. row.state # "discarded" => rows[k].state # "discarded"
      BY <2>1
    <3> QED
      BY <1>1, <2>1, <2>2, <2>3, <3>1, <3>2 DEF RowsEvolve
  <2>5. ASSUME NEW i \in DOMAIN rows, outbox'[g][i].state = "delivered"
        PROVE  WasPosted([revision |-> outbox'[g][i].revision,
                          channel |-> outbox'[g][i].delivered_to], posted[g])
    <3>1. CASE i # k
      BY <1>2, <2>3, <2>5, <3>1 DEF DeliveriesPosted
    <3>2. CASE i = k /\ row.state = rows[k].state /\ row.delivered_to = rows[k].delivered_to
      BY <1>2, <2>1, <2>2, <2>3, <2>5, <3>2 DEF DeliveriesPosted
    <3>3. CASE i = k /\ row.delivered_to = attempt[g].channel /\ attempt[g].outcome = "delivered"
      <4>1. WasPosted(Message(g), posted[g])
        BY <3>3 DEF IInv, OutboxInv, UnderWay, Finish
      <4> QED
        BY <2>1, <2>2, <2>3, <3>3, <4>1 DEF Message
    <3> QED
      BY <2>1, <3>1, <3>2, <3>3
  <2>6. DeliveriesPosted(outbox'[g], posted[g])
    BY <2>3, <2>5 DEF DeliveriesPosted
  <2> QED
    BY <2>3, <2>4, <2>6
<1> QED
  BY <1>3, <1>5

\* Recording an outcome keeps the invariant.
LEMMA FinishStep ==
  ASSUME IInv, TypeOK', NEW g \in Guilds, Finish(g)
  PROVE  SettingsInv' /\ OutboxInv'
<1>1. TypeOK /\ SettingsInv /\ OutboxInv
  BY DEF IInv
<1>2. /\ UNCHANGED <<revision, late, posted>>
      /\ attempt' = [attempt EXCEPT ![g] = NoAttempt]
      /\ attempt[g].pc = "finish"
  BY DEF Finish, discord
<1>3. \A h \in Guilds : RowsEvolve(outbox[h], revision[h], outbox'[h], revision'[h])
                        /\ DeliveriesPosted(outbox'[h], posted[h])
  BY <1>1, <1>2, FinishRows, RowsKeepSelf DEF TypeOK, RowsKeep, OutboxInv, Told
<1>4. OutboxInv'
  BY <1>1, <1>2, <1>3, DatabaseStep DEF TypeOK
<1>5. SettingsInv'
  <2>1. \/ UNCHANGED <<settings, paused_by>>
        \/ /\ settings[g].version = attempt[g].version
           /\ settings' = [settings EXCEPT ![g].paused = TRUE]
           /\ paused_by' = [paused_by EXCEPT ![g] = attempt[g].version]
    BY DEF Finish, Applicable
  <2>2. \A h \in Guilds : /\ settings'[h].enabled = settings[h].enabled
                          /\ settings'[h].channel = settings[h].channel
                          /\ settings'[h].version = settings[h].version
    <3>1. \A h \in Guilds : \/ settings'[h] = settings[h]
                            \/ settings'[h] = [settings[h] EXCEPT !.paused = TRUE]
      BY <1>1, <2>1 DEF TypeOK
    <3>2. \A h \in Guilds :
            settings[h] \in [enabled : BOOLEAN, channel : Nat, version : Nat, paused : BOOLEAN]
      BY <1>1 DEF TypeOK
    <3> QED
      BY <3>1, <3>2
  <2>3. ASSUME NEW h \in Guilds, settings'[h].paused
        PROVE  settings'[h].enabled /\ paused_by'[h] = settings'[h].version
    <3>1. CASE settings'[h].paused = settings[h].paused /\ paused_by'[h] = paused_by[h]
      BY <1>1, <2>2, <2>3, <3>1 DEF SettingsInv, FormerSettingsAreGone
    <3>2. CASE h = g /\ settings[g].version = attempt[g].version
               /\ paused_by'[g] = attempt[g].version
      BY <1>1, <1>2, <2>2, <3>2 DEF SettingsInv, AttemptOfSettings
    <3> QED
      BY <1>1, <2>1, <3>1, <3>2 DEF TypeOK
  <2>4. ASSUME NEW h \in Guilds, NEW i \in Pending(h)', outbox'[h][i].welcome # Activity
        PROVE  settings'[h].enabled /\ settings'[h].channel = outbox'[h][i].welcome
    <3>1. i \in DOMAIN outbox[h]
      BY FinishRows DEF Pending
    <3>2. i \in Pending(h) /\ outbox'[h][i].welcome = outbox[h][i].welcome
      BY <1>3, <3>1 DEF RowsEvolve, Pending
    <3> QED
      BY <1>1, <2>2, <2>4, <3>2 DEF SettingsInv, FormerSettingsAreGone
  <2>5. \A h \in Guilds : AttemptOfSettings(h)'
    <3>1. NoAttempt.pc = "idle"
      BY DEF NoAttempt
    <3> QED
      BY <1>1, <1>2, <2>2, <3>1 DEF SettingsInv, AttemptOfSettings, TypeOK
  <2> QED
    BY <2>3, <2>4, <2>5 DEF SettingsInv, FormerSettingsAreGone
<1> QED
  BY <1>4, <1>5

-----------------------------------------------------------------------------
(* The theorems.                                                           *)

\* The initial state satisfies the invariant.
LEMMA InvariantInit == Init => IInv
<1> SUFFICES ASSUME Init PROVE IInv
  OBVIOUS
<1>1. ASSUME NEW g \in Guilds PROVE Told(outbox[g], revision[g], posted[g]) /\ UnderWay(g)
  <2>1. /\ outbox[g] = << >> /\ posted[g] = << >> /\ late[g] = {} /\ attempt[g] = NoAttempt
    BY DEF Init
  <2>2. DOMAIN outbox[g] = {} /\ DOMAIN posted[g] = {}
    BY <2>1
  <2>3. attempt[g].pc = "idle"
    BY <2>1 DEF NoAttempt
  <2> QED
    BY <2>1, <2>2, <2>3 DEF Told, UnderWay, RowsInOrder, DeliveriesPosted, PostsInOrder
<1> QED
  BY <1>1, TypeInit, SettingsInit DEF IInv, OutboxInv

\* Every step keeps the invariant.
LEMMA InvariantStep == IInv /\ [Next]_vars => IInv'
<1> SUFFICES ASSUME IInv, [Next]_vars PROVE IInv'
  OBVIOUS
<1>1. TypeOK'
  BY TypeStep DEF IInv
<1>2. CASE UNCHANGED vars
  <2>1. UNCHANGED <<settings, outbox, revision, attempt, late, posted, paused_by>>
    BY <1>2 DEF vars, database, process, discord
  <2>2. SettingsInv'
    BY <2>1, SettingsKept
  <2>3. OutboxInv'
    BY <2>1 DEF IInv, OutboxInv, UnderWay, Message
  <2> QED
    BY <1>1, <2>2, <2>3 DEF IInv
<1>3. CASE Next
  <2>1. SettingsInv' /\ OutboxInv'
    BY <1>1, <1>3, RecordStep, SetChannelStep, DisableStep, DiscoverStep, CheckStep, SendStep,
       AnswerStep, FinishStep, AbandonStep, LateStep, WorkerStep DEF Next
  <2> QED
    BY <1>1, <2>1 DEF IInv
<1> QED
  BY <1>2, <1>3

\* The first post of an event is a post of it, with none before.
LEMMA FirstPostFact ==
  ASSUME TypeOK, NEW g \in Guilds, NEW rev
  PROVE  \/ FirstPost(g, rev) = 0 /\ \A k \in DOMAIN posted[g] : posted[g][k].revision # rev
         \/ /\ FirstPost(g, rev) \in DOMAIN posted[g]
            /\ posted[g][FirstPost(g, rev)].revision = rev
            /\ \A k \in DOMAIN posted[g] : posted[g][k].revision = rev => FirstPost(g, rev) <= k
<1> DEFINE I == {i \in 1 .. Len(posted[g]) : posted[g][i].revision = rev}
<1>1. FirstPost(g, rev) = IF I # {} THEN Min(I) ELSE 0
  BY DEF FirstPost, SelectInSeq
<1>2. I \in SUBSET Nat /\ DOMAIN posted[g] = 1 .. Len(posted[g])
  BY DEF TypeOK
<1>3. CASE I = {}
  BY <1>1, <1>2, <1>3
<1>4. CASE I # {}
  <2>1. Min(I) \in I /\ \A k \in I : Min(I) <= k
    BY <1>2, <1>4, MinIsLeast
  <2> QED
    BY <1>1, <1>2, <1>4, <2>1
<1> QED
  BY <1>3, <1>4

\* The invariant puts the first posts in the order of the rows.
LEMMA InvariantInOrder ==
  ASSUME IInv, NEW g \in Guilds
  PROVE  InOrder(g)
<1>1. TypeOK /\ PostsInOrder(outbox[g], posted[g]) /\ posted[g] \in Seq(Messages)
  BY DEF IInv, OutboxInv, Told, TypeOK
<1> DEFINE First(i) == FirstPost(g, outbox[g][i].revision)
<1>2. ASSUME NEW i \in DOMAIN outbox[g], NEW j \in DOMAIN outbox[g],
             i < j, outbox[g][i].state # "discarded", First(j) # 0
      PROVE  First(i) # 0 /\ First(i) < First(j)
  <2>1. First(j) \in DOMAIN posted[g] /\ posted[g][First(j)].revision = outbox[g][j].revision
    BY <1>1, <1>2, FirstPostFact
  <2>2. PICK l \in DOMAIN posted[g] :
            l < First(j) /\ posted[g][l].revision = outbox[g][i].revision
    BY <1>1, <1>2, <2>1 DEF PostsInOrder
  <2>3. First(i) \in DOMAIN posted[g] /\ First(i) <= l
    BY <1>1, <2>2, FirstPostFact
  <2>4. DOMAIN posted[g] \subseteq Nat \ {0}
    BY <1>1
  <2> HIDE DEF First
  <2> QED
    BY <2>1, <2>2, <2>3, <2>4
<1> QED
  BY <1>2 DEF InOrder

\* The invariant puts every post in its channel.
LEMMA InvariantInPlace ==
  ASSUME IInv, NEW g \in Guilds
  PROVE  InPlace(g)
  BY DEF IInv, OutboxInv, Told, Accords, DeliveriesPosted, WasPosted, InPlace

\* The variables keep their types.
THEOREM TypeCorrect == Spec => []TypeOK
  BY TypeInit, TypeStep, PTL DEF Spec

\* Nothing of a former configuration has an effect on the current one, in every
\* guild and whatever fails, crashes or arrives late (still_eligible and
\* finish_attempt in announcements/persistence.rs).
THEOREM FormerSettingsGone == Spec => []FormerSettingsAreGone
<1>1. IInv => FormerSettingsAreGone
  BY DEF IInv, SettingsInv
<1> QED
  BY <1>1, InvariantInit, InvariantStep, PTL DEF Spec

\* The channels of every guild show its announcements in the order of its events
\* and in the channels the outbox names (announcements/persistence.rs and
\* announcements/worker.rs).
THEOREM Announced == Spec => []AnnouncedAsRecorded
<1>1. IInv => AnnouncedAsRecorded
  BY InvariantInOrder, InvariantInPlace DEF AnnouncedAsRecorded
<1> QED
  BY <1>1, InvariantInit, InvariantStep, PTL DEF Spec
=============================================================================
