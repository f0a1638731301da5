---------------------------- MODULE Diagnostics ----------------------------
(***************************************************************************)
(* The life of a Book Smartz process as its diagnostics report it: startup *)
(* and its one fact (initialization.rs, main.rs), the bounded queue between *)
(* the request handlers and the thread that writes to stderr, the summaries *)
(* of what was lost, and the shutdown that drains the queue within a        *)
(* deadline (diagnostics.rs).                                              *)
(*                                                                         *)
(* What a record says is left out, except the readiness it reports; records *)
(* are told apart by kind.  `fate` counts what became of the records.       *)
(***************************************************************************)
EXTENDS Integers, Sequences, FiniteSets

CONSTANTS
    Capacity,                 \* QUEUE_CAPACITY, 256 in the code
    MaxRecords, MaxFailures   \* bounds of the instance

VARIABLES
    queue, accepting, running,
    worker,        \* the delivery thread: what it does and with which record
    counters,      \* queue_drops and destination_failures
    reported,      \* the worker's copy of what its summaries have told
    summed,        \* the sum of the summaries that were written
    readiness,     \* the readiness last observed
    discard, deadline,
    process,       \* the main task
    barrier,       \* the drain barrier: absent, queued, acknowledged or dropped
    offered, fate, broken

vars == <<queue, accepting, running, worker, counters, reported, summed,
          readiness, discard, deadline, process, barrier, offered, fate, broken>>

delivery == <<running, worker, counters, reported, summed, readiness,
              discard, deadline, barrier, offered, fate, broken>>

None == [drops |-> 0, failures |-> 0]

NoRecord == "none"

Init ==
    /\ queue = << >> /\ accepting = TRUE /\ running = FALSE
    /\ worker = [at |-> "absent", record |-> NoRecord, seen |-> None]
    /\ counters = None /\ reported = None /\ summed = None
    /\ readiness = "unknown"
    /\ discard = FALSE /\ deadline = "unset"
    /\ process = [at |-> "starting", reason |-> "none", outcome |-> "none"]
    /\ barrier = "absent" /\ offered = 0 /\ broken = 0
    /\ fate = [written |-> 0, failed |-> 0, dropped |-> 0, discarded |-> 0]

Goto(place) == process' = [process EXCEPT !.at = place]

discarding == discard \/ deadline = "passed"

Full == Len(queue) >= Capacity

(* try_send_terminal and the count of a disconnected receiver: the sender   *)
(* never waits.                                                            *)
Push(record) ==
    LET lost == worker.at = "absent" \/ Full IN
    /\ queue' = IF lost THEN queue ELSE Append(queue, record)
    /\ counters' = IF lost THEN [counters EXCEPT !.drops = @ + 1] ELSE counters
    /\ fate' = IF lost THEN [fate EXCEPT !.dropped = @ + 1] ELSE fate
    /\ running' = (running /\ worker.at # "absent")
    /\ offered' = offered + 1

(* DeliverySender::send: the gate stays locked until the record is queued, and *)
(* a record refused at the gate is not counted.                                *)
Send(record) ==
    IF accepting THEN Push(record)
    ELSE UNCHANGED <<queue, counters, fate, running, offered>>

(* serve up to the listener, where any phase may fail: the failure is the  *)
(* process's one startup fact, and goes to stderr directly.                *)
StartFails ==
    /\ process.at = "starting" /\ Goto("exited")
    /\ UNCHANGED <<queue, accepting, delivery>>

(* Diagnostics::start and observe_initialization.  Without its thread the  *)
(* channel is disconnected and the fact takes the direct path.             *)
Start ==
    /\ process.at = "starting" /\ Goto("serving")
    /\ \/ /\ worker' = [worker EXCEPT !.at = "waiting"]
          /\ running' = TRUE
          /\ queue' = Append(queue, "initialization") /\ offered' = offered + 1
       \/ UNCHANGED <<queue, worker, running, offered>>
    /\ UNCHANGED <<accepting, counters, reported, summed, readiness, discard,
                   deadline, barrier, fate, broken>>

(* A request's operation ends, by its outcome or by being dropped unfinished, *)
(* or a save could not be confirmed.                                          *)
Observe ==
    /\ process.at \notin {"starting", "exited"} /\ offered < MaxRecords
    /\ Send("operation")
    /\ UNCHANGED <<accepting, worker, reported, summed, readiness, discard,
                   deadline, process, barrier, broken>>

(* observe_readiness: only a change is sent, under the lock of the last state. *)
ObserveReadiness(state) ==
    /\ process.at \notin {"starting", "exited"} /\ offered < MaxRecords
    /\ state # readiness
    /\ readiness' = state
    /\ Send(state)
    /\ UNCHANGED <<accepting, worker, reported, summed, discard, deadline,
                   process, barrier, broken>>

(* The worker's loop takes a record.  While discarding it skips it, and a  *)
(* skipped barrier drops its sender.                                       *)
Take ==
    /\ worker.at = "waiting" /\ queue # << >>
    /\ queue' = Tail(queue)
    /\ LET record == Head(queue)
           dropped == discarding
       IN  /\ barrier' = IF record # "barrier" THEN barrier
                         ELSE IF dropped THEN "dropped" ELSE "acknowledged"
           /\ worker' = IF dropped \/ record = "barrier" THEN worker
                        ELSE [worker EXCEPT !.at = "writing", !.record = record]
           /\ fate' = IF dropped /\ record # "barrier"
                      THEN [fate EXCEPT !.discarded = @ + 1] ELSE fate
    /\ UNCHANGED <<accepting, running, counters, reported, summed, readiness,
                   discard, deadline, process, offered, broken>>

Waits == [worker EXCEPT !.at = "waiting", !.record = NoRecord, !.seen = None]

(* deliver up to the snapshot of the counters. *)
Write ==
    /\ worker.at = "writing"
    /\ fate' = IF discarding THEN [fate EXCEPT !.discarded = @ + 1]
               ELSE [fate EXCEPT !.written = @ + 1]
    /\ worker' = IF discarding \/ counters = reported THEN Waits
                 ELSE [Waits EXCEPT !.at = "summing", !.seen = counters]
    /\ UNCHANGED <<queue, accepting, running, counters, reported, summed,
                   readiness, discard, deadline, process, barrier, offered, broken>>

WriteFails ==
    /\ worker.at = "writing" /\ ~discarding /\ broken < MaxFailures
    /\ broken' = broken + 1
    /\ fate' = [fate EXCEPT !.failed = @ + 1]
    /\ counters' = [counters EXCEPT !.failures = @ + 1]
    /\ worker' = Waits
    /\ UNCHANGED <<queue, accepting, running, reported, summed, readiness,
                   discard, deadline, process, barrier, offered>>

reported_by_now(seen) == counters

reported_after(seen) == seen

(* The summary of the losses since the last one that was written. *)
Summarize ==
    /\ worker.at = "summing" /\ worker' = Waits
    /\ reported' = IF discarding THEN reported ELSE reported_after(worker.seen)
    /\ summed' = IF discarding THEN summed ELSE
                 [summed EXCEPT !.drops = @ + worker.seen.drops - reported.drops,
                                !.failures = @ + worker.seen.failures
                                               - reported.failures]
    /\ UNCHANGED <<queue, accepting, running, counters, readiness, discard,
                   deadline, process, barrier, offered, fate, broken>>

SummaryFails ==
    /\ worker.at = "summing" /\ ~discarding /\ broken < MaxFailures
    /\ broken' = broken + 1 /\ worker' = Waits
    /\ counters' = [counters EXCEPT !.failures = @ + 1]
    /\ UNCHANGED <<queue, accepting, running, reported, summed, readiness,
                   discard, deadline, process, barrier, offered, fate>>

(* begin_shutdown, on a signal or when the listener fails. *)
BeginShutdown(reason) ==
    /\ process.at = "serving"
    /\ process' = [process EXCEPT !.at = "requests", !.reason = reason]
    /\ Push("shutdown")
    /\ UNCHANGED <<accepting, worker, reported, summed, readiness, discard,
                   deadline, barrier, broken>>

(* finish_shutdown starts when the request drain has ended. *)
StopProducers ==
    /\ process.at = "requests" /\ Goto("pool")
    /\ deadline' = "set" /\ accepting' = FALSE
    /\ UNCHANGED <<queue, running, worker, counters, reported, summed, readiness,
                   discard, barrier, offered, fate, broken>>

DeadlinePasses ==
    /\ deadline = "set" /\ deadline' = "passed"
    /\ UNCHANGED <<queue, accepting, running, worker, counters, reported, summed,
                   readiness, discard, process, barrier, offered, fate, broken>>

Ends(outcome) == process' = [process EXCEPT !.at = "report", !.outcome = outcome]

ClosePool ==
    /\ process.at = "pool" /\ deadline = "set" /\ Goto("drain")
    /\ UNCHANGED <<queue, accepting, delivery>>

\* The pool, or what still holds one of its connections, did not stop in time.
PoolTimesOut ==
    /\ process.at = "pool" /\ deadline = "passed" /\ Ends("deadline exceeded")
    /\ UNCHANGED <<queue, accepting, delivery>>

(* drain_until, for the first and the last drain.  A full queue is retried; *)
(* `Drained` continues finish_shutdown with the drain's outcome.            *)
Drained(outcome) ==
    process' = IF process.at \in {"drain", "await"}
               THEN [process EXCEPT !.at = "report", !.outcome = outcome]
               ELSE [process EXCEPT !.at = "discard"]

Draining == process.at \in {"drain", "last drain"}
Awaiting == process.at \in {"await", "last await"}

PlaceBarrier ==
    /\ Draining /\ deadline = "set" /\ worker.at # "absent" /\ ~Full
    /\ queue' = Append(queue, "barrier") /\ barrier' = "queued"
    /\ Goto(IF process.at = "drain" THEN "await" ELSE "last await")
    /\ UNCHANGED <<accepting, running, worker, counters, reported, summed,
                   readiness, discard, deadline, offered, fate, broken>>

NoReceiver ==
    /\ Draining /\ deadline = "set" /\ worker.at = "absent"
    /\ Drained("unavailable")
    /\ UNCHANGED <<queue, accepting, delivery>>

gives_up == deadline = "passed"

DrainTimesOut ==
    /\ Draining \/ Awaiting
    /\ gives_up
    /\ Drained("deadline exceeded")
    /\ UNCHANGED <<queue, accepting, delivery>>

(* The barrier was answered.  A drain that ends at its deadline counts as late, *)
(* and a listener's failure stays a failure.                                    *)
BarrierAnswered ==
    /\ Awaiting /\ deadline = "set" /\ barrier \in {"acknowledged", "dropped"}
    /\ Drained(IF barrier = "dropped" THEN "unavailable"
               ELSE IF process.reason = "listener" THEN "failed" ELSE "completed")
    /\ UNCHANGED <<queue, accepting, delivery>>

(* The final fact passes the closed gate. *)
Report ==
    /\ process.at = "report"
    /\ Goto(IF deadline = "passed" THEN "discard" ELSE "last drain")
    /\ Push("shutdown")
    /\ UNCHANGED <<accepting, worker, reported, summed, readiness, discard,
                   deadline, barrier, broken>>

Exit ==
    /\ process.at = "discard" /\ Goto("exited") /\ discard' = TRUE
    /\ UNCHANGED <<queue, accepting, running, worker, counters, reported, summed,
                   readiness, deadline, barrier, offered, fate, broken>>

FinishShutdown ==
    \/ StopProducers
    \/ ClosePool \/ PoolTimesOut
    \/ PlaceBarrier \/ NoReceiver \/ DrainTimesOut \/ BarrierAnswered
    \/ Report \/ Exit

Next ==
    \/ StartFails \/ Start
    \/ Observe \/ \E state \in {"ready", "unavailable"} : ObserveReadiness(state)
    \/ Take \/ Write \/ WriteFails \/ Summarize \/ SummaryFails
    \/ \E reason \in {"signal", "listener"} : BeginShutdown(reason)
    \/ DeadlinePasses
    \/ FinishShutdown

Spec == Init /\ [][Next]_vars

-----------------------------------------------------------------------------

Held == IF worker.at = "writing" THEN 1 ELSE 0

RecordsIn(records) == {i \in DOMAIN records : records[i] # "barrier"}

Queued == Cardinality(RecordsIn(queue))

(* Every record that was offered is queued, in the worker's hand, written,   *)
(* discarded late or counted as a loss, and the summaries on stderr add up   *)
(* to losses that really happened, none told twice, although senders count   *)
(* drops while the worker writes a summary (deliver's snapshot).  A shutdown *)
(* that reports Completed has written, or counted as lost, every record of   *)
(* the handlers: the gate closed before the barrier, so nothing is queued    *)
(* behind it and nothing before it was skipped (finish_shutdown).            *)
RecordsAccountedFor ==
    /\ offered = Queued + Held + fate.written + fate.failed + fate.dropped
                   + fate.discarded
    /\ fate.dropped = counters.drops /\ fate.failed <= counters.failures
    /\ summed = reported
    /\ summed.drops <= counters.drops /\ summed.failures <= counters.failures
    /\ process.at = "report" /\ process.outcome = "completed"
          => offered = fate.written + fate.failed + fate.dropped

=============================================================================
