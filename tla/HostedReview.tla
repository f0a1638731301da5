---------------------------- MODULE HostedReview ----------------------------
(***************************************************************************)
(* The hosted review command: it asks for a review of one commit of a pull *)
(* request, asks again when a review stays incomplete beyond a timeout,    *)
(* and reports what changed to a scheduled automation (tools/              *)
(* hosted_review).  A request is a comment GitHub may post although its    *)
(* answer is lost, at once or later.                                       *)
(*                                                                         *)
(* The lock of the state directory admits one command at a time, so `run`  *)
(* is the one that holds it.  A command refused for its arguments, for     *)
(* another account or for another automation ends without an effect and is *)
(* left out.                                                               *)
(***************************************************************************)
EXTENDS Integers, Sequences, FiniteSets

CONSTANTS
    Heads,       \* commits the pull request can be at
    Timeout,     \* the 3600 seconds of decide
    Scenarios,   \* which commands are run, and what others do meanwhile
    LastTime, MaxComments, MaxTrouble   \* bounds of the instance

VARIABLES
    clock,
    pull,        \* the pull request: open or not, and its head
    provider,    \* what the provider's latest comment says, by head
    ci,          \* the checks, statuses and workflows of a head
    comments,    \* comments of people that ask for a review
    inflight,    \* requests GitHub has not decided about yet
    disk,        \* state.json: the requests
    wake,        \* wake.json: the time and the condition last saved
    run,         \* the running command
    told,        \* the condition the automation heard last
    missed,      \* the conditions saved since then
    scenario, edits, trouble

vars == <<clock, pull, provider, ci, comments, inflight, disk, wake, run, told, missed,
          scenario, edits, trouble>>

world == <<clock, pull, provider, ci, scenario, edits>>

Head0 == CHOOSE head \in Heads : TRUE

Comment(request, by, head) ==
    [request |-> request, by |-> by, head |-> head, at |-> clock]

\* A saved request; comment 0 when none is known.
Request(head, at, comment) == [head |-> head, at |-> at, comment |-> comment]

\* A condition, what it carries, and the head the command expected.
Condition(kind, detail, head, request) ==
    [kind |-> kind, detail |-> detail, head |-> head, request |-> request,
     expected_head |-> head]

Silence == Condition("none", "none", Head0, 0)

Idle == [at |-> "idle", action |-> "poll", head |-> Head0, now |-> 0, saved |-> << >>,
         seen |-> 0, review |-> "missing", ci |-> "pending", initial |-> FALSE,
         result |-> Silence, notify |-> FALSE]

Init ==
    /\ scenario \in Scenarios
    /\ clock = 0 /\ pull = [open |-> TRUE, head |-> Head0]
    /\ provider = [head \in Heads |-> "missing"]
    /\ ci = [head \in Heads |-> "pending"]
    /\ comments = << >> /\ inflight = {} /\ disk = << >>
    /\ wake = [at |-> 0, condition |-> Silence] /\ run = Idle
    /\ told = Silence /\ missed = << >> /\ edits = 0 /\ trouble = 0

-----------------------------------------------------------------------------
(* policy.rs                                                               *)

Complete == {"findings", "clean"}

\* last is the newest request for the head, confirmed when its comment is known.
decide(review, last, now) ==
    IF last.comment = 0 THEN "uncertain"
    ELSE IF review = "incomplete" /\ now - last.at > Timeout THEN "request"
    ELSE "waiting"

-----------------------------------------------------------------------------
(* The steps of a command.                                                 *)

Trouble == trouble < MaxTrouble /\ trouble' = trouble + 1

\* What the command ends with; a wake goes on to save and report it.
After(result) ==
    IF run.action = "wake" THEN [run EXCEPT !.at = "condition", !.result = result]
    ELSE Idle

Says(status) == Condition("review", status, run.head, 0)

Ends(status) == run' = After(Says(status))

Start(action, head, now) ==
    /\ run.at = "idle"
    /\ head \in scenario.heads
    /\ action = "wake" => now >= wake.at
    /\ run' = [Idle EXCEPT !.at = "pull", !.action = action, !.head = head, !.now = now,
                           !.saved = disk]
    /\ UNCHANGED <<world, comments, inflight, disk, wake, told, missed, trouble>>

(* A closed or moved pull request ends the command; wake says where it is. *)
ReadPull ==
    /\ run.at = "pull"
    /\ run' = IF ~pull.open THEN After(Condition("closed", "none", pull.head, 0))
              ELSE IF pull.head # run.head
              THEN After(Condition("head_changed", "none", pull.head, 0))
              ELSE [run EXCEPT !.at = "comments"]
    /\ UNCHANGED <<world, comments, inflight, disk, wake, told, missed, trouble>>

ReadComments ==
    /\ run.at = "comments"
    /\ run' = [run EXCEPT !.seen = Len(comments), !.review = provider[run.head], !.at =
                  IF run.action = "wake" THEN "ci" ELSE "act"]
    /\ UNCHANGED <<world, comments, inflight, disk, wake, told, missed, trouble>>

(* observe reads the three inventories of the head before it acts. *)
ReadCi ==
    /\ run.at = "ci"
    /\ run' = [run EXCEPT !.ci = ci[run.head], !.at = "act"]
    /\ UNCHANGED <<world, comments, inflight, disk, wake, told, missed, trouble>>

\* The newest saved request for the head, 0 if there is none.
Index ==
    LET mine == {i \in DOMAIN run.saved : run.saved[i].head = run.head} IN
    IF mine = {} THEN 0 ELSE CHOOSE i \in mine : \A j \in mine : j <= i

Known == {run.saved[i].comment : i \in DOMAIN run.saved}

\* Comments among those read that carry the body of the request.
Matching(i) == {c \in 1..run.seen : comments[c].request = i}

\* An external request has no verified head binding: a comment, other than the known
\* ones and the body of request i, that is not older than request i.
External(i) ==
    \E c \in (1..run.seen) \ Known :
        comments[c].request # i /\ comments[c].at >= run.saved[i].at

\* Before an initial request any unknown comment is external, of whatever age.
ExternalToInitial == \E c \in 1..run.seen : c \notin Known

\* A save takes effect; or it fails, before the rename or after it, and with it
\* the command, which only a wake survives to report.
Saves(saved, then) ==
    \/ disk' = saved /\ run' = then /\ UNCHANGED trouble
    \/ Trouble /\ disk' \in {disk, saved} /\ Ends("error")

asked_when_saved(request, c) == [request EXCEPT !.comment = c]

\* The request counts from when its comment was created.
confirmed(request, c) ==
    [request EXCEPT !.comment = c,
                    !.at = IF comments[c].at > @ THEN comments[c].at ELSE @]

\* track_existing: a comment of the caller that names this commit.
TrackExisting ==
    \E c \in 1..run.seen :
        /\ comments[c].by = "caller" /\ comments[c].head = run.head
        /\ run.now >= comments[c].at
        /\ LET saved == Append(run.saved, Request(run.head, comments[c].at, c)) IN
           Saves(saved, After(Says("tracked")))

(* review_action after its reads, up to the saved intent. *)
Act ==
    LET i == Index
        initial == run.action = "request" /\ i = 0
        intent == Append(run.saved, Request(run.head, run.now, 0))
    IN  /\ run.at = "act"
        /\ \/ /\ run.review \in Complete /\ Ends("complete") /\ UNCHANGED <<disk, trouble>>
           \/ /\ run.review \notin Complete /\ run.action = "track"
              /\ \/ i # 0 /\ Ends("already_tracked") /\ UNCHANGED <<disk, trouble>>
                 \/ i = 0 /\ run.review = "incomplete" /\ TrackExisting
                 \/ i = 0 /\ Ends("error") /\ UNCHANGED <<disk, trouble>>
           \/ /\ run.review \notin Complete /\ run.action # "track"
              /\ IF i # 0 /\ run.saved[i].comment = 0 /\ Matching(i) # {}
                 THEN LET c == CHOOSE c \in Matching(i) : TRUE
                          saved == [run.saved EXCEPT ![i] = confirmed(@, c)]
                      IN  Saves(saved, After(Says("reconciled")))
                 ELSE IF i # 0 /\ External(i)
                 THEN Ends("external_request") /\ UNCHANGED <<disk, trouble>>
                 ELSE IF i = 0 /\ (~initial \/ run.review # "missing")
                 THEN Ends("untracked_head") /\ UNCHANGED <<disk, trouble>>
                 ELSE IF initial /\ ExternalToInitial
                 THEN Ends("external_request") /\ UNCHANGED <<disk, trouble>>
                 ELSE IF i # 0 /\ decide(run.review, run.saved[i], run.now) # "request"
                 THEN /\ Ends(decide(run.review, run.saved[i], run.now))
                      /\ UNCHANGED <<disk, trouble>>
                 ELSE Saves(intent, [run EXCEPT !.at = "recheck", !.saved = intent,
                                                !.initial = initial])
        /\ UNCHANGED <<world, comments, inflight, wake, told, missed>>

(* send_request looks at the pull request once more, *)
RecheckPull ==
    /\ run.at = "recheck"
    /\ run' = IF pull.open /\ pull.head = run.head THEN [run EXCEPT !.at = "recheck comments"]
              ELSE After(Says("changed_before_send"))
    /\ UNCHANGED <<world, comments, inflight, disk, wake, told, missed, trouble>>

(* and at its comments: an abandoned intent stays unconfirmed. *)
RecheckComments ==
    /\ run.at = "recheck comments"
    /\ run' = IF provider[run.head] \in Complete THEN After(Says("complete"))
              ELSE IF provider[run.head] # (IF run.initial THEN "missing" ELSE "incomplete")
              THEN After(Says("provider_unavailable_before_send"))
              ELSE IF Len(comments) > run.seen THEN After(Says("external_request"))
              ELSE [run EXCEPT !.at = "send"]
    /\ UNCHANGED <<world, comments, inflight, disk, wake, told, missed, trouble>>

(* The request is posted and answered, or its answer is lost. *)
Send ==
    LET mine == Comment(Len(run.saved), "caller", run.head) IN
    /\ run.at = "send"
    /\ \/ /\ comments' = Append(comments, mine)
          /\ run' = [run EXCEPT !.at = "sent", !.seen = Len(comments) + 1]
          /\ UNCHANGED <<inflight, trouble>>
       \/ /\ Trouble /\ inflight' = inflight \union {[request |-> Len(run.saved),
                                                      head |-> run.head]}
          /\ Ends("error") /\ UNCHANGED comments
    /\ UNCHANGED <<world, disk, wake, told, missed>>

Sent ==
    LET i == Len(run.saved)
        saved == [run.saved EXCEPT ![i] = confirmed(@, run.seen)]
    IN  /\ run.at = "sent"
        /\ Saves(saved, After(Condition("review", "requested", run.head, i)))
        /\ UNCHANGED <<world, comments, inflight, wake, told, missed>>

(* GitHub decides about a request whose answer was lost. *)
Arrives(request) ==
    /\ request \in inflight /\ inflight' = inflight \ {request}
    /\ comments' \in {comments, Append(comments, Comment(request.request, "caller",
                                                         request.head))}
    /\ UNCHANGED <<world, disk, wake, run, told, missed, trouble>>

-----------------------------------------------------------------------------
(* wake.rs                                                                 *)

\* The condition a wake observed, with the head it was run for.
Observed ==
    LET status == run.result.detail
        Kind(kind) == Condition(kind, "none", run.head, 0)
    IN  IF run.result.kind # "review" THEN [run.result EXCEPT !.expected_head = run.head]
        ELSE IF status = "error" THEN Kind("uncertain")
        ELSE IF run.ci = "failed" THEN Kind("failure")
        ELSE IF run.review = "findings" THEN Kind("review_findings")
        ELSE IF status = "requested"
        THEN Condition("review_requested", "none", run.head, run.result.request)
        ELSE IF status \notin {"waiting", "complete", "reconciled"}
        THEN Condition("action_required", status, run.head, 0)
        ELSE IF run.review = "missing" THEN Kind("review_unavailable")
        ELSE IF run.ci = "passed" /\ run.review \in Complete THEN Kind("external_work_complete")
        ELSE Kind("waiting")

Blocking == {"uncertain", "failure", "review_findings", "head_changed", "action_required",
             "review_unavailable"}

changed_kind(before, after) == before.kind # after.kind

\* Two conditions differ in anything they carry.
changed(before, after) == before # after

Notifies(before, after) ==
    \/ changed(before, after) /\ after.kind # "waiting"
    \/ after.kind = "waiting" /\ before.kind \in Blocking

(* The decision is saved before it is returned. *)
SaveWake ==
    /\ run.at = "condition"
    /\ LET saved == [at |-> run.now, condition |-> Observed] IN
       \/ /\ wake' = saved /\ missed' = Append(missed, Observed)
          /\ run' = [run EXCEPT !.at = "tell", !.result = Observed,
                                !.notify = Notifies(wake.condition, Observed)]
          /\ UNCHANGED trouble
       \/ /\ Trouble /\ run' = Idle
          /\ \/ wake' = saved /\ missed' = Append(missed, Observed)
             \/ UNCHANGED <<wake, missed>>
    /\ UNCHANGED <<world, comments, inflight, disk, told>>

Tell ==
    /\ run.at = "tell"
    /\ told' = run.result /\ missed' = << >> /\ run' = Idle
    /\ UNCHANGED <<world, comments, inflight, disk, wake, trouble>>

-----------------------------------------------------------------------------
(* Failures, and what others do meanwhile.                                 *)

ReadFails ==
    /\ run.at \in {"pull", "comments", "ci", "act", "recheck", "recheck comments"}
    /\ Trouble /\ Ends("error")
    /\ UNCHANGED <<world, comments, inflight, disk, wake, told, missed>>

Dies ==
    /\ run.at # "idle" /\ Trouble /\ run' = Idle
    /\ UNCHANGED <<world, comments, inflight, disk, wake, told, missed>>

Tick ==
    /\ clock < LastTime /\ clock' = clock + 1
    /\ UNCHANGED <<pull, provider, ci, scenario, edits, comments, inflight, disk, wake, run, told,
                   missed, trouble>>

Edit(kind) ==
    /\ kind \in scenario.kinds /\ edits < scenario.edits /\ edits' = edits + 1
    /\ UNCHANGED scenario

Push ==
    /\ Edit("push")
    /\ \/ \E head \in Heads : pull' = [pull EXCEPT !.head = head]
       \/ pull' = [pull EXCEPT !.open = ~@]
    /\ UNCHANGED <<clock, provider, ci, comments, inflight, disk, wake, run, told, missed,
                   trouble>>

Review ==
    /\ Edit("review")
    /\ \E status \in {"missing", "incomplete"} \union Complete :
          provider' = [provider EXCEPT ![pull.head] = status]
    /\ UNCHANGED <<clock, pull, ci, comments, inflight, disk, wake, run, told, missed,
                   trouble>>

Build ==
    /\ Edit("build")
    /\ \E status \in {"pending", "passed", "failed"} :
          ci' = [ci EXCEPT ![pull.head] = status]
    /\ UNCHANGED <<clock, pull, provider, comments, inflight, disk, wake, run, told, missed,
                   trouble>>

(* A person asks: the caller, naming the commit, or someone else. *)
Ask(by) ==
    /\ Len(comments) < MaxComments /\ Edit("ask")
    /\ comments' = Append(comments, Comment(0, by, pull.head))
    /\ UNCHANGED <<clock, pull, provider, ci, inflight, disk, wake, run, told, missed,
                   trouble>>

Next ==
    \/ \E action \in scenario.actions, head \in Heads, now \in 0..clock :
          Start(action, head, now)
    \/ ReadPull \/ ReadComments \/ ReadCi \/ Act
    \/ RecheckPull \/ RecheckComments \/ Send \/ Sent
    \/ SaveWake \/ Tell \/ ReadFails \/ Dies
    \/ \E request \in inflight : Arrives(request)
    \/ Tick \/ Push \/ Review \/ Build
    \/ \E by \in {"caller", "other"} : Ask(by)

Spec == Init /\ [][Next]_vars

-----------------------------------------------------------------------------

(* The tool never asks twice in a row for the same commit: its requests for  *)
(* one commit, those it tracks included, are created more than the timeout   *)
(* apart, however late GitHub posts a request whose answer was lost and       *)
(* wherever a command dies (decide, inspect_saved_request, send_request).     *)
RequestsSpaced ==
    LET Own(c) == \/ comments[c].request # 0
                  \/ \E i \in DOMAIN disk : disk[i].comment = c
    IN  \A c, d \in DOMAIN comments :
            /\ c < d /\ Own(c) /\ comments[d].request # 0
            /\ comments[c].head = comments[d].head
            => comments[d].at - comments[c].at > Timeout

(* A wake repeats no notification the automation has heard unless another    *)
(* condition was saved in between; and while no wake was lost, its silence    *)
(* means that there is nothing new (wake.rs run).                             *)
WakesTellTransitions ==
    run.at = "tell" /\ run'.at = "idle" /\ told' = run.result /\ trouble' = trouble =>
        /\ run.notify => told # run.result
                            \/ \E i \in DOMAIN missed : missed[i] # run.result
        /\ ~run.notify /\ Len(missed) = 1 =>
              told = run.result
                  \/ (run.result.kind = "waiting" /\ told.kind \notin Blocking)

=============================================================================
