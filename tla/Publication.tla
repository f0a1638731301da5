---------------------------- MODULE Publication ----------------------------
(***************************************************************************)
(* The ticket publication command: it creates the issues of an approved    *)
(* plan on GitHub, links them and labels them, and can be interrupted and  *)
(* resumed at any point (tools/ticket_publication).  GitHub may accept a   *)
(* creation whose answer is lost, at once or later; others edit the same   *)
(* issues; the machine may lose the saved state.                           *)
(*                                                                         *)
(* The lock of the batch directory admits one command at a time, so `run`  *)
(* is the one that holds it; a command that finds it taken does nothing.   *)
(* The saved graph and label receipts decide nothing and are left out, but *)
(* not the failures of saving them.                                        *)
(***************************************************************************)
EXTENDS Integers, Sequences, FiniteSets, SequencesExt, FiniteSetsExt

CONSTANTS
    Plan,          \* one record per ticket: tickets and issues that block it, labels
    External,      \* issues that exist beforehand
    Children,      \* how many children the parent issue may have from elsewhere
    MaxChildren,   \* MAX_SUB_ISSUES
    Triage,        \* labels that exclude each other
    MaxRetries, MaxEdits, MaxTrouble   \* bounds of the instance

VARIABLES
    issues,        \* the repository's issues, by number
    others,        \* children of the parent issue from elsewhere
    inflight,      \* creation requests GitHub has not decided about yet
    sent,          \* creation requests made, by ticket
    allowed,       \* retries the operator authorized, by ticket
    disk,          \* the saved batch
    exported,      \* the last export
    run,           \* the running command
    report,        \* what the last publication said
    edits, trouble

vars == <<issues, others, inflight, sent, allowed, disk, exported, run, report,
          edits, trouble>>

remote == <<issues, others, inflight, sent>>

Tickets == DOMAIN Plan

Pending == [is |-> "pending", issue |-> 0]
Creating == [is |-> "creating", issue |-> 0]
RetryAuthorized == [is |-> "authorized", issue |-> 0]
Created(number) == [is |-> "created", issue |-> number]

NoBatch == [exists |-> FALSE, status |-> [ticket \in Tickets |-> Pending]]
Batch(status) == [exists |-> TRUE, status |-> status]

Idle == [at |-> "idle", status |-> NoBatch.status, ticket |-> 0, found |-> {},
         observed |-> [ticket \in Tickets |-> 0], todo |-> << >>, calm |-> FALSE]

\* An issue: the ticket whose marker it carries, whether its content is still
\* the planned one, its parent, its blockers and its labels.
Issue(ticket) == [of |-> ticket, intact |-> TRUE, parent |-> "none",
                  blockers |-> {}, labels |-> {}]

Init ==
    /\ issues = [number \in 1..External |-> Issue(0)]
    /\ others \in Children /\ inflight = << >>
    /\ sent = [ticket \in Tickets |-> 0] /\ allowed = sent
    /\ disk = NoBatch /\ exported = NoBatch
    /\ run = Idle /\ report = "none" /\ edits = 0 /\ trouble = 0

-----------------------------------------------------------------------------
(* Reading GitHub.                                                         *)

Marked(ticket) == {number \in DOMAIN issues : issues[number].of = ticket}

\* check_content of the issue a ticket is mapped to.
Checks(ticket, number) ==
    issues[number].of = ticket /\ issues[number].intact

Mapped(status) == {ticket \in Tickets : status[ticket].is = "created"}

Occupied == others + Cardinality({n \in DOMAIN issues : issues[n].parent = "ours"})

\* The issue numbers that must block a ticket's issue.
Required(status, ticket) ==
    Plan[ticket].issues \union {status[other].issue : other \in Plan[ticket].tickets}

\* What graph::read finds missing, in the order the links are added.
MissingOf(status, ticket) ==
    LET number == status[ticket].issue IN
    (IF issues[number].parent = "ours" THEN << >> ELSE << <<ticket, 0>> >>)
        \o [i \in 1..Cardinality(Required(status, ticket) \ issues[number].blockers) |->
               <<ticket, CHOOSE b \in Required(status, ticket) \ issues[number].blockers :
                            Cardinality({c \in Required(status, ticket)
                                                 \ issues[number].blockers : c < b}) = i - 1>>]

Missing(status) == FlattenSeq([ticket \in Tickets |-> MissingOf(status, ticket)])

\* graph::read: a conflict when an issue changed or has another parent.
GraphReads(status) ==
    \A ticket \in Tickets :
        /\ Checks(ticket, status[ticket].issue)
        /\ issues[status[ticket].issue].parent # "other"

\* labels::ticket: triage labels exclude each other.
LabelsRead(status, ticket) ==
    /\ Checks(ticket, status[ticket].issue)
    /\ Cardinality((issues[status[ticket].issue].labels \union Plan[ticket].labels)
                       \intersect Triage) <= 1

Unlabelled(status, ticket) ==
    Plan[ticket].labels \ issues[status[ticket].issue].labels

-----------------------------------------------------------------------------
(* The steps of a command.                                                 *)

Goto(place) == run' = [run EXCEPT !.at = place]

Uncertain(status) ==
    \E ticket \in Tickets : status[ticket].is \in {"creating", "authorized"}

called_partial(status) == "partial"

\* publication's outcome for an error that is not a conflict.
Stopped(status) == IF Uncertain(status) THEN "uncertain" ELSE "partial"

End(outcome) == run' = Idle /\ report' = outcome

Trouble == trouble < MaxTrouble /\ trouble' = trouble + 1

(* A read or a save that must not fail fails: the run stops. *)
Fails ==
    /\ run.at \notin {"idle", "create"} /\ Trouble
    /\ End(Stopped(run.status))
    /\ UNCHANGED <<remote, allowed, disk, exported, edits>>

Dies ==
    /\ run.at # "idle" /\ Trouble
    /\ run' = Idle
    /\ UNCHANGED <<remote, allowed, disk, exported, report, edits>>

(* publish: observe the parent, the saved mappings and the markers, then check *)
(* the capacity.  Saved receipts are cleared.                                  *)
Publish ==
    /\ run.at = "idle" /\ disk.exists
    /\ run' = [Idle EXCEPT !.at = "observe", !.status = disk.status]
    /\ report' = "none"
    /\ UNCHANGED <<remote, allowed, disk, exported, edits, trouble>>

Observe ==
    LET seen == [ticket \in Tickets |->
                    IF run.status[ticket].is = "created" THEN {run.status[ticket].issue}
                    ELSE Marked(ticket)]
        known == {ticket \in Tickets : seen[ticket] # {}}
        fits == Occupied + Cardinality({ticket \in Tickets :
                    \A n \in seen[ticket] : issues[n].parent # "ours"}) <= MaxChildren
    IN  /\ run.at = "observe"
        /\ IF \A ticket \in known : /\ Cardinality(seen[ticket]) = 1
                                    /\ \A n \in seen[ticket] : Checks(ticket, n)
           THEN IF fits
                THEN /\ run' = [run EXCEPT !.at = "choose", !.observed =
                                   [ticket \in Tickets |->
                                       IF ticket \in known THEN CHOOSE n \in seen[ticket] : TRUE
                                       ELSE 0]]
                     /\ UNCHANGED report
                ELSE End(Stopped(run.status))
           ELSE End("conflict")
        /\ UNCHANGED <<remote, allowed, disk, exported, edits, trouble>>

Ready(status) ==
    {ticket \in Tickets \ Mapped(status) : Plan[ticket].tickets \subseteq Mapped(status)}

\* Saving succeeds; or it fails, after the rename or before it, and the run ends.
Saves(status, then) ==
    \/ /\ disk' = Batch(status) /\ run' = then /\ UNCHANGED <<report, trouble>>
    \/ /\ Trouble /\ disk' \in {disk, Batch(status)} /\ End(Stopped(status))

Intends(ticket) ==
    LET status == [run.status EXCEPT ![ticket] = Creating] IN
    Saves(status, [run EXCEPT !.at = "create", !.status = status, !.ticket = ticket])

(* The creation loop takes the first ticket whose blockers are created. *)
Choose ==
    /\ run.at = "choose" /\ Ready(run.status) # {}
    /\ LET ticket == Min(Ready(run.status)) IN
       IF run.observed[ticket] # 0
       THEN /\ run' = [run EXCEPT !.at = "record", !.ticket = ticket,
                                  !.found = {run.observed[ticket]}]
            /\ UNCHANGED <<disk, report, trouble>>
       ELSE IF run.status[ticket].is = "pending" THEN Intends(ticket)
       ELSE /\ run' = [run EXCEPT !.at = "find", !.ticket = ticket]
            /\ UNCHANGED <<disk, report, trouble>>
    /\ UNCHANGED <<remote, allowed, exported, edits>>

retries_when_absent(ticket) == TRUE

\* An absent match does not authorize another request.
may_create(ticket) == run.status[ticket].is = "authorized"

(* After an uncertain creation: every page of issues is searched for the marker. *)
Find ==
    /\ run.at = "find"
    /\ LET found == Marked(run.ticket) IN
       \/ /\ Cardinality(found) = 1
          /\ run' = [run EXCEPT !.at = "record", !.found = found]
          /\ UNCHANGED <<disk, report, trouble>>
       \/ /\ found = {} /\ may_create(run.ticket) /\ Intends(run.ticket)
       \/ /\ found = {} /\ ~may_create(run.ticket) /\ End(Stopped(run.status))
          /\ UNCHANGED <<disk, trouble>>
       \/ /\ Cardinality(found) > 1 /\ End("conflict")
          /\ UNCHANGED <<disk, trouble>>
    /\ UNCHANGED <<remote, allowed, exported, edits>>

(* The creation request: answered, or lost with GitHub still to decide. *)
Create ==
    /\ run.at = "create"
    /\ sent' = [sent EXCEPT ![run.ticket] = @ + 1]
    /\ \/ /\ issues' = Append(issues, Issue(run.ticket))
          /\ run' = [run EXCEPT !.at = "record", !.found = {Len(issues) + 1}]
          /\ UNCHANGED <<inflight, report, trouble>>
       \/ /\ Trouble /\ inflight' = Append(inflight, run.ticket)
          /\ End(Stopped(run.status)) /\ UNCHANGED issues
    /\ UNCHANGED <<others, allowed, disk, exported, edits>>

(* GitHub decides about a request whose answer was lost. *)
Arrives ==
    /\ inflight # << >> /\ inflight' = Tail(inflight)
    /\ issues' \in {issues, Append(issues, Issue(Head(inflight)))}
    /\ UNCHANGED <<others, sent, allowed, disk, exported, run, report, edits, trouble>>

(* The issue is read again, and its mapping saved before anything depends on it. *)
Record ==
    LET number == CHOOSE n \in run.found : TRUE
        status == [run.status EXCEPT ![run.ticket] = Created(number)]
    IN  /\ run.at = "record"
        /\ \/ /\ ~Checks(run.ticket, number) /\ End("conflict")
              /\ UNCHANGED <<disk, trouble>>
           \/ /\ Checks(run.ticket, number)
              /\ disk' = Batch(status)
              /\ run' = [run EXCEPT !.at = "choose", !.status = status, !.found = {},
                                    !.ticket = 0]
              /\ UNCHANGED <<report, trouble>>
           \/ /\ Checks(run.ticket, number)
              /\ Trouble /\ disk' \in {disk, Batch(status)} /\ End("uncertain")
        /\ UNCHANGED <<remote, allowed, exported, edits>>

(* graph::run reads the complete graph before it adds a link. *)
ReadGraph ==
    /\ run.at = "choose" /\ Ready(run.status) = {}
    /\ IF GraphReads(run.status)
       THEN /\ run' = [run EXCEPT !.todo = Missing(run.status), !.at =
                          IF Missing(run.status) = << >> THEN "labels" ELSE "link"]
            /\ UNCHANGED report
       ELSE End("conflict")
    /\ UNCHANGED <<remote, allowed, disk, exported, edits, trouble>>

Linked(issue, link) ==
    IF link[2] = 0 THEN [issue EXCEPT !.parent = "ours"]
    ELSE [issue EXCEPT !.blockers = @ \union {link[2]}]

(* ensure_parent and ensure_dependency: fresh reads, the link, fresh reads. *)
AddLink ==
    LET link == Head(run.todo)
        number == run.status[link[1]].issue
    IN  /\ run.at = "link"
        /\ IF Checks(link[1], number) /\ ~(link[2] = 0 /\ issues[number].parent = "other")
           THEN /\ issues' = [issues EXCEPT ![number] = Linked(@, link)]
                /\ \/ /\ run' = [run EXCEPT !.todo = Tail(@), !.at =
                                    IF Len(run.todo) = 1 THEN "regraph" ELSE "link"]
                      /\ UNCHANGED <<report, trouble>>
                   \/ Trouble /\ End(Stopped(run.status))
           ELSE End("conflict") /\ UNCHANGED <<issues, trouble>>
        /\ UNCHANGED <<others, inflight, sent, allowed, disk, exported, edits>>

(* The complete graph is read again after the last link. *)
RereadGraph ==
    /\ run.at = "regraph"
    /\ IF ~GraphReads(run.status) THEN End("conflict")
       ELSE IF Missing(run.status) # << >> THEN End(Stopped(run.status))
       ELSE Goto("labels") /\ UNCHANGED report
    /\ UNCHANGED <<remote, allowed, disk, exported, edits, trouble>>

(* labels::run checks the labels of all tickets first. *)
ReadLabels ==
    /\ run.at = "labels"
    /\ IF \A ticket \in Tickets : LabelsRead(run.status, ticket)
       THEN run' = [run EXCEPT !.at = "label", !.ticket = 1] /\ UNCHANGED report
       ELSE End("conflict")
    /\ UNCHANGED <<remote, allowed, disk, exported, edits, trouble>>

AddLabels ==
    LET number == run.status[run.ticket].issue
        next == IF run.ticket = Len(Plan)
                THEN [run EXCEPT !.at = "final", !.ticket = 0, !.calm = TRUE]
                ELSE [run EXCEPT !.ticket = @ + 1]
    IN  /\ run.at = "label"
        /\ IF LabelsRead(run.status, run.ticket)
           THEN /\ issues' = [issues EXCEPT ![number].labels = @ \union Plan[run.ticket].labels]
                /\ \/ run' = next /\ UNCHANGED <<report, trouble>>
                   \/ /\ Unlabelled(run.status, run.ticket) # {}
                      /\ Trouble /\ End(Stopped(run.status))
           ELSE End("conflict") /\ UNCHANGED <<issues, trouble>>
        /\ UNCHANGED <<others, inflight, sent, allowed, disk, exported, edits>>

final_graph == Missing(run.status) = << >>

(* Fresh reads of the graph, then of the labels, before completion. *)
CheckGraph ==
    /\ run.at = "final"
    /\ IF ~GraphReads(run.status) THEN End("conflict")
       ELSE IF ~final_graph THEN End(Stopped(run.status))
       ELSE Goto("final labels") /\ UNCHANGED report
    /\ UNCHANGED <<remote, allowed, disk, exported, edits, trouble>>

CheckLabels ==
    /\ run.at = "final labels"
    /\ IF ~\A ticket \in Tickets : LabelsRead(run.status, ticket) THEN End("conflict")
       ELSE IF \E ticket \in Tickets : Unlabelled(run.status, ticket) # {}
       THEN End(Stopped(run.status))
       ELSE End("complete")
    /\ UNCHANGED <<remote, allowed, disk, exported, edits, trouble>>

-----------------------------------------------------------------------------
(* The other commands hold the lock for one step.                          *)

Prepare ==
    /\ run.at = "idle" /\ ~disk.exists /\ \A ticket \in Tickets : sent[ticket] = 0
    /\ disk' = Batch(NoBatch.status)
    /\ UNCHANGED <<remote, allowed, exported, run, report, edits, trouble>>

Export ==
    /\ run.at = "idle" /\ disk.exists /\ exported' = disk
    /\ UNCHANGED <<remote, allowed, disk, run, report, edits, trouble>>

AuthorizeRetry(ticket) ==
    /\ run.at = "idle" /\ disk.exists
    /\ disk.status[ticket].is = "creating"
    /\ allowed[ticket] < MaxRetries
    /\ allowed' = [allowed EXCEPT ![ticket] = @ + 1]
    /\ disk' = Batch([disk.status EXCEPT ![ticket] = RetryAuthorized])
    /\ UNCHANGED <<remote, exported, run, report, edits, trouble>>

\* A second issue, or a mapping of another one, cannot replace a saved mapping.
Adopt(ticket, number) ==
    LET status == [disk.status EXCEPT ![ticket] = Created(number)] IN
    /\ run.at = "idle" /\ disk.exists
    /\ disk.status[ticket].is # "created"
    /\ Checks(ticket, number)
    /\ disk' = Batch(status)
    /\ UNCHANGED <<remote, allowed, exported, run, report, edits, trouble>>

(* The state directory is lost with its machine, and the publisher with it. *)
LoseState ==
    /\ disk.exists /\ Trouble
    /\ disk' = NoBatch /\ run' = Idle
    /\ UNCHANGED <<remote, allowed, exported, report, edits>>

\* What reconstruction leaves of a ticket without a match.
unmatched == Creating

(* recover reconstruct, from the plan or an export, in an empty directory. *)
Reconstruct(from) ==
    LET chosen(ticket) ==
            IF from.status[ticket].is = "created" THEN {from.status[ticket].issue}
            ELSE IF Cardinality(Marked(ticket)) = 1 THEN Marked(ticket) ELSE {}
        status == [ticket \in Tickets |->
                      IF chosen(ticket) = {} THEN unmatched
                      ELSE Created(CHOOSE n \in chosen(ticket) : TRUE)]
    IN  /\ run.at = "idle" /\ ~disk.exists /\ trouble > 0
        /\ \A ticket \in Tickets : \A n \in chosen(ticket) : Checks(ticket, n)
        /\ disk' = Batch(status)
        /\ UNCHANGED <<remote, allowed, exported, run, report, edits, trouble>>

(* Others edit the issues: content, a link, another parent or a triage label. *)
Meddle(number) ==
    /\ edits < MaxEdits /\ edits' = edits + 1 /\ issues[number].of # 0
    /\ \E changed \in {[issues[number] EXCEPT !.intact = FALSE],
                       [issues[number] EXCEPT !.parent = "none"],
                       [issues[number] EXCEPT !.parent = "other"],
                       [issues[number] EXCEPT !.blockers = {}],
                       [issues[number] EXCEPT !.labels = {"wontfix"}]} :
          issues' = [issues EXCEPT ![number] = changed]
    /\ run' = [run EXCEPT !.calm = FALSE]
    /\ UNCHANGED <<others, inflight, sent, allowed, disk, exported, report, trouble>>

Next ==
    \/ Prepare \/ Publish \/ Export
    \/ \E ticket \in Tickets :
          \/ AuthorizeRetry(ticket)
          \/ \E number \in DOMAIN issues : Adopt(ticket, number)
    \/ Reconstruct(NoBatch) \/ (exported.exists /\ Reconstruct(exported))
    \/ Observe \/ Choose \/ Find \/ Create \/ Record
    \/ ReadGraph \/ AddLink \/ RereadGraph
    \/ ReadLabels \/ AddLabels \/ CheckGraph \/ CheckLabels
    \/ Fails \/ Dies \/ Arrives \/ LoseState
    \/ \E number \in DOMAIN issues : Meddle(number)

Spec == Init /\ [][Next]_vars

-----------------------------------------------------------------------------

(* However often publication is interrupted, resumed or reconstructed, and    *)
(* however late GitHub acts on a lost request, a ticket has at most one issue *)
(* more than the retries its operator authorized with the risk acknowledged,  *)
(* and none before its blockers have theirs (publish.rs run, recovery.rs).    *)
NoUnauthorizedDuplicates ==
    \A ticket \in Tickets :
        /\ Cardinality(Marked(ticket)) <= 1 + allowed[ticket]
        /\ Marked(ticket) # {} =>
              \A other \in Plan[ticket].tickets : Marked(other) # {}

(* A publication that calls itself partial or complete leaves no request in  *)
(* doubt: every ticket it ever sent one for has its mapping on disk.  Calling *)
(* itself complete also means that every planned issue, link and label is    *)
(* there, unless others edited between the final reads; and before any edit   *)
(* no issue has a planned label while a link of the plan is missing           *)
(* (publication's outcome in publish.rs, labels.rs run).                      *)
OutcomeIsHonest ==
    LET status == run.status IN
    /\ report = "none" /\ report' \in {"partial", "complete"} =>
          \A ticket \in Tickets : sent[ticket] > 0 => disk'.status[ticket].is = "created"
    /\ report = "none" /\ report' = "complete" /\ run.calm =>
          /\ Mapped(status) = Tickets /\ Missing(status) = << >>
          /\ \A ticket \in Tickets : Unlabelled(status, ticket) = {}
    /\ edits' = 0 /\ issues' # issues
          /\ (\E n \in DOMAIN issues : issues'[n].labels # issues[n].labels) =>
              Missing(status) = << >>

=============================================================================
