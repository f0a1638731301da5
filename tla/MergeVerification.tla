------------------------- MODULE MergeVerification --------------------------
(***************************************************************************)
(* The merge verification command (tools/merge_verification): `before` an  *)
(* authorized merge it reads everything the policy asks of one head of a   *)
(* pull request and leaves a receipt; `after` the merge it accepts only    *)
(* with that receipt and when the commit on main holds what was reviewed.  *)
(*                                                                         *)
(* Every read is an action of its own, and pushes, reviews, builds, other  *)
(* merges and the merge itself happen between any two of them.  A read may *)
(* fail, answer something malformed or be incomplete: the command then     *)
(* ends with a receipt that does not pass.                                 *)
(***************************************************************************)
EXTENDS Integers, Sequences, FiniteSets

CONSTANTS
    Heads,        \* commits the pull request can be at
    Paths,
    Documentation,\* the paths that end in .md
    Base,         \* the tree the branch started from: path -> blob
    Tree(_),      \* the tree of a head
    Builds,       \* what CI can have published for a head
    Required,     \* contexts required by rulesets and classic protection
    Inputs,       \* reviewed files and source review an operator passes
    MaxMoves, MaxRuns   \* bounds of the instance

\* What a file is when both sides changed it.
CONSTANT Combined

VARIABLES
    pull,       \* the pull request
    main,       \* the tree of the target branch
    merge,      \* the merge commit: its tree and the trees of its parents
    build,      \* head -> what CI has published
    hosted,     \* head -> the latest authenticated review of it
    decision,   \* the latest decision of a reviewer
    threads,    \* review threads: resolved or not
    receipts,   \* results on disk
    command,    \* the running command
    vouched,    \* head -> the gates that have ever been open for it
    moves, runs

vars == <<pull, main, merge, build, hosted, decision, threads, receipts, command,
          vouched, moves, runs>>

world == <<pull, main, merge, build, hosted, decision, threads, vouched, moves>>

Head0 == CHOOSE head \in Heads : TRUE

NoMerge == [tree |-> Base, parents |-> << >>]

\* A row of the changed files.
Changes(head) == {p \in Paths : Tree(head)[p] # Base[p]}

Idle == [at |-> "idle", phase |-> "before", head |-> Head0, files |-> {},
         initial |-> [state |-> "open", base |-> Base, count |-> 0],
         checks |-> {}, statuses |-> {}, seen |-> 0, total |-> 0, open |-> FALSE]

-----------------------------------------------------------------------------
(* What CI says about a head. *)

\* checks and workflows: sets of [name, app, ok]; statuses: of [name, ok].
accepted(rows) == \A row \in rows : row.ok

Actions == [name |-> "test", app |-> "actions"]
Codecov == [name |-> "codecov", app |-> "codecov"]

Policy(files) ==
    {Actions} \cup Required \cup (IF files \subseteq Documentation THEN {} ELSE {Codecov})

\* A requirement of any application is also met by a commit status.
published(required, checks, statuses) ==
    \/ \E check \in checks : /\ check.name = required.name
                             /\ required.app \in {"any", check.app}
    \/ required.app = "any" /\ \E status \in statuses : status.name = required.name

WorkflowsPass(b) ==
    accepted(b.workflows) /\ {"tests", "coverage"} \subseteq {w.name : w \in b.workflows}

\* The gates of the policy: what is read as a whole, and each required context,
\* which a set of checks or of statuses opens when all of it is accepted.
Clean == <<"clean">>
Gate(r) == <<r.name, r.app>>

Gates(required) ==
    {<<"checks">>, <<"statuses">>, <<"workflows">>, Clean} \cup {Gate(r) : r \in required}

Contexts == {Actions, Codecov} \cup Required

Met(r, b) ==
    \/ accepted(b.checks) /\ published(r, b.checks, {})
    \/ accepted(b.statuses) /\ published(r, {}, b.statuses)

Open(gate, b) ==
    \/ gate = <<"checks">> /\ b.checks # {} /\ accepted(b.checks)
    \/ gate = <<"statuses">> /\ accepted(b.statuses)
    \/ gate = <<"workflows">> /\ WorkflowsPass(b)
    \/ \E r \in Contexts : gate = Gate(r) /\ Met(r, b)

-----------------------------------------------------------------------------
(* The command. *)

\* A result that does not pass has reasons instead of files.
Result(passed) ==
    [phase |-> command.phase, passed |-> passed, head |-> command.head,
     files |-> IF passed THEN command.files ELSE {}]

\* main: every outcome is saved as result.json.
Finish(passed) ==
    /\ receipts' = receipts \cup {Result(passed)}
    /\ command' = Idle

\* A read whose answer was acceptable goes on, any other ends the command.
Proceed(ok, next) ==
    /\ receipts' = IF ok THEN receipts ELSE receipts \cup {Result(FALSE)}
    /\ command' = IF ok THEN next ELSE Idle
    /\ UNCHANGED <<world, runs>>

To(at) == [command EXCEPT !.at = at]

\* The source reviews are of this head and have no findings.
inputs(head, input) == input.review.head = head /\ input.review.findings = 0 /\ input.files # {}

\* Mutant: the receipt of a run that did not pass counts as well.
receipt_unread(receipt, head, files) == receipt.phase = "before" /\ receipt.head = head

\* The receipt is a passing one of the other phase, this head and these files.
receipt_accepts(receipt, head, files) ==
    /\ receipt.passed /\ receipt.phase = "before"
    /\ receipt.head = head /\ receipt.files = files

Before(head, input) ==
    /\ command = Idle /\ runs < MaxRuns
    /\ runs' = runs + 1
    /\ command' = IF inputs(head, input)
                  THEN [Idle EXCEPT !.at = "pull", !.head = head, !.files = input.files]
                  ELSE Idle
    /\ receipts' = IF inputs(head, input) THEN receipts
                   ELSE receipts \cup {[phase |-> "before", passed |-> FALSE, head |-> head,
                                        files |-> {}]}
    /\ UNCHANGED world

After(head, input, receipt) ==
    LET ok == inputs(head, input) /\ receipt_accepts(receipt, head, input.files)
    IN /\ command = Idle /\ runs < MaxRuns
       /\ runs' = runs + 1
       /\ command' = IF ok THEN [Idle EXCEPT !.at = "pull", !.phase = "after", !.head = head,
                                             !.files = input.files]
                     ELSE Idle
       /\ receipts' = IF ok THEN receipts
                      ELSE receipts \cup {[phase |-> "after", passed |-> FALSE, head |-> head,
                                           files |-> {}]}
       /\ UNCHANGED world

\* The first read of the pull request.
ReadPull ==
    /\ command.at = "pull"
    /\ Proceed(/\ pull.head = command.head
               /\ IF command.phase = "before" THEN pull.state = "open" /\ pull.mergeable
                  ELSE pull.state = "merged",
               [To("files") EXCEPT !.initial = [state |-> pull.state, base |-> main,
                                                count |-> Cardinality(Changes(pull.head))]])

\* The files of the head the pull request is at now.
ReadFiles ==
    /\ command.at = "files"
    /\ Proceed(/\ Cardinality(Changes(pull.head)) = command.initial.count
               /\ Changes(pull.head) = command.files,
               To(IF command.phase = "before" THEN "checks" ELSE "commit"))

ReadChecks ==
    LET checks == build[command.head].checks
    IN /\ command.at = "checks"
       /\ Proceed(checks # {} /\ accepted(checks), [To("statuses") EXCEPT !.checks = checks])

ReadStatuses ==
    LET statuses == build[command.head].statuses
    IN /\ command.at = "statuses"
       /\ Proceed(accepted(statuses), [To("rules") EXCEPT !.statuses = statuses])

\* Rulesets, then classic protection, against what was read before.
ReadRules ==
    /\ command.at = "rules"
    /\ Proceed(\A r \in Policy(command.files) : published(r, command.checks, command.statuses),
               To("workflows"))

ReadWorkflows ==
    /\ command.at = "workflows"
    /\ Proceed(WorkflowsPass(build[command.head]), To("reviews"))

ReadReviews ==
    /\ command.at = "reviews"
    /\ Proceed(decision # "CHANGES_REQUESTED", To("comments"))

ReadComments ==
    /\ command.at = "comments"
    /\ Proceed(hosted[command.head] = "clean", To("threads"))

\* One page of the threads; a page holds one thread here.
ReadThreads ==
    LET seen == IF threads = << >> THEN 0 ELSE command.seen + 1
        open == command.open \/ (threads # << >> /\ ~threads[seen])
        last == seen = Len(threads)
    IN /\ command.at = "threads"
       /\ seen <= Len(threads)
       /\ Proceed(/\ command.seen > 0 => command.total = Len(threads)
                  /\ last => ~open,
                  [To(IF last THEN "final" ELSE "threads")
                        EXCEPT !.seen = seen, !.total = Len(threads), !.open = open])

\* The second read of the pull request decides.
FinalPull ==
    /\ command.at = "final" /\ command.phase = "before"
    /\ Finish(/\ pull.head = command.head /\ pull.state = command.initial.state
              /\ main = command.initial.base /\ pull.mergeable)
    /\ UNCHANGED <<world, runs>>

\* The merge commit has one parent.
ReadCommit ==
    /\ command.at = "commit"
    /\ Proceed(Len(merge.parents) = 1, To("trees"))

\* The reviewed files are the head's, and the commit changes nothing else.
reviewed_contents ==
    /\ \A p \in command.files : merge.tree[p] = Tree(command.head)[p]
    /\ {p \in Paths : merge.tree[p] # merge.parents[1][p]} \subseteq command.files

CompareTrees ==
    /\ command.at = "trees"
    /\ Proceed(reviewed_contents, To("final"))

FinalMergedPull ==
    /\ command.at = "final" /\ command.phase = "after"
    /\ Finish(pull.head = command.head /\ pull.state = "merged")
    /\ UNCHANGED <<world, runs>>

\* gh fails, or its answer is malformed or incomplete.
ReadFails ==
    /\ command.at # "idle"
    /\ moves < MaxMoves /\ moves' = moves + 1
    /\ Finish(FALSE)
    /\ UNCHANGED <<pull, main, merge, build, hosted, decision, threads, vouched, runs>>

-----------------------------------------------------------------------------
(* GitHub, the authors and the reviewers. *)

\* What happens after the last command is of no interest.
Move ==
    /\ moves < MaxMoves /\ moves' = moves + 1
    /\ runs < MaxRuns \/ command # Idle
    /\ UNCHANGED <<receipts, command, runs>>

\* A push, which may be forced back to an earlier head.
Push(head, mergeable) ==
    /\ Move /\ pull.state = "open" /\ head # pull.head
    /\ pull' = [pull EXCEPT !.head = head, !.mergeable = mergeable]
    /\ UNCHANGED <<main, merge, build, hosted, decision, threads, vouched>>

\* Somebody else's merge changes a file of main.
Advance(path, blob) ==
    /\ Move /\ pull.state = "open" /\ blob # main[path]
    /\ main' = [main EXCEPT ![path] = blob]
    /\ UNCHANGED <<pull, merge, build, hosted, decision, threads, vouched>>

\* A build of a head ends, or starts again.
Build(head, b) ==
    /\ Move /\ b # build[head]
    /\ build' = [build EXCEPT ![head] = b]
    /\ vouched' = [vouched EXCEPT ![head] = @ \cup {gate \in Gates(Contexts) : Open(gate, b)}]
    /\ UNCHANGED <<pull, main, merge, hosted, decision, threads>>

HostedReviews(head, review) ==
    /\ Move /\ review # hosted[head]
    /\ hosted' = [hosted EXCEPT ![head] = review]
    /\ vouched' = IF review = "clean" THEN [vouched EXCEPT ![head] = @ \cup {Clean}] ELSE vouched
    /\ UNCHANGED <<pull, main, merge, build, decision, threads>>

Decide(d) ==
    /\ Move /\ d # decision
    /\ decision' = d
    /\ UNCHANGED <<pull, main, merge, build, hosted, threads, vouched>>

\* Threads are opened unresolved, resolved and reopened.
Comments ==
    /\ Move /\ pull.state = "open"
    /\ threads' \in {Append(threads, FALSE)}
                    \cup {[threads EXCEPT ![t] = ~@] : t \in DOMAIN threads}
    /\ UNCHANGED <<pull, main, merge, build, hosted, decision, vouched>>

\* A three-way merge, file by file.
Merged(p) ==
    IF Tree(pull.head)[p] = Base[p] THEN main[p]
    ELSE IF main[p] \in {Base[p], Tree(pull.head)[p]} THEN Tree(pull.head)[p] ELSE Combined

\* The merge of the head the pull request is at, by any of the three ways.
\* GitHub marks the pull request and keeps its head.
Merge(how) ==
    LET tree == [p \in Paths |-> Merged(p)]
    IN /\ Move /\ pull.state = "open"
       /\ pull' = [pull EXCEPT !.state = "merged"]
       /\ main' = tree
       /\ merge' = [tree |-> tree,
                    parents |-> IF how = "merge" THEN <<main, Tree(pull.head)>> ELSE <<main>>]
       /\ UNCHANGED <<build, hosted, decision, threads, vouched>>

-----------------------------------------------------------------------------
Init ==
    /\ pull = [head |-> Head0, state |-> "open", mergeable |-> TRUE]
    /\ main = Base /\ merge = NoMerge
    /\ \E b \in Builds : build = [h \in Heads |-> b]
    /\ hosted = [h \in Heads |-> IF h = Head0 THEN "clean" ELSE "missing"]
    /\ decision = "none"
    /\ threads = <<TRUE>>
    /\ receipts = {} /\ command = Idle
    /\ vouched = [h \in Heads |-> {gate \in Gates(Contexts) :
                                      Open(gate, build[h]) \/ (gate = Clean /\ h = Head0)}]
    /\ moves = 0 /\ runs = 0

Next ==
    \/ \E head \in Heads, input \in Inputs :
          \/ Before(head, input)
          \/ \E receipt \in receipts : After(head, input, receipt)
    \/ ReadPull \/ ReadFiles \/ ReadChecks \/ ReadStatuses \/ ReadRules \/ ReadWorkflows
    \/ ReadReviews \/ ReadComments \/ ReadThreads \/ FinalPull
    \/ ReadCommit \/ CompareTrees \/ FinalMergedPull \/ ReadFails
    \/ \E head \in Heads :
          \/ \E mergeable \in BOOLEAN : Push(head, mergeable)
          \/ \E b \in Builds : Build(head, b)
          \/ \E review \in {"missing", "clean", "findings"} : HostedReviews(head, review)
    \/ \E p \in Paths : \E blob \in {Combined, Tree(pull.head)[p]} : Advance(p, blob)
    \/ \E d \in {"APPROVED", "CHANGES_REQUESTED"} : Decide(d)
    \/ Comments
    \/ \E how \in {"squash", "merge"} : Merge(how)

Spec == Init /\ [][Next]_vars

-----------------------------------------------------------------------------
(* A passing `after` result means that the head of the merged pull request *)
(* has had every gate open that the policy asks of its files, that its     *)
(* changes are exactly the reviewed files, that the merge commit holds     *)
(* each of them as it was reviewed, and that it brought nothing else,      *)
(* however pushes, builds, other merges and failing reads fell between the *)
(* reads of the two commands (verify.rs before, after).  The gates may     *)
(* have been open at different times: checks and statuses are read one     *)
(* after the other, and what published them may start again in between.    *)
MergedIsReviewed ==
    \A r \in receipts : r.phase = "after" /\ r.passed =>
        /\ pull.state = "merged" /\ pull.head = r.head
        /\ Gates(Policy(r.files)) \subseteq vouched[r.head]
        /\ Changes(r.head) = r.files
        /\ \A p \in r.files : merge.tree[p] = Tree(r.head)[p]
        /\ \A p \in Paths \ r.files : merge.tree[p] = merge.parents[1][p]
=============================================================================
