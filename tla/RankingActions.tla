------------------------- MODULE RankingActions -------------------------
(***************************************************************************)
(* How book_smartz changes a reader's ranking from the web                 *)
(* (book_smartz/web/actions.rs, actions/evidence.rs, book_smartz/storage). *)
(*                                                                         *)
(* A page offers a signed form with a fresh action id.  Submitting it      *)
(* records an intent; execute then drives the action through registration, *)
(* preparation and the append to the ranking, one transaction at a time,   *)
(* and any request for the same action (a second click, a recovery check)  *)
(* may take over at any point.  The only evidence is two append-only       *)
(* histories per reader: application facts and ranking envelopes.          *)
(*                                                                         *)
(* A transaction of begin_command holds the reader's row lock from its     *)
(* first read to its commit, so it is one step here.  Its commit may be    *)
(* lost, durable or not, and the request then ends unconfirmed.            *)
(***************************************************************************)
EXTENDS Ranking

CONSTANTS Readers, Works, Slots,
          Found,         \* the works searches find
          Starts,        \* where the readers may start: their ranking envelopes
          StartBooks,    \* the registered books then
          MaxActions,    \* pages with a form, one fresh action each
          MaxRequests,   \* submitted forms and recovery checks
          MaxDirect,     \* commands of another caller of the store
          MaxFaults      \* lost commits, failed reads and cancelled requests

NoAction == 0

VARIABLES books,         \* book_smartz.books: the identity of each work
          application,   \* book_smartz.application_events, per reader
          ranking,       \* book_smartz.ranking_events, per reader
          offers,        \* the signed forms handed out
          tasks,         \* the requests being handled
          replies,       \* what requests were told about their action
          issued, requests, direct, faults    \* counters of the bounds

vars == <<books, application, ranking, offers, tasks, replies,
          issued, requests, direct, faults>>

Buttons(kind) == IF kind = "answer" THEN {"candidate", "opponent"} ELSE {kind}

Registered(reg) == {reg[w] : w \in Works} \ {NoBook}

-----------------------------------------------------------------------------
(* The storage.                                                              *)

\* replay_rows: the projection of the stored envelopes.
Projection(documents) ==
    Replay([i \in 1 .. Len(documents) |-> decode_event(documents[i])])

\* The stored rankings at the start replay; without application facts yet, another
\* caller of the store wrote them.
ASSUME StartsAssumption ==
    \A start \in Starts :
        /\ start = [r \in Readers |-> start[r]]
        /\ \A r \in Readers :
            /\ start[r] \in Seq({start[r][i] : i \in DOMAIN start[r]})
            /\ Projection(start[r]) # CorruptRanking
            /\ \A i \in 1 .. Len(start[r]) : start[r][i].correlationid = NoAction

\* insert_document's foreign keys: both books are registered.
Insertable(document) ==
    {document.subject, document.data.opponentBookId} \ {NoBook} \subseteq Registered(books)

\* CommandTransaction::append_ranking accepts a document.
Appendable(documents, document, expected) ==
    /\ Projection(documents).revision = expected
    /\ Verdict(Projection(documents), decode_event(document)) = Accepted
    /\ Insertable(document)

-----------------------------------------------------------------------------
(* The evidence in the histories (actions/evidence.rs).  A fact's id is its  *)
(* place in the history; cause is the id of the fact it follows from.        *)

Fact(action, stage, cause, data) ==
    [action |-> action, stage |-> stage, cause |-> cause, data |-> data]

NoData == [none |-> TRUE]

Facts(history, action, stage) ==
    {i \in 1 .. Len(history) : history[i].action = action /\ history[i].stage = stage}

First(S) == CHOOSE i \in S : \A j \in S : i <= j

Has(history, action, stage) == Facts(history, action, stage) # {}
The(history, action, stage) == history[First(Facts(history, action, stage))]

intent(history, action) == The(history, action, "intent").data
prepared(history, action) == The(history, action, "rankingprepared").data

\* A bug could take the preparation for the save.
saved_when_prepared(history, documents, action) == Has(history, action, "rankingprepared")

\* saved: the prepared envelope is in the ranking, unchanged.
saved(history, documents, action) ==
    /\ Has(history, action, "rankingprepared")
    /\ \E i \in 1 .. Len(documents) : documents[i] = prepared(history, action)

\* unresolved: the actions whose save is neither confirmed nor rejected.
unresolved(history, documents) ==
    {history[i].action : i \in {i \in 1 .. Len(history) :
        /\ history[i].stage = "intent"
        /\ ~Has(history, history[i].action, "rejected")
        /\ ~saved(history, documents, history[i].action)}}

\* Preparing without looking whether another retry already did.
decided_by_nobody(history, action) == FALSE

\* Another retry may have advanced this action: it has to be looked at again.
decided(history, action) ==
    Has(history, action, "rankingprepared") \/ Has(history, action, "rejected")

-----------------------------------------------------------------------------
(* Pages.                                                                    *)

Form(reader, action, kind, work, candidate, opponent, revision) ==
    [reader |-> reader, action |-> action, kind |-> kind, work |-> work,
     candidate |-> candidate, opponent |-> opponent, revision |-> revision]

Checking(r) == unresolved(application[r], ranking[r]) # {}

Issue(forms) ==
    /\ issued < MaxActions
    /\ issued' = issued + 1
    /\ offers' = offers \cup forms
    /\ UNCHANGED <<books, application, ranking, tasks, replies, requests, direct, faults>>

\* select: the form that adds a work, disabled while a placement or a save is
\* open.
Select(r, w) ==
    /\ Projection(ranking[r]).pending = NoPlacement
    /\ ~Checking(r)
    /\ Issue({Form(r, issued + 1, "add", w, NoBook, NoBook, Projection(ranking[r]).revision)})

\* comparison_state: one action for both forms of the page, the answer and
\* the pause or resume, which names the candidate twice.
Compare(r) ==
    LET p == Projection(ranking[r])
        c == p.pending.candidate
        opponent == next_opponent(p)
        control == IF p.pending.paused THEN "resume" ELSE "pause"
    IN /\ p.pending # NoPlacement
       /\ ~Checking(r)
       /\ Issue({Form(r, issued + 1, control, "NoWork", c, c, p.revision)}
                \cup {Form(r, issued + 1, "answer", "NoWork", c, o, p.revision) :
                          o \in {opponent} \ {NoBook}})

-----------------------------------------------------------------------------
(* Requests.                                                                 *)

Idle == [pc |-> "idle"]

Task(pc, reader, action, form, choice, book) ==
    [pc |-> pc, reader |-> reader, action |-> action, form |-> form,
     choice |-> choice, book |-> book]

NoForm == "NoForm"

\* The request goes on at pc, for its action alone.
At(s, pc, book) == Task(pc, tasks[s].reader, tasks[s].action, NoForm, "none", book)

Arrive(s, task) ==
    /\ tasks[s] = Idle
    /\ requests < MaxRequests
    /\ requests' = requests + 1
    /\ tasks' = [tasks EXCEPT ![s] = task]
    /\ UNCHANGED <<books, application, ranking, offers, replies, issued, direct, faults>>

\* A form is sent, perhaps again, perhaps from an old tab.
Submit(s) ==
    \E form \in offers : \E choice \in Buttons(form.kind) :
        Arrive(s, Task("submit", form.reader, form.action, form, choice, NoBook))

\* recover: pages show a check for every unresolved action, and a request that
\* ended unconfirmed shows one for its own.
Recover(s) ==
    \E r \in Readers : \E action \in unresolved(application[r], ranking[r])
                                 \cup {reply.action : reply \in {x \in replies :
                                          x.reader = r /\ x.outcome = "unconfirmed"}} :
        Arrive(s, Task("loop", r, action, NoForm, "none", NoBook))

Told(s, outcome) ==
    [reader |-> tasks[s].reader, action |-> tasks[s].action, outcome |-> outcome]

\* The request ends and its reader is told the outcome.
Ends(s, outcome) ==
    /\ tasks' = [tasks EXCEPT ![s] = Idle]
    /\ replies' = replies \cup {Told(s, outcome)}

Reply(s, outcome) ==
    /\ Ends(s, outcome)
    /\ UNCHANGED <<books, application, ranking, offers, issued, requests, direct, faults>>

Continue(s, pc, book) ==
    /\ tasks' = [tasks EXCEPT ![s] = At(s, pc, book)]
    /\ UNCHANGED <<books, application, ranking, offers, replies, issued, requests, direct, faults>>

\* A transaction appends one application fact, and the request goes on.
Append1(s, fact, pc) ==
    /\ application' = [application EXCEPT ![tasks[s].reader] = Append(@, fact)]
    /\ tasks' = [tasks EXCEPT ![s] = At(s, pc, NoBook)]
    /\ UNCHANGED <<books, ranking, offers, replies, issued, requests, direct, faults>>

\* A request meets a fault before or after any of its transactions: a commit
\* whose fate it does not learn, a failed read, its cancellation.  Nothing of
\* it outlives it but what it committed.
Fails(s) ==
    /\ tasks[s] # Idle
    /\ faults < MaxFaults
    /\ faults' = faults + 1
    /\ Ends(s, "unconfirmed")
    /\ UNCHANGED <<books, application, ranking, offers, issued, requests, direct>>

Request(s) == [kind |-> tasks[s].form.kind, work |-> tasks[s].form.work,
               candidate |-> tasks[s].form.candidate, opponent |-> tasks[s].form.opponent,
               choice |-> tasks[s].choice, revision |-> tasks[s].form.revision]

\* What add and submit_ranking_command do with the action's intent: continue
\* with the same one, refuse another, wait for an open save, or record it.
Admit(s) ==
    LET history == application[tasks[s].reader]
        action == tasks[s].action
    IN \/ /\ Has(history, action, "intent")
          /\ intent(history, action) = Request(s)
          /\ Continue(s, "loop", NoBook)
       \/ /\ Has(history, action, "intent")
          /\ intent(history, action) # Request(s)
          /\ Reply(s, "forbidden")
       \/ /\ ~Has(history, action, "intent")
          /\ Checking(tasks[s].reader)
          /\ Reply(s, "blocked")
       \/ /\ ~Has(history, action, "intent")
          /\ ~Checking(tasks[s].reader)
          /\ Append1(s, Fact(action, "intent", 0, Request(s)), "loop")

\* add, up to the intent's commit.  A selection is good for 15 minutes: only
\* a new add looks at it, and may find it expired.
Add(s) ==
    /\ tasks[s].pc = "submit" /\ tasks[s].form.kind = "add"
    /\ \/ Admit(s)
       \/ /\ ~Has(application[tasks[s].reader], tasks[s].action, "intent")
          /\ Reply(s, "forbidden")

\* submit_ranking_command, up to the intent's commit.
SubmitRankingCommand(s) ==
    /\ tasks[s].pc = "submit" /\ tasks[s].form.kind # "add"
    /\ Admit(s)

\* A bug could go back to prepare the action again, which finds it prepared.
prepare_stale_again(s) == Continue(s, "prepare", NoBook)

\* The ranking moved on after the preparation: the action is rejected.
reject_stale(s) ==
    Append1(s, Fact(tasks[s].action, "rejected",
                    First(Facts(application[tasks[s].reader], tasks[s].action, "rankingprepared")),
                    NoData), "loop")

\* commit_prepared_ranking.  A document the ranking or its foreign keys refuse
\* is an error, which every retry meets again.
CommitRanking(s, document) ==
    LET r == tasks[s].reader
        ok == Appendable(ranking[r], document, Projection(ranking[r]).revision)
    IN /\ ranking' = [ranking EXCEPT ![r] = IF ok THEN Append(@, document) ELSE @]
       /\ tasks' = [tasks EXCEPT ![s] = IF ok THEN At(s, "confirm", NoBook) ELSE Idle]
       /\ replies' = IF ok THEN replies ELSE replies \cup {Told(s, "unconfirmed")}
       /\ UNCHANGED <<books, application, offers, issued, requests, direct, faults>>

\* The loop of execute: where the action stands, under the reader's lock.
Look(s) ==
    LET r == tasks[s].reader
        action == tasks[s].action
        history == application[r]
        document == prepared(history, action)
        original == intent(history, action)
    IN /\ tasks[s].pc = "loop"
       /\ \/ /\ ~Has(history, action, "intent")
             /\ Reply(s, "missing")
          \/ /\ saved(history, ranking[r], action)
             /\ Reply(s, "saved")
          \/ /\ ~saved(history, ranking[r], action)
             /\ Has(history, action, "rejected")
             /\ Reply(s, "rejected")
          \/ /\ ~saved(history, ranking[r], action)
             /\ ~Has(history, action, "rejected")
             /\ \/ /\ Has(history, action, "rankingprepared")
                   /\ Projection(ranking[r]).revision # original.revision
                   /\ reject_stale(s)
                \/ /\ Has(history, action, "rankingprepared")
                   /\ Projection(ranking[r]).revision = original.revision
                   /\ CommitRanking(s, document)
                \/ /\ Has(history, action, "intent")
                   /\ ~Has(history, action, "rankingprepared")
                   /\ original.kind # "add"
                   /\ Continue(s, "prepare", NoBook)
                \/ /\ Has(history, action, "intent")
                   /\ ~Has(history, action, "rankingprepared")
                   /\ original.kind = "add"
                   /\ ~Has(history, action, "registrationprepared")
                   /\ Continue(s, "find", NoBook)
                \/ /\ Has(history, action, "registrationprepared")
                   /\ ~Has(history, action, "rankingprepared")
                   /\ Continue(s, "register",
                               The(history, action, "registrationprepared").data.book)

\* The commit was acknowledged, and the reader is told.
Confirm(s) ==
    /\ tasks[s].pc = "confirm"
    /\ Reply(s, "saved")

\* prepare_decision: the frozen event of the action, or its rejection.
Prepare(s, command, registered, cause) ==
    LET r == tasks[s].reader
        history == application[r]
        original == intent(history, tasks[s].action)
        p == Projection(ranking[r])
        ok == Decision(p, registered, original.revision, command, tasks[s].action) = Accepted
    IN IF ok
       THEN Fact(tasks[s].action, "rankingprepared", cause,
                 encode_event(r, Proposed(p, command, tasks[s].action), tasks[s].action,
                              Len(history) + 1))
       ELSE Fact(tasks[s].action, "rejected", cause, NoData)

CommandOf(original) ==
    Command(original.kind, original.opponent,
            CASE original.choice = "candidate" -> "prefer_candidate"
              [] original.choice = "opponent" -> "prefer_opponent"
              [] OTHER -> "none")

\* prepare_preference.  The books are read before the lock is taken; they are
\* in the ranking, so registered for good.  An answer for another candidate
\* than the pending one is rejected as an unknown book.
PreparePreference(s) ==
    LET r == tasks[s].reader
        history == application[r]
        original == intent(history, tasks[s].action)
        p == Projection(ranking[r])
        known == {original.candidate, original.opponent} \cap Registered(books)
        current == p.pending # NoPlacement /\ p.pending.candidate = original.candidate
    IN /\ tasks[s].pc = "prepare"
       /\ \/ decided(history, tasks[s].action) /\ Continue(s, "loop", NoBook)
          \/ /\ ~decided(history, tasks[s].action)
             /\ Append1(s, IF current
                           THEN Prepare(s, CommandOf(original), known,
                                        First(Facts(history, tasks[s].action, "intent")))
                           ELSE Fact(tasks[s].action, "rejected",
                                     First(Facts(history, tasks[s].action, "intent")), NoData),
                        "loop")

\* Book identities in use: registered, allocated or held by a request.
Used == Registered(books)
        \cup UNION {{application[r][i].data.book : i \in {i \in 1 .. Len(application[r]) :
                         application[r][i].stage = "registrationprepared"}} : r \in Readers}
        \cup {tasks[s].book : s \in {s \in Slots : tasks[s] # Idle}}

\* prepare_registration, before its lock: the work's book, or a fresh identity.
FindBook(s) ==
    LET work == intent(application[tasks[s].reader], tasks[s].action).work
    IN /\ tasks[s].pc = "find"
       /\ Continue(s, "allocate", IF books[work] # NoBook THEN books[work]
                                  ELSE CHOOSE b \in Books : b \notin Used)

\* prepare_registration, under the lock: the first allocation stands.
Allocate(s) ==
    LET history == application[tasks[s].reader]
        action == tasks[s].action
    IN /\ tasks[s].pc = "allocate"
       /\ \/ Has(history, action, "registrationprepared") /\ Continue(s, "loop", NoBook)
          \/ /\ ~Has(history, action, "registrationprepared")
             /\ Append1(s, Fact(action, "registrationprepared",
                                First(Facts(history, action, "intent")),
                                [book |-> tasks[s].book]), "loop")

\* The identity a work has after INSERT ... ON CONFLICT DO NOTHING.
winner(proposed, work) == IF books[work] = NoBook THEN proposed ELSE books[work]

\* register: a transaction of its own, outside the reader's lock.
Register(s) ==
    LET work == intent(application[tasks[s].reader], tasks[s].action).work
    IN /\ tasks[s].pc = "register"
       /\ books' = [books EXCEPT ![work] = IF @ = NoBook THEN tasks[s].book ELSE @]
       /\ tasks' = [tasks EXCEPT ![s] = At(s, "decide", winner(tasks[s].book, work))]
       /\ UNCHANGED <<application, ranking, offers, replies, issued, requests, direct, faults>>

\* The rest of execute's loop for an add: prepare_ranking under the lock.
PrepareRanking(s) ==
    LET history == application[tasks[s].reader]
        action == tasks[s].action
    IN /\ tasks[s].pc = "decide"
       /\ \/ decided(history, action) /\ Continue(s, "loop", NoBook)
          \/ /\ ~decided(history, action)
             /\ Append1(s, Prepare(s, Command("start", tasks[s].book, "none"), {tasks[s].book},
                                   First(Facts(history, action, "registrationprepared"))),
                        "loop")

\* Store::execute, for another caller of the store: only here can a skip come
\* from, and a revision change between a preparation and its append.
Execute ==
    \E r \in Readers : \E command \in
        {Command("pause", NoBook, "none"), Command("resume", NoBook, "none")}
        \cup {Command("answer", o, c) : o \in {next_opponent(Projection(ranking[r]))},
                                        c \in {"prefer_candidate", "skip"}} :
        LET p == Projection(ranking[r])
            id == 200 + direct
        IN /\ direct < MaxDirect
           /\ Decision(p, Registered(books), p.revision, command, id) = Accepted
           /\ direct' = direct + 1
           /\ ranking' = [ranking EXCEPT ![r] =
                             Append(@, encode_event(r, Proposed(p, command, id), NoAction, 0))]
           /\ UNCHANGED <<books, application, offers, tasks, replies, issued, requests, faults>>

-----------------------------------------------------------------------------
Init ==
    /\ \E start \in Starts : ranking = start
    /\ books = StartBooks
    /\ application = [r \in Readers |-> <<>>]
    /\ offers = {}
    /\ tasks = [s \in Slots |-> Idle]
    /\ replies = {}
    /\ issued = 0 /\ requests = 0 /\ direct = 0 /\ faults = 0

Step(s) ==
    \/ Add(s) \/ SubmitRankingCommand(s) \/ Look(s) \/ Confirm(s) \/ PreparePreference(s)
    \/ FindBook(s) \/ Allocate(s) \/ Register(s) \/ PrepareRanking(s)

Next ==
    \/ \E r \in Readers, w \in Found : Select(r, w)
    \/ \E r \in Readers : Compare(r)
    \/ \E s \in Slots : Submit(s)
    \/ \E s \in Slots : Recover(s)
    \/ \E s \in Slots : Step(s)
    \/ \E s \in Slots : Fails(s)
    \/ Execute

Spec == Init /\ [][Next]_vars

\* The server runs every request it has begun: weak fairness of Step(s), which
\* is enabled whenever the slot is not idle.
Fairness == \A s \in Slots : []<>(tasks[s] = Idle) \/ []<><<Step(s)>>_vars

FairSpec == Spec /\ Fairness

-----------------------------------------------------------------------------
(* Properties.                                                               *)

Before(entries, a, b) ==
    \E i, j \in 1 .. Len(entries) : i < j /\ entries[i] = a /\ entries[j] = b

\* Every stored history replays, and a ranking agrees with every answer the
\* reader gave about two of its books (projection.rs apply_kind: the bounds of
\* the search exclude the opponent that was answered).
RankingFollowsAnswers ==
    \A r \in Readers :
        LET p == Projection(ranking[r])
        IN /\ p # CorruptRanking
           /\ \A i \in 1 .. Len(ranking[r]) :
                LET e == decode_event(ranking[r][i])
                IN (e.kind = "answered" /\ e.candidate \in Ranked(p)) =>
                      /\ e.choice = "prefer_candidate" => Before(p.entries, e.candidate, e.opponent)
                      /\ e.choice = "prefer_opponent" => Before(p.entries, e.opponent, e.candidate)

\* Whatever requests race for an action, it is decided once: one intent, one
\* allocation, one decision, at most one event in the ranking, none after a
\* rejection; and a reader never has two open saves (actions.rs execute,
\* "Another retry may have advanced this immutable action").
ActionsDecidedOnce ==
    \A r \in Readers :
        /\ Cardinality(unresolved(application[r], ranking[r])) <= 1
        /\ \A action \in {application[r][i].action : i \in 1 .. Len(application[r])} :
             LET Count(stage) == Cardinality(Facts(application[r], action, stage))
                 events == {i \in 1 .. Len(ranking[r]) : ranking[r][i].correlationid = action}
             IN /\ Count("intent") = 1 /\ Count("registrationprepared") <= 1
                /\ Count("rankingprepared") <= 1 /\ Count("rejected") <= 1
                /\ Cardinality(events) + Count("rejected") <= 1

\* What a reader was told stays true: a save that was confirmed is in the
\* ranking as it was prepared, and a rejected one never gets there.
RepliesStayTrue ==
    \A reply \in replies :
        LET r == reply.reader
        IN /\ reply.outcome = "saved" => saved(application[r], ranking[r], reply.action)
                                        /\ \E i \in 1 .. Len(ranking[r]) :
                                              ranking[r][i].correlationid = reply.action
           /\ reply.outcome = "rejected" =>
                 \A i \in 1 .. Len(ranking[r]) : ranking[r][i].correlationid # reply.action

\* Every request is answered: the loop of execute ends, whatever other
\* requests and callers do meanwhile.
RequestsEnd == \A s \in Slots : (tasks[s] # Idle) ~> (tasks[s] = Idle)
=============================================================================
