---------------------------- MODULE Ranking ----------------------------
(***************************************************************************)
(* The book_smartz ranking domain (book_smartz/domain): a reader's ranking *)
(* is a list of books, best first, and at most one placement, a binary     *)
(* search for the place of a new book.  Everything is derived from an      *)
(* ordered history of events, which the stores keep as CloudEvents         *)
(* envelopes.  The positions lo, hi and j count from 0, as in the code.    *)
(*                                                                         *)
(* Identities are model values; the occurrence time of an event and the    *)
(* optional trace context are left out: nothing branches on them.          *)
(***************************************************************************)
EXTENDS Naturals, Sequences, FiniteSets

CONSTANT Books        \* the book identities (BookId)

NoBook == "NoBook"

\* PlacementSession of a book about to be compared with the n ranked ones.
Placement(candidate, n) ==
    [candidate |-> candidate, lo |-> 0, hi |-> n, skipped |-> {}, paused |-> FALSE]

NoPlacement == Placement(NoBook, 0)

\* RankingProjection of an empty history.
EmptyProjection ==
    [revision |-> 0, entries |-> <<>>, pending |-> NoPlacement, seen |-> {}]

Ranked(p) == {p.entries[i] : i \in 1 .. Len(p.entries)}

\* The 0-based position of a ranked book.
Position(p, book) == (CHOOSE i \in 1 .. Len(p.entries) : p.entries[i] = book) - 1

AbsDiff(a, b) == IF a < b THEN b - a ELSE a - b

\* RankingProjection::next_opponent: of the books between lo and hi that were
\* not skipped, the one nearest the midpoint, the better ranked on a tie.
next_opponent(p) ==
    IF p.pending = NoPlacement \/ p.pending.paused THEN NoBook
    ELSE LET lo == p.pending.lo
             hi == p.pending.hi
             midpoint == lo + (hi - lo - 1) \div 2
             eligible == {j \in lo .. (hi - 1) : p.entries[j + 1] \notin p.pending.skipped}
             Nearer(j, k) == \/ AbsDiff(j, midpoint) < AbsDiff(k, midpoint)
                             \/ AbsDiff(j, midpoint) = AbsDiff(k, midpoint) /\ j <= k
         IN IF eligible = {} THEN NoBook
            ELSE p.entries[(CHOOSE j \in eligible : \A k \in eligible : Nearer(j, k)) + 1]

-----------------------------------------------------------------------------
(* Events.  kind is "started", "answered", "paused" or "resumed"; only an    *)
(* answer names an opponent and a choice.                                    *)

Event(id, sequence, candidate, kind, opponent, choice) ==
    [id |-> id, sequence |-> sequence, candidate |-> candidate,
     kind |-> kind, opponent |-> opponent, choice |-> choice]

Accepted == "accepted"

\* The checks of RankingProjection::apply and apply_kind, in their order: the
\* reason an event is refused, or Accepted.
Verdict(p, event) ==
    IF event.sequence # p.revision + 1 THEN "SequenceMismatch"
    ELSE IF event.id \in p.seen THEN "DuplicateEventId"
    ELSE IF event.kind = "started"
    THEN IF event.candidate \in Ranked(p) THEN "DuplicateBook"
         ELSE IF p.pending # NoPlacement THEN "PendingPlacement"
         ELSE Accepted
    ELSE IF p.pending = NoPlacement THEN "NoActivePlacement"
    ELSE IF p.pending.candidate # event.candidate THEN "WrongCandidate"
    ELSE IF event.kind \in {"answered", "paused"} /\ p.pending.paused THEN "PlacementPaused"
    ELSE IF event.kind = "answered" /\ next_opponent(p) # event.opponent THEN "WrongOpponent"
    ELSE IF event.kind = "resumed" /\ ~p.pending.paused THEN "NotPaused"
    ELSE Accepted

InsertAfter(s, n, x) == SubSeq(s, 1, n) \o <<x>> \o SubSeq(s, n + 1, Len(s))

\* An off-by-one a bug could make: the opponent that won stays in range.
NarrowInclusive(pending, j, event) ==
    [pending EXCEPT !.hi = IF event.choice = "prefer_candidate" THEN j ELSE @,
                    !.lo = IF event.choice = "prefer_opponent" THEN j ELSE @,
                    !.skipped = IF event.choice = "skip" THEN @ \cup {event.opponent} ELSE @]

\* What an answer does to the bounds of the search (j: the opponent's place).
Narrow(pending, j, event) ==
    [pending EXCEPT !.hi = IF event.choice = "prefer_candidate" THEN j ELSE @,
                    !.lo = IF event.choice = "prefer_opponent" THEN j + 1 ELSE @,
                    !.skipped = IF event.choice = "skip" THEN @ \cup {event.opponent} ELSE @]

\* After an answer: the book is placed when the bounds meet, and the
\* placement pauses by itself when every book left was skipped.
Answered(p, event) ==
    LET narrowed == Narrow(p.pending, Position(p, event.opponent), event)
        after    == [p EXCEPT !.pending = narrowed]
    IN IF narrowed.lo = narrowed.hi
       THEN [p EXCEPT !.entries = InsertAfter(@, narrowed.lo, event.candidate),
                      !.pending = NoPlacement]
       ELSE [after EXCEPT !.pending.paused = next_opponent(after) = NoBook]

\* RankingProjection::apply of an accepted event.
Apply(p, event) ==
    LET next == CASE event.kind = "started" ->
                         IF p.entries = <<>> THEN [p EXCEPT !.entries = <<event.candidate>>]
                         ELSE [p EXCEPT !.pending = Placement(event.candidate, Len(p.entries))]
                  [] event.kind = "answered" -> Answered(p, event)
                  [] event.kind = "paused" -> [p EXCEPT !.pending.paused = TRUE]
                  [] event.kind = "resumed" ->
                         [p EXCEPT !.pending.paused = FALSE, !.pending.skipped = {}]
    IN [next EXCEPT !.revision = event.sequence, !.seen = @ \cup {event.id}]

\* What a refused history and a refused envelope are read as.
CorruptRanking == [EmptyProjection EXCEPT !.entries = <<NoBook>>]
CorruptEvent == Event(0, 0, NoBook, "unsupported", NoBook, "none")

\* RankingProjection::replay of a history, corrupt at the first refused event.
Replay(history) ==
    LET upto[n \in 0 .. Len(history)] ==
            IF n = 0 THEN EmptyProjection
            ELSE LET p == upto[n - 1] IN
                 IF p = CorruptRanking \/ Verdict(p, history[n]) # Accepted THEN CorruptRanking
                 ELSE Apply(p, history[n])
    IN upto[Len(history)]

-----------------------------------------------------------------------------
(* Commands.                                                                 *)

Command(name, book, choice) == [name |-> name, book |-> book, choice |-> choice]

\* The event decide proposes for a command: a started placement is about the
\* named book, every other event about the pending one.
Proposed(p, command, id) ==
    Event(id, p.revision + 1,
          IF command.name = "start" THEN command.book ELSE p.pending.candidate,
          CASE command.name = "start" -> "started"
            [] command.name = "answer" -> "answered"
            [] command.name = "pause" -> "paused"
            [] command.name = "resume" -> "resumed",
          IF command.name = "answer" THEN command.book ELSE NoBook,
          IF command.name = "answer" THEN command.choice ELSE "none")

\* decide: Accepted, or the error a command is rejected with.
Decision(p, registered, expected_revision, command, id) ==
    IF expected_revision # p.revision THEN "StaleRevision"
    ELSE IF command.name \in {"start", "answer"} /\ command.book \notin registered
    THEN "UnknownBook"
    ELSE IF command.name # "start" /\ p.pending = NoPlacement THEN "NoActivePlacement"
    ELSE Verdict(p, Proposed(p, command, id))

\* derive_notices: the place (from 1) a book took, or 0.
RankedAt(before, event, after) ==
    IF Len(after.entries) > Len(before.entries) THEN Position(after, event.candidate) + 1
    ELSE 0

-----------------------------------------------------------------------------
(* The CloudEvents profile.  An envelope repeats the event's identities in   *)
(* its context attributes and in its data, and carries the action that      *)
(* caused it as correlation and causation.                                  *)

EventType(kind) ==
    CASE kind = "started" -> "bookranking.placement.started.v1"
      [] kind = "answered" -> "bookranking.comparison.answered.v1"
      [] kind = "paused" -> "bookranking.placement.paused.v1"
      [] kind = "resumed" -> "bookranking.placement.resumed.v1"

KindOf(type) ==
    IF \E k \in {"started", "answered", "paused", "resumed"} : EventType(k) = type
    THEN CHOOSE k \in {"started", "answered", "paused", "resumed"} : EventType(k) = type
    ELSE "unsupported"

\* to_cloud_event and encode_event.
encode_event(reader, event, correlation, causation) ==
    [id |-> event.id, source |-> reader, subject |-> event.candidate,
     type |-> EventType(event.kind), sequence |-> event.sequence,
     data |-> [readerId |-> reader, candidateBookId |-> event.candidate,
               sequence |-> event.sequence, opponentBookId |-> event.opponent,
               choice |-> event.choice],
     correlationid |-> correlation, causationid |-> causation]

\* decode_event: the attributes have to agree with the data, an answer needs
\* its opponent and choice.
decode_event(envelope) ==
    IF \/ envelope.source # envelope.data.readerId
       \/ envelope.subject # envelope.data.candidateBookId
       \/ envelope.sequence # envelope.data.sequence
       \/ envelope.sequence = 0
       \/ KindOf(envelope.type) = "unsupported"
       \/ /\ KindOf(envelope.type) = "answered"
          /\ \/ envelope.data.opponentBookId = NoBook
             \/ envelope.data.choice \notin {"prefer_candidate", "prefer_opponent", "skip"}
    THEN CorruptEvent
    ELSE Event(envelope.id, envelope.data.sequence, envelope.data.candidateBookId,
               KindOf(envelope.type), envelope.data.opponentBookId, envelope.data.choice)
=============================================================================
