------------------------------ MODULE Catalog ------------------------------
(***************************************************************************)
(* Book Smartz's access to Open Library: the admission that every instance *)
(* of the deployment shares (catalog/admission.rs), the provider's answers *)
(* (catalog/metadata.rs) and the shared cache of work metadata             *)
(* (catalog/cache.rs), under searches and lookups that run concurrently    *)
(* and may die, time out or lose the answer of a commit.                   *)
(*                                                                         *)
(* A work's metadata is the set of its optional fields that are present;   *)
(* its title and the values of the fields do not matter here.  Time is a   *)
(* counter; GateInterval, Window and FreshFor stand for one second, one    *)
(* minute and 24 hours.                                                    *)
(***************************************************************************)
EXTENDS Integers, Sequences, FiniteSets, SequencesExt

CONSTANTS
    Readers, Works, Fields,
    Slots,          \* requests that may be in flight together
    GateInterval, Window, ReaderLimit,   \* 1 second, 1 minute, 10
    FreshFor, CacheLimit,                \* 24 hours, 10000 works
    LastTime, MaxRequests, MaxTrouble    \* bounds of the instance

VARIABLES
    now,
    gate,           \* search_gate.next_search_at
    admissions,     \* rows of search_admissions
    admitted,       \* every admission that was ever committed
    dispatched,     \* requests that reached the provider, by reader
    cache,          \* metadata of the works in `used`
    used,           \* cached works, the most recently used first
    requests, asked, trouble

vars == <<now, gate, admissions, admitted, dispatched, cache, used,
          requests, asked, trouble>>

tables == <<gate, admissions, admitted, dispatched, cache, used>>

\* A search has no work of its own.
NoWork == "no work"

\* A cached entry, or the absence of one.
Entry(fields, until) == [known |-> TRUE, fields |-> fields, until |-> until]
NoEntry == [known |-> FALSE, fields |-> {}, until |-> 0]

Idle == [at |-> "idle", reader |-> NoWork, work |-> NoWork, cached |-> NoEntry,
         since |-> 0, found |-> << >>, answer |-> << >>, evicted |-> FALSE]

Init ==
    /\ now = 1 /\ gate = 0 /\ admissions = {} /\ admitted = << >>
    /\ dispatched = [reader \in Readers |-> 0]
    /\ cache = [work \in Works |-> NoEntry] /\ used = << >>
    /\ requests = [slot \in Slots |-> Idle] /\ asked = 0 /\ trouble = 0

Trouble == trouble < MaxTrouble /\ trouble' = trouble + 1

Move(slot, request) == requests' = [requests EXCEPT ![slot] = request]

Goto(slot, place) == Move(slot, [requests[slot] EXCEPT !.at = place])

Tick ==
    /\ now < LastTime /\ now' = now + 1
    /\ UNCHANGED <<tables, requests, asked, trouble>>

Free(slot) == requests[slot].at \in {"idle", "done"}

(* A reader searches, or the application looks a work up.  Slots are alike: *)
(* a request takes the first free one.                                      *)
Ask(slot, reader, work) ==
    /\ Free(slot) /\ asked < MaxRequests
    /\ \A other \in Slots : other < slot => ~Free(other)
    /\ asked' = asked + 1
    /\ Move(slot, [Idle EXCEPT !.reader = reader, !.work = work,
                               !.at = IF work = NoWork THEN "admit" ELSE "read"])
    /\ UNCHANGED <<now, tables, trouble>>

(* The end of a request: the page the reader sees, a lookup's of one work. *)
Answer(request, page) ==
    [Idle EXCEPT !.at = "done", !.work = request.work, !.cached = request.cached,
                 !.answer = page, !.evicted = request.evicted]

Page(work, fields) == [w \in {work} |-> fields]

\* What a request without a provider's answer shows: a lookup the stale entry
\* it read, if it read one, and a search nothing.
Fallback(request) ==
    Answer(request, IF request.cached.known
                    THEN Page(request.work, request.cached.fields) ELSE << >>)

is_fresh(entry) == entry.known /\ now < entry.until

Touch(works) == works \o SelectSeq(used, LAMBDA work : ~Contains(works, work))

(* Cache::read.  A failure before the row arrives reads as an absent row, one *)
(* after it leaves only the time of last use as it was.                       *)
Read(slot) ==
    LET request == requests[slot]
        entry == cache[request.work]
        Got(e) == [request EXCEPT !.cached = e, !.at = "admit"]
        Then(e) == Move(slot, IF is_fresh(e)
                              THEN Answer(Got(e), Page(request.work, e.fields))
                              ELSE Got(e))
    IN  /\ request.at = "read"
        /\ \/ /\ Then(entry)
              /\ used' = IF entry.known THEN Touch(<<request.work>>) ELSE used
              /\ UNCHANGED trouble
           \/ /\ Trouble /\ UNCHANGED used
              /\ \E e \in {entry, NoEntry} : Then(e)
        /\ UNCHANGED <<now, gate, admissions, admitted, dispatched, cache, asked>>

Recent(since) == {row \in admissions : row.at > since - Window}

unlocked_always(slot) == TRUE

\* pg_try_advisory_xact_lock: another transaction's lock is not waited for.
unlocked(slot) == \A other \in Slots : requests[other].at # "admitting"

(* admit up to its writes: the lock, the gate, the purge and the count. *)
Admit(slot) ==
    LET request == requests[slot] IN
    /\ request.at = "admit"
    /\ Move(slot,
            IF /\ unlocked(slot)
               /\ gate <= now
               /\ Cardinality({row \in Recent(now) : row.reader = request.reader})
                      < ReaderLimit
            THEN [request EXCEPT !.at = "admitting", !.since = now]
            ELSE Fallback(request))
    /\ UNCHANGED <<now, tables, asked, trouble>>

(* The rest of admit.  A commit whose answer is lost has consumed a permit *)
(* without a request to the provider; one that fails has not.              *)
Commit(slot) ==
    LET request == requests[slot]
        row == [reader |-> request.reader, at |-> now]
    IN  /\ request.at = "admitting"
        /\ \/ /\ Goto(slot, "call") /\ UNCHANGED trouble
           \/ /\ Trouble /\ Move(slot, Fallback(request))
        /\ admissions' = Recent(request.since) \union {row}
        /\ admitted' = Append(admitted, row)
        /\ gate' = now + GateInterval
        /\ UNCHANGED <<now, dispatched, cache, used, asked>>

CommitFails(slot) ==
    /\ requests[slot].at = "admitting" /\ Trouble
    /\ Move(slot, Fallback(requests[slot]))
    /\ UNCHANGED <<now, tables, asked>>

\* The pages Open Library may answer with: distinct valid works (Provider::search
\* drops the others), each with the optional fields it happens to have.
Pages == UNION {[works -> SUBSET Fields] : works \in SUBSET Works}

\* Provider::lookup accepts a single work, the one asked for.
accepted(request, page) ==
    request.work = NoWork \/ DOMAIN page = {request.work}

(* The request to the provider.  It answers, or the request times out, is *)
(* limited or answered with something unusable.                           *)
Call(slot) ==
    LET request == requests[slot] IN
    /\ request.at = "call"
    /\ dispatched' = [dispatched EXCEPT ![request.reader] = @ + 1]
    /\ \/ \E page \in Pages :
             /\ Move(slot,
                     IF ~accepted(request, page) THEN Fallback(request)
                     ELSE IF page = << >> THEN Answer(request, page)
                     ELSE [request EXCEPT !.at = "keep", !.found = page, !.since = now])
             /\ UNCHANGED trouble
       \/ Trouble /\ Move(slot, Fallback(request))
    /\ UNCHANGED <<now, gate, admissions, admitted, cache, used, asked>>

\* The fresh answer wins field by field; what it lacks comes from the older one.
merge(fresh, older) == fresh \union older

row_ignored(request, work) == merge(request.found[work], request.cached.fields)

\* The row as it is inside the writing transaction, or what the lookup had read.
enriched(request, work) ==
    merge(request.found[work],
          IF cache[work].known THEN cache[work].fields ELSE request.cached.fields)

\* A lookup whose entry leaves the cache while it is in flight.
Misses(slot, works) ==
    ~Free(slot) /\ requests[slot].cached.known /\ ~Contains(works, requests[slot].work)

Orders(works) == {order \in [1..Cardinality(works) -> works] : IsInjective(order)}

(* Cache::retain_with_fallback: the writes are serialized by a lock of their *)
(* own, and the works least recently used beyond the limit leave.            *)
Keep(slot) ==
    LET request == requests[slot]
        works == DOMAIN request.found
        result == [work \in works |-> enriched(request, work)]
    IN  /\ request.at = "keep"
        /\ \E order \in Orders(works) :
              used' = SubSeq(Touch(order), 1,
                             IF Len(Touch(order)) < CacheLimit
                             THEN Len(Touch(order)) ELSE CacheLimit)
        /\ requests' = [s \in Slots |->
                           IF s = slot THEN Answer(request, result)
                           ELSE IF Misses(s, used') THEN [requests[s] EXCEPT !.evicted = TRUE]
                           ELSE requests[s]]
        /\ cache' = [work \in Works |->
                        IF ~Contains(used', work) THEN NoEntry
                        ELSE IF work \in works
                        THEN Entry(result[work], request.since + FreshFor)
                        ELSE cache[work]]
        /\ UNCHANGED <<now, gate, admissions, admitted, dispatched, asked, trouble>>

(* Persistence is optional: when it fails, before or after the rows were *)
(* read, the reader still gets the provider's works.                     *)
KeepFails(slot) ==
    LET request == requests[slot]
        works == DOMAIN request.found
    IN  /\ request.at = "keep" /\ Trouble
        /\ \E read \in SUBSET works :
              Move(slot, Answer(request, [work \in works |->
                    IF work \in read THEN enriched(request, work)
                    ELSE merge(request.found[work], request.cached.fields)]))
        /\ UNCHANGED <<now, tables, asked>>

\* The instance dies, or the reader goes away and the request is cancelled.
Die(slot) ==
    /\ ~Free(slot) /\ Trouble
    /\ Move(slot, Idle)
    /\ UNCHANGED <<now, tables, asked>>

Next ==
    \/ Tick
    \/ \E slot \in Slots :
          \/ \E reader \in Readers, work \in Works \union {NoWork} :
                Ask(slot, reader, work)
          \/ Read(slot)
          \/ Admit(slot) \/ Commit(slot) \/ CommitFails(slot)
          \/ Call(slot)
          \/ Keep(slot) \/ KeepFails(slot)
          \/ Die(slot)

Spec == Init /\ [][Next]_vars

(* Across all instances, commits of unknown outcome and deaths included,      *)
(* Open Library gets no request without an admission of its own (admission.rs *)
(* says a permit is consumed even on failure and an uncertain commit never    *)
(* dispatches), any two admissions are a second apart, and no reader has more *)
(* than ten in any minute.                                                    *)
AdmissionsWithinLimits ==
    /\ \A reader \in Readers :
          dispatched[reader] <=
              Cardinality({i \in DOMAIN admitted : admitted[i].reader = reader})
    /\ \A i, j \in DOMAIN admitted :
          i < j => admitted[j].at - admitted[i].at >= GateInterval
    /\ \A i \in DOMAIN admitted :
          Cardinality({j \in DOMAIN admitted :
              /\ j >= i
              /\ admitted[j].reader = admitted[i].reader
              /\ admitted[j].at < admitted[i].at + Window}) <= ReaderLimit

(* Concurrent answers of the provider that lack a field never take it from a *)
(* work that has it in the cache (retain merges inside the transaction that  *)
(* writes), and a lookup that read an entry answers with every field of it,  *)
(* whatever failed since and whatever other answers were kept, unless its    *)
(* entry was evicted meanwhile: the row may then be a new one, and retain    *)
(* prefers the row to what the lookup had read (retain_with_fallback).       *)
MetadataKept ==
    /\ \A work \in Works :
          cache[work].known /\ cache[work]'.known
              => cache[work].fields \subseteq cache[work]'.fields
    /\ \A slot \in Slots :
          LET request == requests[slot]' IN
          request.at = "done" /\ request.cached.known /\ ~request.evicted
              => /\ request.work \in DOMAIN request.answer
                 /\ request.cached.fields \subseteq request.answer[request.work]

=============================================================================
