-------------------------- MODULE AlgorithmProofs --------------------------
(***************************************************************************)
(* Programs that keep an order right: the ranking of a reader's books and  *)
(* the order a calculation is evaluated in.                                *)
(*                                                                         *)
(* The ranking actions of book_smartz (RankingActions), for any readers,   *)
(* works, requests, faults and callers of the store.                       *)
(*                                                                         *)
(* The reader's lock makes every transaction look at the evidence again    *)
(* before it adds to it, so each stage of an action is recorded once, and  *)
(* an event of the ranking is the one its action prepared.  A ranking      *)
(* follows the answers because the bounds of the binary search exclude     *)
(* every opponent that was answered (Holds).                               *)
(*                                                                         *)
(* The validation of calculation graphs (CalculationGraph), for any        *)
(* definition: the open calls of the search are a path, so that a repeated *)
(* node closes a cycle and finished nodes wait for nobody; the in-degrees  *)
(* count the operands the order lacks; what can contribute is reached.     *)
(***************************************************************************)
EXTENDS RankingActions, Calculation, FiniteSetTheorems, SequenceTheorems,
        NaturalsInduction, WellFoundedInduction, TLAPS

-----------------------------------------------------------------------------
(* The inductive invariant.                                                *)

\* A sequence of anything.
IsSeq(s) == s \in Seq({s[i] : i \in DOMAIN s})

\* The stage of an action is recorded at most once, after its intent; a prepared
\* event names its action.
FactsOrdered(H) ==
    /\ \A i, j \in 1 .. Len(H) :
        H[i].action = H[j].action /\ H[i].stage = H[j].stage => i = j
    /\ \A i \in 1 .. Len(H) :
        /\ H[i].action # NoAction
        /\ Has(H, H[i].action, "intent")
        /\ H[i].stage = "rankingprepared" => H[i].data.correlationid = H[i].action

\* An event an action added is the one it prepared, the only one, and not rejected.
EventsPrepared(H, D) ==
    /\ \A i \in 1 .. Len(D) : D[i].correlationid # NoAction =>
        /\ Has(H, D[i].correlationid, "rankingprepared")
        /\ D[i] = prepared(H, D[i].correlationid)
        /\ ~Has(H, D[i].correlationid, "rejected")
    /\ \A i, j \in 1 .. Len(D) :
        D[i].correlationid # NoAction /\ D[i].correlationid = D[j].correlationid => i = j

OneOpen(H, D) == \A a, b \in unresolved(H, D) : a = b

\* The two histories of a reader.
Evidence(H, D) ==
    /\ IsSeq(H) /\ IsSeq(D)
    /\ FactsOrdered(H) /\ EventsPrepared(H, D) /\ OneOpen(H, D)

\* A request past the loop of execute found the intent, and the save it confirms.
TaskSound(x, app, rank) ==
    \/ x = Idle
    \/ /\ x.pc \in {"submit", "loop", "confirm", "prepare", "find", "allocate",
                    "register", "decide"}
       /\ x.reader \in Readers /\ x.action # NoAction
       /\ x.pc \notin {"submit", "loop"} => Has(app[x.reader], x.action, "intent")
       /\ x.pc = "confirm" => saved(app[x.reader], rank[x.reader], x.action)

ReplySound(y, app, rank) ==
    /\ y.reader \in Readers /\ y.action # NoAction
    /\ y.outcome = "saved" => saved(app[y.reader], rank[y.reader], y.action)
    /\ y.outcome = "rejected" => Has(app[y.reader], y.action, "rejected")

OffersNumbered ==
    /\ issued \in Nat
    /\ \A form \in offers : form.reader \in Readers /\ form.action # NoAction

IInv ==
    /\ DOMAIN application = Readers /\ DOMAIN ranking = Readers
    /\ DOMAIN tasks = Slots
    /\ application = [r \in Readers |-> application[r]]
    /\ ranking = [r \in Readers |-> ranking[r]]
    /\ tasks = [s \in Slots |-> tasks[s]]
    /\ OffersNumbered
    /\ \A r \in Readers : Evidence(application[r], ranking[r])
    /\ \A s \in Slots : TaskSound(tasks[s], application, ranking)
    /\ \A y \in replies : ReplySound(y, application, ranking)
    /\ \A r \in Readers : Projection(ranking[r]) # CorruptRanking

-----------------------------------------------------------------------------
(* Histories grow at the end.                                              *)

LEMMA SeqFacts ==
  ASSUME NEW s, IsSeq(s)
  PROVE  Len(s) \in Nat /\ DOMAIN s = 1 .. Len(s)
  BY DEF IsSeq

LEMMA SeqIntro ==
  ASSUME NEW s, NEW n \in Nat, s = [i \in 1 .. n |-> s[i]]
  PROVE  IsSeq(s) /\ Len(s) = n /\ DOMAIN s = 1 .. n
<1> DEFINE S == {s[i] : i \in DOMAIN s}
<1>1. DOMAIN s = 1 .. n
  OBVIOUS
<1>2. \A i \in 1 .. n : s[i] \in S
  BY <1>1
<1>3. s \in [1 .. n -> S]
  BY <1>2
<1>4. s \in Seq(S)
  BY <1>3
<1>5. Len(s) = n
  BY <1>1, <1>4
<1> QED
  BY <1>1, <1>4, <1>5 DEF IsSeq

LEMMA SeqAppend ==
  ASSUME NEW s, IsSeq(s), NEW e
  PROVE  /\ IsSeq(Append(s, e)) /\ Len(Append(s, e)) = Len(s) + 1
         /\ \A i \in 1 .. Len(s) : Append(s, e)[i] = s[i]
         /\ Append(s, e)[Len(s) + 1] = e
<1> DEFINE S == {s[i] : i \in DOMAIN s} \cup {e}
           c == Append(s, e)
<1>1. s \in Seq(S) /\ e \in S
  BY DEF IsSeq
<1>2. /\ c \in Seq(S) /\ Len(c) = Len(s) + 1
      /\ \A i \in 1 .. Len(s) : c[i] = s[i]
      /\ c[Len(s) + 1] = e
  BY <1>1
<1>3. Len(c) \in Nat /\ c = [i \in 1 .. Len(c) |-> c[i]]
  <2> HIDE DEF c, S
  <2> QED
    BY <1>2
<1>4. IsSeq(c)
  <2> HIDE DEF c
  <2> QED
    BY <1>3, SeqIntro
<1> QED
  BY <1>2, <1>4

\* The only fact of a stage is the first.
LEMMA TheFact ==
  ASSUME NEW H, FactsOrdered(H), NEW i \in 1 .. Len(H)
  PROVE  /\ Facts(H, H[i].action, H[i].stage) = {i}
         /\ The(H, H[i].action, H[i].stage) = H[i]
<1>1. Facts(H, H[i].action, H[i].stage) = {i}
  BY DEF Facts, FactsOrdered
<1>2. First({i}) = i
  BY DEF First
<1> QED
  BY <1>1, <1>2 DEF The

LEMMA HasFact ==
  ASSUME NEW H, NEW a, NEW stage
  PROVE  Has(H, a, stage) <=> \E i \in 1 .. Len(H) : H[i].action = a /\ H[i].stage = stage
  BY DEF Has, Facts

\* What was prepared for an action.
LEMMA PreparedFact ==
  ASSUME NEW H, FactsOrdered(H), NEW a, Has(H, a, "rankingprepared")
  PROVE  /\ \E i \in 1 .. Len(H) :
                /\ H[i].action = a /\ H[i].stage = "rankingprepared"
                /\ prepared(H, a) = H[i].data
         /\ prepared(H, a).correlationid = a
<1>1. PICK i \in 1 .. Len(H) : H[i].action = a /\ H[i].stage = "rankingprepared"
  BY HasFact
<1>2. prepared(H, a) = H[i].data
  BY <1>1, TheFact DEF prepared
<1>3. prepared(H, a).correlationid = a
  BY <1>1, <1>2 DEF FactsOrdered
<1> QED
  BY <1>1, <1>2, <1>3

\* A fact appended: what was recorded stays, and only it is new.
LEMMA FactAppended ==
  ASSUME NEW H, IsSeq(H), NEW f, NEW a, NEW stage
  PROVE  Has(Append(H, f), a, stage) <=>
            Has(H, a, stage) \/ (f.action = a /\ f.stage = stage)
<1> DEFINE G == Append(H, f)
<1>1. /\ Len(H) \in Nat /\ Len(G) = Len(H) + 1 /\ G[Len(H) + 1] = f
      /\ \A i \in 1 .. Len(H) : G[i] = H[i]
  BY SeqFacts, SeqAppend
<1> HIDE DEF G
<1>2. \A i \in 1 .. Len(G) : i \in 1 .. Len(H) \/ i = Len(H) + 1
  BY <1>1
<1>3. 1 .. Len(H) \subseteq 1 .. Len(G) /\ Len(H) + 1 \in 1 .. Len(G)
  BY <1>1
<1>4. Has(G, a, stage) <=> Has(H, a, stage) \/ (f.action = a /\ f.stage = stage)
  BY <1>1, <1>2, <1>3, HasFact
<1> QED
  BY <1>4 DEF G

\* The facts stay ordered when the new one's stage is new and its intent is there.
LEMMA OrderKept ==
  ASSUME NEW H, IsSeq(H), FactsOrdered(H), NEW f, f.action # NoAction,
         ~Has(H, f.action, f.stage),
         f.stage = "intent" \/ Has(H, f.action, "intent"),
         f.stage = "rankingprepared" => f.data.correlationid = f.action
  PROVE  FactsOrdered(Append(H, f))
<1> DEFINE G == Append(H, f)
<1>1. /\ Len(H) \in Nat /\ Len(G) = Len(H) + 1 /\ G[Len(H) + 1] = f
      /\ \A i \in 1 .. Len(H) : G[i] = H[i]
  BY SeqFacts, SeqAppend
<1>2. \A a, stage : Has(G, a, stage) <=>
            Has(H, a, stage) \/ (f.action = a /\ f.stage = stage)
  BY FactAppended
<1> HIDE DEF G
<1>3. \A i \in 1 .. Len(G) : i \in 1 .. Len(H) \/ i = Len(H) + 1
  BY <1>1
<1>4. \A i \in 1 .. Len(H) : ~(H[i].action = f.action /\ H[i].stage = f.stage)
  BY HasFact
<1>5. ASSUME NEW i \in 1 .. Len(G), NEW j \in 1 .. Len(G),
             G[i].action = G[j].action, G[i].stage = G[j].stage
      PROVE  i = j
  <2>1. CASE i \in 1 .. Len(H) /\ j \in 1 .. Len(H)
    BY <1>1, <1>5, <2>1 DEF FactsOrdered
  <2> QED
    BY <1>1, <1>3, <1>4, <1>5, <2>1
<1>6. ASSUME NEW i \in 1 .. Len(G)
      PROVE  /\ G[i].action # NoAction
             /\ Has(G, G[i].action, "intent")
             /\ G[i].stage = "rankingprepared" => G[i].data.correlationid = G[i].action
  BY <1>1, <1>2, <1>3 DEF FactsOrdered
<1>7. FactsOrdered(G)
  BY <1>5, <1>6 DEF FactsOrdered
<1> QED
  BY <1>7 DEF G

\* A later fact does not change what was prepared or saved.
LEMMA PreparedKept ==
  ASSUME NEW H, IsSeq(H), FactsOrdered(H), NEW f, FactsOrdered(Append(H, f)),
         NEW a, Has(H, a, "rankingprepared")
  PROVE  prepared(Append(H, f), a) = prepared(H, a)
<1> DEFINE G == Append(H, f)
<1>1. Len(H) \in Nat /\ Len(G) = Len(H) + 1 /\ \A i \in 1 .. Len(H) : G[i] = H[i]
  BY SeqFacts, SeqAppend
<1>2. PICK i \in 1 .. Len(H) : H[i].action = a /\ H[i].stage = "rankingprepared"
  BY HasFact
<1>ordered. FactsOrdered(G)
  OBVIOUS
<1> HIDE DEF G
<1>3. i \in 1 .. Len(G) /\ G[i] = H[i]
  BY <1>1
<1>4. The(H, a, "rankingprepared") = H[i]
  BY <1>2, TheFact
<1>5. The(G, a, "rankingprepared") = G[i]
  BY <1>2, <1>3, <1>ordered, TheFact
<1>6. prepared(G, a) = prepared(H, a)
  BY <1>3, <1>4, <1>5 DEF prepared
<1> QED
  BY <1>6 DEF G

LEMMA SavedKept ==
  ASSUME NEW H, IsSeq(H), FactsOrdered(H), NEW f, FactsOrdered(Append(H, f)),
         NEW D, NEW a, saved(H, D, a)
  PROVE  saved(Append(H, f), D, a)
<1>1. Has(H, a, "rankingprepared") /\ Has(Append(H, f), a, "rankingprepared")
  BY FactAppended DEF saved
<1>2. prepared(Append(H, f), a) = prepared(H, a)
  BY <1>1, PreparedKept
<1> QED
  BY <1>1, <1>2 DEF saved

LEMMA SavedStays ==
  ASSUME NEW H, NEW D, IsSeq(D), NEW d, NEW a, saved(H, D, a)
  PROVE  saved(H, Append(D, d), a)
<1>1. /\ Len(D) \in Nat /\ Len(Append(D, d)) = Len(D) + 1
      /\ \A i \in 1 .. Len(D) : Append(D, d)[i] = D[i]
  BY SeqFacts, SeqAppend
<1>2. 1 .. Len(D) \subseteq 1 .. Len(Append(D, d))
  BY <1>1
<1> QED
  BY <1>1, <1>2 DEF saved

\* An event in the ranking is saved for its action, and nothing else is.
LEMMA SavedEvent ==
  ASSUME NEW H, NEW D, FactsOrdered(H), EventsPrepared(H, D), NEW a, a # NoAction
  PROVE  saved(H, D, a) <=> \E i \in 1 .. Len(D) : D[i].correlationid = a
<1>1. ASSUME saved(H, D, a) PROVE \E i \in 1 .. Len(D) : D[i].correlationid = a
  BY <1>1, PreparedFact DEF saved
<1>2. ASSUME NEW i \in 1 .. Len(D), D[i].correlationid = a PROVE saved(H, D, a)
  BY <1>2 DEF EventsPrepared, saved
<1> QED
  BY <1>1, <1>2

-----------------------------------------------------------------------------
(* Evidence grows soundly.                                                 *)

\* The open saves of a reader.
LEMMA Unresolved ==
  ASSUME NEW H, NEW D, NEW a
  PROVE  a \in unresolved(H, D) <=>
            Has(H, a, "intent") /\ ~Has(H, a, "rejected") /\ ~saved(H, D, a)
  BY HasFact DEF unresolved

\* A transaction appends a fact it looked for and did not find; an intent only
\* while no save is open, a rejection only of an action that is not saved.
LEMMA EvidenceFact ==
  ASSUME NEW H, NEW D, Evidence(H, D), NEW f, f.action # NoAction,
         ~Has(H, f.action, f.stage),
         f.stage = "intent" => unresolved(H, D) = {},
         f.stage # "intent" => Has(H, f.action, "intent"),
         f.stage = "rankingprepared" => f.data.correlationid = f.action,
         f.stage = "rejected" => ~saved(H, D, f.action)
  PROVE  Evidence(Append(H, f), D)
<1> DEFINE G == Append(H, f)
<1>1. IsSeq(H) /\ IsSeq(D) /\ FactsOrdered(H) /\ EventsPrepared(H, D) /\ OneOpen(H, D)
  BY DEF Evidence
<1>2. IsSeq(G) /\ FactsOrdered(G)
  BY <1>1, SeqAppend, OrderKept
<1>3. \A a, stage : Has(G, a, stage) <=>
            Has(H, a, stage) \/ (f.action = a /\ f.stage = stage)
  BY <1>1, FactAppended
<1>4. \A a : Has(H, a, "rankingprepared") => prepared(G, a) = prepared(H, a)
  BY <1>1, <1>2, PreparedKept
<1>5. \A a : saved(H, D, a) => saved(G, D, a)
  BY <1>1, <1>2, SavedKept
<1> HIDE DEF G
<1>6. EventsPrepared(G, D)
  <2>1. ASSUME NEW i \in 1 .. Len(D), D[i].correlationid # NoAction
        PROVE  /\ Has(G, D[i].correlationid, "rankingprepared")
               /\ D[i] = prepared(G, D[i].correlationid)
               /\ ~Has(G, D[i].correlationid, "rejected")
    <3>1. /\ Has(H, D[i].correlationid, "rankingprepared")
          /\ D[i] = prepared(H, D[i].correlationid)
          /\ ~Has(H, D[i].correlationid, "rejected")
      BY <1>1, <2>1 DEF EventsPrepared
    <3>2. saved(H, D, D[i].correlationid)
      BY <1>1, <2>1, SavedEvent
    <3> QED
      BY <1>3, <1>4, <3>1, <3>2
  <2> QED
    BY <1>1, <2>1 DEF EventsPrepared
<1>7. OneOpen(G, D)
  <2> SUFFICES ASSUME NEW a \in unresolved(G, D), NEW b \in unresolved(G, D) PROVE a = b
    BY DEF OneOpen
  <2>1. ASSUME NEW c \in unresolved(G, D), f.stage # "intent" \/ c # f.action
        PROVE  c \in unresolved(H, D)
    BY <1>3, <1>5, <2>1, Unresolved
  <2>2. CASE f.stage = "intent"
    BY <2>1, <2>2
  <2>3. CASE f.stage # "intent"
    BY <1>1, <2>1, <2>3 DEF OneOpen
  <2> QED
    BY <2>2, <2>3
<1>8. Evidence(G, D)
  BY <1>1, <1>2, <1>6, <1>7 DEF Evidence
<1> QED
  BY <1>8 DEF G

\* An event is appended to the ranking: the one its action prepared, once, or one
\* of no action.
LEMMA EvidenceEvent ==
  ASSUME NEW H, NEW D, Evidence(H, D), NEW d,
         \/ d.correlationid = NoAction
         \/ \E a : /\ Has(H, a, "rankingprepared") /\ d = prepared(H, a)
                   /\ ~saved(H, D, a) /\ ~Has(H, a, "rejected")
  PROVE  Evidence(H, Append(D, d))
<1> DEFINE E == Append(D, d)
<1>1. IsSeq(H) /\ IsSeq(D) /\ FactsOrdered(H) /\ EventsPrepared(H, D) /\ OneOpen(H, D)
  BY DEF Evidence
<1>2. /\ IsSeq(E) /\ Len(D) \in Nat /\ Len(E) = Len(D) + 1 /\ E[Len(D) + 1] = d
      /\ \A i \in 1 .. Len(D) : E[i] = D[i]
  BY <1>1, SeqFacts, SeqAppend
<1>3. \A a : saved(H, D, a) => saved(H, E, a)
  BY <1>1, SavedStays
<1> HIDE DEF E
<1>4. \A i \in 1 .. Len(E) : i \in 1 .. Len(D) \/ i = Len(D) + 1
  BY <1>2
<1>5. d.correlationid # NoAction =>
        /\ Has(H, d.correlationid, "rankingprepared")
        /\ d = prepared(H, d.correlationid)
        /\ ~Has(H, d.correlationid, "rejected")
        /\ ~saved(H, D, d.correlationid)
  BY <1>1, PreparedFact
<1>6. \A i \in 1 .. Len(D) : d.correlationid # NoAction => D[i].correlationid # d.correlationid
  BY <1>1, <1>5, SavedEvent
<1>7. EventsPrepared(H, E)
  <2>1. ASSUME NEW i \in 1 .. Len(E), E[i].correlationid # NoAction
        PROVE  /\ Has(H, E[i].correlationid, "rankingprepared")
               /\ E[i] = prepared(H, E[i].correlationid)
               /\ ~Has(H, E[i].correlationid, "rejected")
    BY <1>1, <1>2, <1>4, <1>5, <2>1 DEF EventsPrepared
  <2>2. ASSUME NEW i \in 1 .. Len(E), NEW j \in 1 .. Len(E),
               E[i].correlationid # NoAction, E[i].correlationid = E[j].correlationid
        PROVE  i = j
    <3>1. CASE i \in 1 .. Len(D) /\ j \in 1 .. Len(D)
      BY <1>1, <1>2, <2>2, <3>1 DEF EventsPrepared
    <3> QED
      BY <1>2, <1>4, <1>6, <2>2, <3>1
  <2> QED
    BY <2>1, <2>2 DEF EventsPrepared
<1>8. OneOpen(H, E)
  <2>1. ASSUME NEW c \in unresolved(H, E) PROVE c \in unresolved(H, D)
    BY <1>3, Unresolved
  <2> QED
    BY <1>1, <2>1 DEF OneOpen
<1>9. Evidence(H, E)
  BY <1>1, <1>2, <1>7, <1>8 DEF Evidence
<1> QED
  BY <1>9 DEF E

-----------------------------------------------------------------------------
(* Steps.                                                                  *)

\* A request, in a record.
LEMMA TaskFields ==
  ASSUME NEW pc, NEW reader, NEW action, NEW form, NEW choice, NEW book, NEW x,
         x = Task(pc, reader, action, form, choice, book)
  PROVE  x.pc = pc /\ x.reader = reader /\ x.action = action /\ x.form = form
  BY DEF Task

\* What is known of requests and replies stays known while the evidence grows.
LEMMA SoundKept ==
  ASSUME NEW app, NEW rank, NEW app2, NEW rank2,
         \A r \in Readers : \A a : Has(app[r], a, "intent") => Has(app2[r], a, "intent"),
         \A r \in Readers : \A a : Has(app[r], a, "rejected") => Has(app2[r], a, "rejected"),
         \A r \in Readers : \A a : saved(app[r], rank[r], a) => saved(app2[r], rank2[r], a)
  PROVE  /\ \A x : TaskSound(x, app, rank) => TaskSound(x, app2, rank2)
         /\ \A y : ReplySound(y, app, rank) => ReplySound(y, app2, rank2)
  BY DEF TaskSound, ReplySound

-----------------------------------------------------------------------------
(* Replay.  A projection is built from the one before it.                  *)

\* A set of natural numbers that is not empty has a least element.
LEMMA LeastNumber ==
  ASSUME NEW S \in SUBSET Nat, S # {}
  PROVE  \E x \in S : \A y \in S : x <= y
<1>1. PICK x \in S : \A y \in S : ~(<<y, x>> \in OpToRel(<, Nat))
  BY NatLessThanWellFounded, WFMin
<1>2. ASSUME NEW y \in S PROVE x <= y
  <2>1. <<y, x>> \in Nat \X Nat
    OBVIOUS
  <2>2. ~(<<y, x>>[1] < <<y, x>>[2])
    BY <1>1, <2>1 DEF OpToRel
  <2> QED
    BY <2>2
<1> QED
  BY <1>2

\* The projection after one more event.
After(p, event) ==
    IF p = CorruptRanking \/ Verdict(p, event) # Accepted THEN CorruptRanking
    ELSE Apply(p, event)

\* f[k] is the projection of the first k events of h, for k up to n.
Projects(f, h, n) ==
    f = [k \in 0 .. n |-> IF k = 0 THEN EmptyProjection ELSE After(f[k - 1], h[k])]

\* Every history has its projections.
LEMMA ProjectionsExist ==
  ASSUME NEW h, NEW n \in Nat
  PROVE  \E f : Projects(f, h, n)
<1> DEFINE S == {k \in Nat : ~\E f : Projects(f, h, k)}
<1> SUFFICES ASSUME S # {} PROVE FALSE
  OBVIOUS
<1>1. PICK m \in S : \A y \in S : m <= y
  BY LeastNumber
<1>2. CASE m = 0
  <2> DEFINE f == [k \in 0 .. 0 |-> EmptyProjection]
  <2>1. Projects(f, h, 0)
    BY DEF Projects
  <2> QED
    BY <1>1, <1>2, <2>1
<1>3. CASE m # 0
  <2>1. m - 1 \in Nat /\ m - 1 \notin S
    BY <1>1, <1>3
  <2>2. PICK g : Projects(g, h, m - 1)
    BY <2>1
  <2> DEFINE f == [k \in 0 .. m |-> IF k = m THEN After(g[m - 1], h[m]) ELSE g[k]]
  <2>3. ASSUME NEW k \in 0 .. m
        PROVE  f[k] = IF k = 0 THEN EmptyProjection ELSE After(f[k - 1], h[k])
    <3>1. CASE k = m
      <4>1. f[m] = After(g[m - 1], h[m]) /\ f[m - 1] = g[m - 1]
        BY <1>3, <2>1
      <4> QED
        BY <1>3, <3>1, <4>1
    <3>2. CASE k # m
      <4>1. k \in 0 .. m - 1 /\ f[k] = g[k]
        BY <3>2
      <4>2. g[k] = IF k = 0 THEN EmptyProjection ELSE After(g[k - 1], h[k])
        BY <2>2, <4>1 DEF Projects
      <4>3. k # 0 => f[k - 1] = g[k - 1]
        BY <4>1
      <4> QED
        BY <4>1, <4>2, <4>3
    <3> QED
      BY <3>1, <3>2
  <2>4. f = [k \in 0 .. m |-> f[k]]
    OBVIOUS
  <2> HIDE DEF f
  <2>5. Projects(f, h, m)
    BY <2>3, <2>4 DEF Projects
  <2> QED
    BY <1>1, <2>5
<1> QED
  BY <1>2, <1>3

\* Replay computes the last projection of its history.
LEMMA ReplayProjects ==
  ASSUME NEW h, Len(h) \in Nat
  PROVE  \E f : Projects(f, h, Len(h)) /\ Replay(h) = f[Len(h)]
<1> DEFINE Body(f) ==
      [n \in 0 .. Len(h) |->
            IF n = 0 THEN EmptyProjection
            ELSE LET p == f[n - 1] IN
                 IF p = CorruptRanking \/ Verdict(p, h[n]) # Accepted THEN CorruptRanking
                 ELSE Apply(p, h[n])]
    upto == CHOOSE f : f = Body(f)
<1>1. ASSUME NEW f PROVE Body(f) = [n \in 0 .. Len(h) |->
            IF n = 0 THEN EmptyProjection ELSE After(f[n - 1], h[n])]
  BY DEF After
<1>2. PICK g : Projects(g, h, Len(h))
  BY ProjectionsExist
<1>3. Replay(h) = upto[Len(h)]
  BY DEF Replay
<1>4. g = Body(g)
  BY <1>1, <1>2 DEF Projects
<1>5. upto = Body(upto)
  <2> HIDE DEF Body
  <2> QED
    BY <1>4
<1>6. Projects(upto, h, Len(h))
  BY <1>1, <1>5 DEF Projects
<1> QED
  BY <1>3, <1>6

\* The projection of some events depends on them and on nothing else.
LEMMA ProjectionsAgree ==
  ASSUME NEW f, NEW g, NEW h, NEW i, NEW n \in Nat, NEW m \in Nat, NEW j \in Nat,
         Projects(f, h, n), Projects(g, i, m), j <= n, j <= m,
         \A k \in 1 .. j : h[k] = i[k]
  PROVE  f[j] = g[j]
<1> DEFINE S == {k \in 0 .. j : f[k] # g[k]}
<1> SUFFICES ASSUME S # {} PROVE FALSE
  OBVIOUS
<1>1. PICK k \in S : \A y \in S : k <= y
  BY LeastNumber, S \subseteq Nat
<1>2. /\ f[k] = IF k = 0 THEN EmptyProjection ELSE After(f[k - 1], h[k])
      /\ g[k] = IF k = 0 THEN EmptyProjection ELSE After(g[k - 1], i[k])
  <2>1. k \in 0 .. n /\ k \in 0 .. m
    OBVIOUS
  <2>2. f[k] = IF k = 0 THEN EmptyProjection ELSE After(f[k - 1], h[k])
    BY <2>1 DEF Projects
  <2>3. g[k] = IF k = 0 THEN EmptyProjection ELSE After(g[k - 1], i[k])
    BY <2>1 DEF Projects
  <2> QED
    BY <2>2, <2>3
<1>3. k # 0
  BY <1>2
<1>4. k - 1 \in 0 .. j /\ k - 1 \notin S
  BY <1>1, <1>3
<1>5. f[k - 1] = g[k - 1] /\ h[k] = i[k]
  BY <1>3, <1>4
<1> QED
  BY <1>2, <1>3, <1>5

\* The events of stored envelopes.
Decoded(D) == [i \in 1 .. Len(D) |-> decode_event(D[i])]

LEMMA DecodedFacts ==
  ASSUME NEW D, IsSeq(D)
  PROVE  /\ Len(D) \in Nat /\ Len(Decoded(D)) = Len(D)
         /\ \A i \in 1 .. Len(D) : Decoded(D)[i] = decode_event(D[i])
         /\ Projection(D) = Replay(Decoded(D))
<1> DEFINE h == Decoded(D)
<1>1. Len(D) \in Nat
  BY SeqFacts
<1>2. h = [i \in 1 .. Len(D) |-> h[i]] /\ \A i \in 1 .. Len(D) : h[i] = decode_event(D[i])
  BY <1>1 DEF Decoded
<1>3. Projection(D) = Replay(h)
  BY DEF Projection, Decoded
<1> HIDE DEF h
<1>4. Len(h) = Len(D)
  BY <1>1, <1>2, SeqIntro
<1> QED
  BY <1>1, <1>2, <1>3, <1>4 DEF h

\* append_ranking: the stored projection and the event give the next one.
LEMMA ProjectionAppended ==
  ASSUME NEW D, IsSeq(D), NEW d
  PROVE  Projection(Append(D, d)) = After(Projection(D), decode_event(d))
<1> DEFINE E == Append(D, d)
           h == Decoded(D)
           i == Decoded(E)
           n == Len(D)
<1>1. /\ IsSeq(E) /\ Len(E) = n + 1 /\ E[n + 1] = d /\ \A k \in 1 .. n : E[k] = D[k]
  BY SeqAppend
<1>2. /\ n \in Nat /\ Len(h) = n /\ \A k \in 1 .. n : h[k] = decode_event(D[k])
      /\ Projection(D) = Replay(h)
  BY DecodedFacts
<1>3. /\ Len(i) = n + 1 /\ \A k \in 1 .. n + 1 : i[k] = decode_event(E[k])
      /\ Projection(E) = Replay(i)
  BY <1>1, DecodedFacts
<1> HIDE DEF E, h, i, n
<1>4. PICK f : Projects(f, h, n) /\ Replay(h) = f[n]
  BY <1>2, ReplayProjects
<1>5. PICK g : Projects(g, i, n + 1) /\ Replay(i) = g[n + 1]
  BY <1>2, <1>3, ReplayProjects
<1>6. g[n] = f[n]
  <2>1. \A k \in 1 .. n : i[k] = h[k]
    BY <1>1, <1>2, <1>3
  <2>2. n + 1 \in Nat /\ n <= n + 1 /\ n <= n
    BY <1>2
  <2> QED
    BY <1>2, <1>4, <1>5, <2>1, <2>2, ProjectionsAgree
<1>7. g[n + 1] = After(g[n], decode_event(d))
  <2> DEFINE m == n + 1
  <2>1. m \in 0 .. m /\ m # 0 /\ m - 1 = n /\ i[m] = decode_event(d) /\ Projects(g, i, m)
    BY <1>1, <1>2, <1>3, <1>5
  <2> HIDE DEF m
  <2>2. g[m] = After(g[m - 1], i[m])
    BY <2>1 DEF Projects
  <2> QED
    BY <2>1, <2>2 DEF m
<1>8. Projection(E) = After(Projection(D), decode_event(d))
  BY <1>2, <1>3, <1>4, <1>5, <1>6, <1>7
<1> QED
  BY <1>8 DEF E

-----------------------------------------------------------------------------
(* The binary search: what a projection knows of the answers.              *)

\* The bounds of the open placement lie within the ranking, which names no book twice.
Legal(p) ==
    /\ p \in [revision : Nat, entries : {p.entries}, pending : {p.pending}, seen : {p.seen}]
    /\ IsSeq(p.entries)
    /\ p.pending \in [candidate : {p.pending.candidate}, lo : Nat, hi : Nat,
                      skipped : {p.pending.skipped}, paused : BOOLEAN]
    /\ \A i, j \in 1 .. Len(p.entries) : p.entries[i] = p.entries[j] => i = j
    /\ p.pending # NoPlacement =>
        /\ p.pending.lo < p.pending.hi /\ p.pending.hi <= Len(p.entries)
        /\ p.pending.candidate \notin Ranked(p)

\* A ranking keeps an answer about one of its books, the bounds lo and hi one about
\* the book being placed.
Kept(e, entries) ==
    /\ \E i \in 1 .. Len(entries) : entries[i] = e.candidate
    /\ e.choice = "prefer_candidate" => Before(entries, e.candidate, e.opponent)
    /\ e.choice = "prefer_opponent" => Before(entries, e.opponent, e.candidate)

Bounded(e, entries, lo, hi) ==
    /\ e.choice = "prefer_candidate" =>
        \E i \in 1 .. Len(entries) : entries[i] = e.opponent /\ i > hi
    /\ e.choice = "prefer_opponent" =>
        \E i \in 1 .. Len(entries) : entries[i] = e.opponent /\ i <= lo

Holds(e, entries, pending) ==
    e.kind = "answered" =>
        \/ Kept(e, entries)
        \/ /\ pending # NoPlacement /\ pending.candidate = e.candidate
           /\ Bounded(e, entries, pending.lo, pending.hi)

\* An event decode_event accepts.
WellFormed(e) ==
    /\ e.kind \in {"started", "answered", "paused", "resumed"}
    /\ e.kind = "answered" =>
        e.opponent # NoBook /\ e.choice \in {"prefer_candidate", "prefer_opponent", "skip"}

LEMMA DecodeWellFormed ==
  ASSUME NEW d
  PROVE  WellFormed(decode_event(d)) \/ decode_event(d).sequence = 0
<1>1. KindOf(d.type) # "unsupported" => KindOf(d.type) \in {"started", "answered", "paused", "resumed"}
  BY DEF KindOf
<1>2. CorruptEvent.sequence = 0
  BY DEF CorruptEvent, Event
<1>3. \A id, sequence, candidate, kind, opponent, choice :
        LET e == Event(id, sequence, candidate, kind, opponent, choice)
        IN  e.kind = kind /\ e.opponent = opponent /\ e.choice = choice
  BY DEF Event
<1> QED
  BY <1>1, <1>2, <1>3 DEF decode_event, WellFormed

\* The checks of apply and apply_kind an accepted event passed.
LEMMA VerdictFacts ==
  ASSUME NEW p, NEW e, Verdict(p, e) = Accepted
  PROVE  /\ e.sequence = p.revision + 1
         /\ e.kind = "started" => e.candidate \notin Ranked(p) /\ p.pending = NoPlacement
         /\ e.kind # "started" => p.pending # NoPlacement /\ p.pending.candidate = e.candidate
         /\ e.kind = "answered" => ~p.pending.paused /\ next_opponent(p) = e.opponent
<1>1. e.sequence = p.revision + 1
  BY DEF Verdict, Accepted
<1>2. e.kind = "started" => e.candidate \notin Ranked(p) /\ p.pending = NoPlacement
  BY DEF Verdict, Accepted
<1>3. e.kind # "started" => p.pending # NoPlacement /\ p.pending.candidate = e.candidate
  BY DEF Verdict, Accepted
<1>4. e.kind = "answered" => ~p.pending.paused /\ next_opponent(p) = e.opponent
  BY DEF Verdict, Accepted
<1> QED
  BY <1>1, <1>2, <1>3, <1>4

\* Of some positions one is nearest the midpoint, the lower on a tie.
LEMMA Nearest ==
  ASSUME NEW S \in SUBSET Nat, S # {}, NEW m \in Nat
  PROVE  \E j \in S : \A k \in S :
            \/ AbsDiff(j, m) < AbsDiff(k, m)
            \/ AbsDiff(j, m) = AbsDiff(k, m) /\ j <= k
<1> DEFINE Key(j) == IF j <= m THEN 2 * (m - j) ELSE 2 * (j - m) + 1
           Keys == {Key(j) : j \in S}
<1>0. \A j \in S : Key(j) \in Nat
  OBVIOUS
<1> HIDE DEF Key
<1>1. Keys \in SUBSET Nat /\ Keys # {}
  BY <1>0
<1>2. PICK x \in Keys : \A y \in Keys : x <= y
  BY <1>1, LeastNumber
<1>3. PICK j \in S : x = Key(j)
  OBVIOUS
<1>4. ASSUME NEW k \in S
      PROVE  \/ AbsDiff(j, m) < AbsDiff(k, m)
             \/ AbsDiff(j, m) = AbsDiff(k, m) /\ j <= k
  <2>1. Key(j) <= Key(k) /\ j \in Nat /\ k \in Nat
    BY <1>2, <1>3
  <2> QED
    BY <2>1 DEF AbsDiff, Key
<1> QED
  BY <1>4

\* The opponent of a comparison lies within the bounds.
LEMMA OpponentWithin ==
  ASSUME NEW p, Legal(p), p.pending # NoPlacement, ~p.pending.paused,
         next_opponent(p) # NoBook
  PROVE  /\ Position(p, next_opponent(p)) \in p.pending.lo .. p.pending.hi - 1
         /\ p.entries[Position(p, next_opponent(p)) + 1] = next_opponent(p)
<1> DEFINE lo == p.pending.lo
           hi == p.pending.hi
           midpoint == lo + (hi - lo - 1) \div 2
           eligible == {j \in lo .. (hi - 1) : p.entries[j + 1] \notin p.pending.skipped}
           Nearer(j, k) == \/ AbsDiff(j, midpoint) < AbsDiff(k, midpoint)
                           \/ AbsDiff(j, midpoint) = AbsDiff(k, midpoint) /\ j <= k
           chosen == CHOOSE j \in eligible : \A k \in eligible : Nearer(j, k)
           o == next_opponent(p)
<1>1. lo \in Nat /\ hi \in Nat /\ lo < hi /\ hi <= Len(p.entries) /\ Len(p.entries) \in Nat
  BY SeqFacts DEF Legal
<1>2. midpoint \in Nat
  BY <1>1
<1>3. o = IF eligible = {} THEN NoBook ELSE p.entries[chosen + 1]
  BY DEF next_opponent
<1>4. eligible # {} /\ o = p.entries[chosen + 1]
  <2> HIDE DEF eligible, chosen
  <2> QED
    BY <1>3
<1>5. eligible \in SUBSET Nat
  BY <1>1
<1>6. chosen \in eligible
  <2> HIDE DEF eligible, midpoint
  <2>1. \E j \in eligible : \A k \in eligible : Nearer(j, k)
    BY <1>2, <1>4, <1>5, Nearest
  <2> QED
    BY <2>1
<1>7. chosen \in lo .. (hi - 1)
  <2> HIDE DEF chosen
  <2> QED
    BY <1>6
<1> HIDE DEF chosen, eligible, lo, hi, o
<1>8. chosen + 1 \in 1 .. Len(p.entries) /\ chosen \in Nat
  BY <1>1, <1>7
<1>9. \A i \in 1 .. Len(p.entries) : p.entries[i] = o => i = chosen + 1
  BY <1>4, <1>8 DEF Legal
<1>10. Position(p, o) = (chosen + 1) - 1
  BY <1>4, <1>8, <1>9 DEF Position
<1>11. Position(p, o) = chosen
  BY <1>8, <1>10
<1> QED
  BY <1>4, <1>7, <1>11 DEF o, lo, hi

LEMMA Inserted ==
  ASSUME NEW s, IsSeq(s), NEW n \in 0 .. Len(s), NEW x
  PROVE  /\ IsSeq(InsertAfter(s, n, x)) /\ Len(InsertAfter(s, n, x)) = Len(s) + 1
         /\ \A i \in 1 .. n : InsertAfter(s, n, x)[i] = s[i]
         /\ InsertAfter(s, n, x)[n + 1] = x
         /\ \A i \in n + 1 .. Len(s) : InsertAfter(s, n, x)[i + 1] = s[i]
<1> DEFINE S == {s[i] : i \in DOMAIN s} \cup {x}
           a == SubSeq(s, 1, n)
           b == SubSeq(s, n + 1, Len(s))
           c == a \o <<x>>
           t == InsertAfter(s, n, x)
<1>1. s \in Seq(S) /\ x \in S /\ Len(s) \in Nat /\ n \in Nat /\ n <= Len(s)
  BY SeqFacts DEF IsSeq
<1> HIDE DEF S
<1>2. a \in Seq(S) /\ Len(a) = n /\ \A i \in 1 .. n : a[i] = s[i]
  BY <1>1
<1>3. b \in Seq(S) /\ Len(b) = Len(s) - n /\ \A i \in 1 .. Len(s) - n : b[i] = s[n + i]
  BY <1>1
<1> HIDE DEF a, b
<1>4. /\ c \in Seq(S) /\ Len(c) = n + 1 /\ c[n + 1] = x
      /\ \A i \in 1 .. n : c[i] = s[i]
  BY <1>1, <1>2
<1>5. t = c \o b
  BY DEF InsertAfter, a, b
<1> HIDE DEF c, t
<1>6. /\ t \in Seq(S) /\ Len(t) = Len(s) + 1
      /\ \A i \in 1 .. n + 1 : t[i] = c[i]
      /\ \A i \in 1 .. Len(s) - n : t[n + 1 + i] = b[i]
  BY <1>1, <1>3, <1>4, <1>5
<1>7. IsSeq(t)
  <2>1. t = [i \in 1 .. Len(t) |-> t[i]] /\ Len(t) \in Nat
    BY <1>6
  <2> QED
    BY <2>1, SeqIntro
<1>8. \A i \in 1 .. n : t[i] = s[i]
  BY <1>1, <1>4, <1>6
<1>9. t[n + 1] = x
  BY <1>1, <1>4, <1>6
<1>10. ASSUME NEW i \in n + 1 .. Len(s) PROVE t[i + 1] = s[i]
  <2>1. i - n \in 1 .. Len(s) - n /\ n + 1 + (i - n) = i + 1 /\ n + (i - n) = i
    BY <1>1
  <2>2. t[n + 1 + (i - n)] = b[i - n] /\ b[i - n] = s[n + (i - n)]
    BY <1>3, <1>6, <2>1
  <2> QED
    BY <2>1, <2>2
<1> QED
  BY <1>6, <1>7, <1>8, <1>9, <1>10 DEF t

\* The next projection, field by field.
LEMMA Applied ==
  ASSUME NEW p, Legal(p), NEW e
  PROVE  LET q == Apply(p, e)
             narrowed == Narrow(p.pending, Position(p, e.opponent), e)
             after == [p EXCEPT !.pending = narrowed]
             Is(entries, pending) ==
                /\ q \in [revision : {e.sequence}, entries : {entries},
                          pending : {pending}, seen : {q.seen}]
         IN  /\ e.kind = "started" => IF p.entries = <<>> THEN Is(<<e.candidate>>, p.pending)
                                      ELSE Is(p.entries, Placement(e.candidate, Len(p.entries)))
             /\ e.kind = "paused" => Is(p.entries, [p.pending EXCEPT !.paused = TRUE])
             /\ e.kind = "resumed" =>
                    Is(p.entries, [p.pending EXCEPT !.paused = FALSE, !.skipped = {}])
             /\ e.kind = "answered" =>
                    IF narrowed.lo = narrowed.hi
                    THEN Is(InsertAfter(p.entries, narrowed.lo, e.candidate), NoPlacement)
                    ELSE Is(p.entries, [narrowed EXCEPT !.paused = next_opponent(after) = NoBook])
<1> DEFINE q == Apply(p, e)
           narrowed == Narrow(p.pending, Position(p, e.opponent), e)
           after == [p EXCEPT !.pending = narrowed]
           Is(entries, pending) ==
                /\ q \in [revision : {e.sequence}, entries : {entries},
                          pending : {pending}, seen : {q.seen}]
<1>1. p \in [revision : Nat, entries : {p.entries}, pending : {p.pending}, seen : {p.seen}]
  BY DEF Legal
<1>2. e.kind = "started" => IF p.entries = <<>> THEN Is(<<e.candidate>>, p.pending)
                            ELSE Is(p.entries, Placement(e.candidate, Len(p.entries)))
  BY <1>1 DEF Apply
<1>3. e.kind = "paused" => Is(p.entries, [p.pending EXCEPT !.paused = TRUE])
  BY <1>1 DEF Apply
<1>4. e.kind = "resumed" => Is(p.entries, [p.pending EXCEPT !.paused = FALSE, !.skipped = {}])
  BY <1>1 DEF Apply
<1>5. ASSUME e.kind = "answered"
      PROVE  IF narrowed.lo = narrowed.hi
             THEN Is(InsertAfter(p.entries, narrowed.lo, e.candidate), NoPlacement)
             ELSE Is(p.entries, [narrowed EXCEPT !.paused = next_opponent(after) = NoBook])
  <2>1. q = [Answered(p, e) EXCEPT !.revision = e.sequence, !.seen = @ \cup {e.id}]
    BY <1>5 DEF Apply
  <2>2. CASE narrowed.lo = narrowed.hi
    <3>1. Answered(p, e) = [p EXCEPT !.entries = InsertAfter(@, narrowed.lo, e.candidate),
                                     !.pending = NoPlacement]
      BY <2>2 DEF Answered
    <3> HIDE DEF narrowed
    <3>2. Is(InsertAfter(p.entries, narrowed.lo, e.candidate), NoPlacement)
      BY <1>1, <2>1, <3>1
    <3> QED
      BY <2>2, <3>2
  <2>3. CASE narrowed.lo # narrowed.hi
    <3>1. Answered(p, e) = [after EXCEPT !.pending.paused = next_opponent(after) = NoBook]
      BY <2>3 DEF Answered
    <3> HIDE DEF narrowed
    <3>2. after \in [revision : Nat, entries : {p.entries}, pending : {narrowed}, seen : {p.seen}]
      BY <1>1
    <3> HIDE DEF after
    <3>3. Is(p.entries, [narrowed EXCEPT !.paused = next_opponent(after) = NoBook])
      BY <2>1, <3>1, <3>2
    <3> QED
      BY <2>3, <3>3
  <2> QED
    BY <2>2, <2>3
<1> QED
  BY <1>2, <1>3, <1>4, <1>5

\* Closer bounds keep what wider ones did.
LEMMA BoundsKept ==
  ASSUME NEW e, NEW entries, NEW a, NEW b,
         a.lo \in Nat, a.hi \in Nat, b.lo \in Nat, b.hi \in Nat,
         a.lo <= b.lo, b.hi <= a.hi, b.lo < b.hi,
         a.candidate = b.candidate, Len(entries) \in Nat,
         Holds(e, entries, a)
  PROVE  Holds(e, entries, b)
<1>1. NoPlacement.lo = 0 /\ NoPlacement.hi = 0
  BY DEF NoPlacement, Placement
<1>2. b # NoPlacement
  BY <1>1
<1>3. Bounded(e, entries, a.lo, a.hi) => Bounded(e, entries, b.lo, b.hi)
  <2>1. ASSUME NEW i \in 1 .. Len(entries) PROVE (i > a.hi => i > b.hi) /\ (i <= a.lo => i <= b.lo)
    OBVIOUS
  <2> QED
    BY <2>1 DEF Bounded
<1> QED
  BY <1>2, <1>3 DEF Holds

\* A book put where the bounds meet keeps every answer.
LEMMA PlacedKeeps ==
  ASSUME NEW e, NEW s, IsSeq(s), NEW n \in 0 .. Len(s), NEW x,
         \/ Kept(e, s)
         \/ e.candidate = x /\ Bounded(e, s, n, n)
  PROVE  Kept(e, InsertAfter(s, n, x))
<1> DEFINE t == InsertAfter(s, n, x)
           Place(i) == IF i <= n THEN i ELSE i + 1
<1>1. /\ IsSeq(t) /\ Len(t) = Len(s) + 1 /\ Len(s) \in Nat /\ n \in Nat /\ n <= Len(s)
      /\ \A i \in 1 .. n : t[i] = s[i]
      /\ t[n + 1] = x
      /\ \A i \in n + 1 .. Len(s) : t[i + 1] = s[i]
  BY Inserted, SeqFacts
<1> HIDE DEF t
<1>2. ASSUME NEW i \in 1 .. Len(s) PROVE Place(i) \in 1 .. Len(t) /\ t[Place(i)] = s[i]
  <2>1. CASE i <= n
    BY <1>1, <2>1
  <2>2. CASE i > n
    BY <1>1, <2>2
  <2> QED
    BY <1>1, <2>1, <2>2
<1>3. n + 1 \in 1 .. Len(t)
  BY <1>1
<1>4. ASSUME NEW i \in 1 .. Len(s), NEW j \in 1 .. Len(s), i < j PROVE Place(i) < Place(j)
  BY <1>1, <1>4
<1>5. ASSUME NEW i \in 1 .. Len(s) PROVE (i > n => n + 1 < Place(i)) /\ (i <= n => Place(i) < n + 1)
  BY <1>1
<1> HIDE DEF Place
<1>6. ASSUME NEW a, NEW b, Before(s, a, b) PROVE Before(t, a, b)
  <2>1. PICK i \in 1 .. Len(s), j \in 1 .. Len(s) : i < j /\ s[i] = a /\ s[j] = b
    BY <1>6 DEF Before
  <2>2. Place(i) < Place(j) /\ t[Place(i)] = a /\ t[Place(j)] = b
    BY <1>2, <1>4, <2>1
  <2> QED
    BY <1>2, <2>2 DEF Before
<1>7. CASE Kept(e, s)
  BY <1>2, <1>6, <1>7 DEF Kept, t
<1>8. CASE e.candidate = x /\ Bounded(e, s, n, n)
  <2>1. ASSUME e.choice = "prefer_candidate" PROVE Before(t, e.candidate, e.opponent)
    <3>1. PICK i \in 1 .. Len(s) : s[i] = e.opponent /\ i > n
      BY <1>8, <2>1 DEF Bounded
    <3>2. n + 1 < Place(i) /\ t[n + 1] = e.candidate /\ t[Place(i)] = e.opponent /\ Place(i) \in 1 .. Len(t)
      BY <1>1, <1>2, <1>5, <1>8, <3>1
    <3> QED
      BY <1>3, <3>2 DEF Before
  <2>2. ASSUME e.choice = "prefer_opponent" PROVE Before(t, e.opponent, e.candidate)
    <3>1. PICK i \in 1 .. Len(s) : s[i] = e.opponent /\ i <= n
      BY <1>8, <2>2 DEF Bounded
    <3>2. Place(i) < n + 1 /\ t[n + 1] = e.candidate /\ t[Place(i)] = e.opponent /\ Place(i) \in 1 .. Len(t)
      BY <1>1, <1>2, <1>5, <1>8, <3>1
    <3> QED
      BY <1>3, <3>2 DEF Before
  <2> QED
    BY <1>1, <1>3, <1>8, <2>1, <2>2 DEF Kept, t
<1> QED
  BY <1>7, <1>8

\* An answer halves the search: closer bounds that keep it.
LEMMA Narrowed ==
  ASSUME NEW p, Legal(p), NEW e, WellFormed(e), e.kind = "answered",
         Verdict(p, e) = Accepted
  PROVE  LET narrowed == Narrow(p.pending, Position(p, e.opponent), e)
         IN  /\ narrowed \in [candidate : {e.candidate}, lo : Nat, hi : Nat,
                              skipped : {narrowed.skipped}, paused : {FALSE}]
             /\ p.pending.lo <= narrowed.lo /\ narrowed.lo <= narrowed.hi
             /\ narrowed.hi <= p.pending.hi
             /\ Bounded(e, p.entries, narrowed.lo, narrowed.hi)
<1> DEFINE j == Position(p, e.opponent)
           o == e.opponent
           narrowed == Narrow(p.pending, j, e)
           lo == p.pending.lo
           hi == p.pending.hi
<1>1. /\ p.pending # NoPlacement /\ p.pending.candidate = e.candidate
      /\ ~p.pending.paused /\ next_opponent(p) = o /\ o # NoBook
  BY VerdictFacts DEF WellFormed
<1>2. j \in lo .. hi - 1 /\ p.entries[j + 1] = o
  BY <1>1, OpponentWithin
<1>3. /\ lo \in Nat /\ hi \in Nat /\ lo < hi /\ hi <= Len(p.entries)
      /\ Len(p.entries) \in Nat
  BY <1>1, SeqFacts DEF Legal
<1>4. /\ p.pending \in [candidate : {e.candidate}, lo : Nat, hi : Nat,
                        skipped : {p.pending.skipped}, paused : {FALSE}]
  BY <1>1 DEF Legal
<1> HIDE DEF j
<1>5. j \in Nat /\ lo <= j /\ j + 1 <= hi /\ j + 1 \in 1 .. Len(p.entries)
  BY <1>2, <1>3
<1>6. /\ narrowed \in [candidate : {e.candidate}, lo : Nat, hi : Nat,
                       skipped : {narrowed.skipped}, paused : {FALSE}]
      /\ narrowed.lo = IF e.choice = "prefer_opponent" THEN j + 1 ELSE lo
      /\ narrowed.hi = IF e.choice = "prefer_candidate" THEN j ELSE hi
  <2> DEFINE q == p.pending
             lo2 == IF e.choice = "prefer_opponent" THEN j + 1 ELSE q.lo
             hi2 == IF e.choice = "prefer_candidate" THEN j ELSE q.hi
             skipped2 == IF e.choice = "skip" THEN q.skipped \cup {e.opponent} ELSE q.skipped
  <2>1. narrowed = [q EXCEPT !.hi = hi2, !.lo = lo2, !.skipped = skipped2]
    BY DEF Narrow
  <2>2. lo2 \in Nat /\ hi2 \in Nat
    BY <1>3, <1>5
  <2> HIDE DEF lo2, hi2, skipped2, narrowed, q
  <2>3. /\ narrowed \in [candidate : {e.candidate}, lo : Nat, hi : Nat,
                         skipped : {skipped2}, paused : {FALSE}]
        /\ narrowed.lo = lo2 /\ narrowed.hi = hi2
    BY <1>4, <2>1, <2>2 DEF q
  <2> QED
    BY <2>3 DEF lo2, hi2, q
<1> HIDE DEF narrowed, lo, hi
<1>7. lo <= narrowed.lo /\ narrowed.lo <= narrowed.hi /\ narrowed.hi <= hi
  BY <1>3, <1>5, <1>6
<1>8. Bounded(e, p.entries, narrowed.lo, narrowed.hi)
  <2>1. e.choice = "prefer_candidate" => j + 1 > narrowed.hi
    BY <1>5, <1>6
  <2>2. e.choice = "prefer_opponent" => j + 1 <= narrowed.lo
    BY <1>5, <1>6
  <2> QED
    BY <1>2, <1>5, <2>1, <2>2 DEF Bounded
<1> QED
  BY <1>6, <1>7, <1>8 DEF narrowed, j, lo, hi

\* A placement in progress of a legal projection.
LEMMA LegalPending ==
  ASSUME NEW p, Legal(p), NEW pending,
         pending \in [candidate : {pending.candidate}, lo : Nat, hi : Nat,
                      skipped : {pending.skipped}, paused : BOOLEAN],
         pending.lo < pending.hi, pending.hi <= Len(p.entries),
         pending.candidate \notin Ranked(p), NEW n \in Nat, NEW q,
         q \in [revision : {n}, entries : {p.entries}, pending : {pending}, seen : {q.seen}]
  PROVE  Legal(q)
<1>1. q.entries = p.entries /\ q.pending = pending /\ q.revision = n
  OBVIOUS
<1>2. q \in [revision : Nat, entries : {q.entries}, pending : {q.pending}, seen : {q.seen}]
  OBVIOUS
<1>3. Ranked(q) = Ranked(p)
  BY <1>1 DEF Ranked
<1>4. IsSeq(q.entries) /\ \A i, j \in 1 .. Len(q.entries) : q.entries[i] = q.entries[j] => i = j
  BY <1>1 DEF Legal
<1> HIDE <1>1
<1> QED
  BY <1>1, <1>2, <1>3, <1>4 DEF Legal

\* A projection without a placement.
LEMMA LegalSettled ==
  ASSUME NEW entries, IsSeq(entries),
         \A i, j \in 1 .. Len(entries) : entries[i] = entries[j] => i = j,
         NEW n \in Nat, NEW q,
         q \in [revision : {n}, entries : {entries}, pending : {NoPlacement}, seen : {q.seen}]
  PROVE  Legal(q)
<1>1. q.entries = entries /\ q.pending = NoPlacement /\ q.revision = n
  OBVIOUS
<1>2. q \in [revision : Nat, entries : {q.entries}, pending : {q.pending}, seen : {q.seen}]
  OBVIOUS
<1>3. NoPlacement \in [candidate : {NoPlacement.candidate}, lo : Nat, hi : Nat,
                       skipped : {NoPlacement.skipped}, paused : BOOLEAN]
  BY DEF NoPlacement, Placement
<1> QED
  BY <1>1, <1>2, <1>3 DEF Legal

\* An accepted event leads from a legal projection to a legal one, which keeps every
\* answer up to this one.
LEMMA LegalAfter ==
  ASSUME NEW p, Legal(p), NEW e, WellFormed(e), Verdict(p, e) = Accepted
  PROVE  /\ Legal(Apply(p, e))
         /\ Apply(p, e).revision = p.revision + 1
         /\ \A g : Holds(g, p.entries, p.pending) \/ g = e =>
                Holds(g, Apply(p, e).entries, Apply(p, e).pending)
<1> DEFINE q == Apply(p, e)
           narrowed == Narrow(p.pending, Position(p, e.opponent), e)
           after == [p EXCEPT !.pending = narrowed]
           Is(entries, pending) ==
                /\ q \in [revision : {e.sequence}, entries : {entries},
                          pending : {pending}, seen : {q.seen}]
           Goal == /\ Legal(q) /\ q.revision = e.sequence
                   /\ \A g : Holds(g, p.entries, p.pending) \/ g = e =>
                        Holds(g, q.entries, q.pending)
<1>1. /\ e.kind = "started" => IF p.entries = <<>> THEN Is(<<e.candidate>>, p.pending)
                               ELSE Is(p.entries, Placement(e.candidate, Len(p.entries)))
      /\ e.kind = "paused" => Is(p.entries, [p.pending EXCEPT !.paused = TRUE])
      /\ e.kind = "resumed" =>
             Is(p.entries, [p.pending EXCEPT !.paused = FALSE, !.skipped = {}])
      /\ e.kind = "answered" =>
             IF narrowed.lo = narrowed.hi
             THEN Is(InsertAfter(p.entries, narrowed.lo, e.candidate), NoPlacement)
             ELSE Is(p.entries, [narrowed EXCEPT !.paused = next_opponent(after) = NoBook])
  BY Applied
<1>2. /\ e.sequence = p.revision + 1
      /\ e.kind = "started" => e.candidate \notin Ranked(p) /\ p.pending = NoPlacement
      /\ e.kind # "started" => p.pending # NoPlacement /\ p.pending.candidate = e.candidate
  BY VerdictFacts
<1>3. /\ p.revision \in Nat /\ IsSeq(p.entries) /\ Len(p.entries) \in Nat
      /\ p.pending \in [candidate : {p.pending.candidate}, lo : Nat, hi : Nat,
                        skipped : {p.pending.skipped}, paused : BOOLEAN]
      /\ \A i, j \in 1 .. Len(p.entries) : p.entries[i] = p.entries[j] => i = j
      /\ p.pending # NoPlacement =>
           /\ p.pending.lo < p.pending.hi /\ p.pending.hi <= Len(p.entries)
           /\ p.pending.candidate \notin Ranked(p)
  BY SeqFacts DEF Legal
<1>4. e.sequence \in Nat
  BY <1>2, <1>3
<1>5. ASSUME NEW entries, NEW pending, Is(entries, pending)
      PROVE  q.entries = entries /\ q.pending = pending /\ q.revision = e.sequence
  <2> HIDE DEF q
  <2> QED
    BY <1>5
<1> HIDE DEF q, narrowed, after
<1>6. ASSUME e.kind = "started", p.entries = <<>> PROVE Goal
  <2>1. Is(<<e.candidate>>, p.pending) /\ p.pending = NoPlacement
    BY <1>1, <1>2, <1>6
  <2>2. IsSeq(<<e.candidate>>) /\ Len(<<e.candidate>>) = 1
    BY DEF IsSeq
  <2>3. \A i, j \in 1 .. Len(<<e.candidate>>) : i = j
    BY <2>2
  <2>4. Legal(q)
    BY <1>4, <2>1, <2>2, <2>3, LegalSettled
  <2>5. ASSUME NEW g, Holds(g, p.entries, p.pending) \/ g = e
        PROVE  Holds(g, q.entries, q.pending)
    <3>1. ~Kept(g, <<>>)
      BY DEF Kept
    <3>2. g.kind # "answered"
      BY <1>6, <2>1, <2>5, <3>1 DEF Holds
    <3> QED
      BY <3>2 DEF Holds
  <2> QED
    BY <1>5, <2>1, <2>4, <2>5
<1>7. ASSUME e.kind = "started", p.entries # <<>> PROVE Goal
  <2> DEFINE placement == Placement(e.candidate, Len(p.entries))
  <2>1. Is(p.entries, placement) /\ p.pending = NoPlacement /\ e.candidate \notin Ranked(p)
    BY <1>1, <1>2, <1>7
  <2>2. Len(p.entries) # 0
    BY <1>3, <1>7 DEF IsSeq
  <2>3. /\ placement \in [candidate : {placement.candidate}, lo : Nat, hi : Nat,
                          skipped : {placement.skipped}, paused : BOOLEAN]
        /\ placement.lo = 0 /\ placement.hi = Len(p.entries)
        /\ placement.candidate = e.candidate
    BY <1>3 DEF Placement
  <2> HIDE DEF placement
  <2>4. placement.lo < placement.hi /\ placement.hi <= Len(p.entries)
    BY <1>3, <2>2, <2>3
  <2>5. Legal(q)
    BY <1>4, <2>1, <2>3, <2>4, LegalPending
  <2>6. ASSUME NEW g, Holds(g, p.entries, p.pending) \/ g = e
        PROVE  Holds(g, p.entries, placement)
    BY <1>7, <2>1, <2>6 DEF Holds
  <2> QED
    BY <1>5, <2>1, <2>5, <2>6
<1>8. ASSUME NEW pending, Is(p.entries, pending), e.kind # "started",
             pending \in [candidate : {e.candidate}, lo : Nat, hi : Nat,
                          skipped : {pending.skipped}, paused : BOOLEAN],
             p.pending.lo <= pending.lo, pending.lo < pending.hi, pending.hi <= p.pending.hi,
             e.kind = "answered" => Bounded(e, p.entries, pending.lo, pending.hi)
      PROVE  Goal
  <2>1. /\ pending.candidate = e.candidate /\ e.candidate \notin Ranked(p)
        /\ p.pending.candidate = e.candidate
    BY <1>2, <1>3, <1>8
  <2>2. p.pending.hi \in Nat /\ p.pending.lo \in Nat /\ p.pending.hi <= Len(p.entries)
    BY <1>2, <1>3, <1>8
  <2>3. pending.hi <= Len(p.entries)
    BY <1>3, <1>8, <2>2
  <2>4. Legal(q)
    BY <1>4, <1>8, <2>1, <2>3, LegalPending
  <2>5. pending # NoPlacement
    <3>1. NoPlacement.lo = 0 /\ NoPlacement.hi = 0
      BY DEF NoPlacement, Placement
    <3> QED
      BY <1>8, <3>1
  <2>6. Holds(e, p.entries, pending)
    BY <1>8, <2>1, <2>5 DEF Holds
  <2>7. ASSUME NEW g, Holds(g, p.entries, p.pending) PROVE Holds(g, p.entries, pending)
    <3>1. pending.lo \in Nat /\ pending.hi \in Nat
      BY <1>8
    <3> QED
      BY <1>3, <1>8, <2>1, <2>2, <2>7, <3>1, BoundsKept
  <2>8. q.entries = p.entries /\ q.pending = pending /\ q.revision = e.sequence
    BY <1>5, <1>8
  <2> QED
    BY <2>4, <2>6, <2>7, <2>8
<1>9. ASSUME e.kind = "paused" PROVE Goal
  <2> DEFINE pending == [p.pending EXCEPT !.paused = TRUE]
  <2>1. /\ pending \in [candidate : {e.candidate}, lo : Nat, hi : Nat,
                        skipped : {pending.skipped}, paused : BOOLEAN]
        /\ pending.lo = p.pending.lo /\ pending.hi = p.pending.hi
    BY <1>2, <1>3, <1>9
  <2>2. Is(p.entries, pending)
    BY <1>1, <1>9
  <2> HIDE DEF pending
  <2> QED
    BY <1>2, <1>3, <1>8, <1>9, <2>1, <2>2
<1>10. ASSUME e.kind = "resumed" PROVE Goal
  <2> DEFINE pending == [p.pending EXCEPT !.paused = FALSE, !.skipped = {}]
  <2>1. /\ pending \in [candidate : {e.candidate}, lo : Nat, hi : Nat,
                        skipped : {pending.skipped}, paused : BOOLEAN]
        /\ pending.lo = p.pending.lo /\ pending.hi = p.pending.hi
    BY <1>2, <1>3, <1>10
  <2>2. Is(p.entries, pending)
    BY <1>1, <1>10
  <2> HIDE DEF pending
  <2> QED
    BY <1>2, <1>3, <1>8, <1>10, <2>1, <2>2
<1>11. ASSUME e.kind = "answered" PROVE Goal
  <2>1. /\ narrowed \in [candidate : {e.candidate}, lo : Nat, hi : Nat,
                         skipped : {narrowed.skipped}, paused : {FALSE}]
        /\ p.pending.lo <= narrowed.lo /\ narrowed.lo <= narrowed.hi
        /\ narrowed.hi <= p.pending.hi
        /\ Bounded(e, p.entries, narrowed.lo, narrowed.hi)
    BY <1>11, Narrowed DEF narrowed
  <2>2. /\ p.pending # NoPlacement /\ p.pending.candidate = e.candidate
        /\ p.pending.lo \in Nat /\ p.pending.hi \in Nat /\ p.pending.hi <= Len(p.entries)
        /\ e.candidate \notin Ranked(p)
    BY <1>2, <1>3, <1>11
  <2>3. CASE narrowed.lo # narrowed.hi
    <3> DEFINE b == next_opponent(after) = NoBook
               pending == [narrowed EXCEPT !.paused = b]
    <3>0. b \in BOOLEAN
      OBVIOUS
    <3> HIDE DEF b
    <3>1. /\ pending \in [candidate : {e.candidate}, lo : Nat, hi : Nat,
                          skipped : {pending.skipped}, paused : BOOLEAN]
          /\ pending.lo = narrowed.lo /\ pending.hi = narrowed.hi
      BY <2>1, <3>0
    <3>2. Is(p.entries, pending)
      BY <1>1, <1>11, <2>3 DEF b
    <3> HIDE DEF pending
    <3>3. pending.lo < pending.hi
      BY <2>1, <2>3, <3>1
    <3> QED
      BY <1>8, <1>11, <2>1, <3>1, <3>2, <3>3
  <2>4. CASE narrowed.lo = narrowed.hi
    <3> DEFINE n == narrowed.lo
               t == InsertAfter(p.entries, n, e.candidate)
    <3>1. Is(t, NoPlacement)
      BY <1>1, <1>11, <2>4
    <3>2. n \in 0 .. Len(p.entries)
      BY <1>3, <2>1, <2>2, <2>4
    <3>3. /\ IsSeq(t) /\ Len(t) = Len(p.entries) + 1
          /\ \A i \in 1 .. n : t[i] = p.entries[i]
          /\ t[n + 1] = e.candidate
          /\ \A i \in n + 1 .. Len(p.entries) : t[i + 1] = p.entries[i]
      BY <1>3, <3>2, Inserted
    <3>4. ASSUME NEW g, Holds(g, p.entries, p.pending) \/ g = e
          PROVE  Holds(g, t, NoPlacement)
      <4> SUFFICES ASSUME g.kind = "answered" PROVE Kept(g, t)
        BY DEF Holds
      <4>1. CASE g = e
        BY <1>3, <2>1, <2>4, <3>2, <4>1, PlacedKeeps
      <4>2. CASE Kept(g, p.entries)
        BY <1>3, <3>2, <4>2, PlacedKeeps
      <4>3. CASE g.candidate = e.candidate /\ Bounded(g, p.entries, p.pending.lo, p.pending.hi)
        <5>1. ASSUME NEW i \in 1 .. Len(p.entries)
              PROVE  (i > p.pending.hi => i > n) /\ (i <= p.pending.lo => i <= n)
          BY <2>1, <2>2, <2>4
        <5> HIDE DEF n
        <5>2. Bounded(g, p.entries, n, n)
          BY <4>3, <5>1 DEF Bounded
        <5> QED
          BY <1>3, <3>2, <4>3, <5>2, PlacedKeeps DEF n
      <4> QED
        BY <2>2, <3>4, <4>1, <4>2, <4>3 DEF Holds
    <3>5. ASSUME NEW i \in 1 .. Len(t), NEW j \in 1 .. Len(t), t[i] = t[j] PROVE i = j
      <4> HIDE DEF n, t
      <4>0. n \in Nat /\ n <= Len(p.entries) /\ Len(p.entries) \in Nat
        BY <1>3, <3>2
      <4>1. ASSUME NEW k \in 1 .. Len(t)
            PROVE  \/ k <= n /\ k \in 1 .. Len(p.entries) /\ t[k] = p.entries[k]
                   \/ k = n + 1 /\ t[k] = e.candidate
                   \/ k > n + 1 /\ k - 1 \in 1 .. Len(p.entries) /\ t[k] = p.entries[k - 1]
        <5>1. CASE k <= n
          BY <3>3, <4>0, <5>1
        <5>2. CASE k = n + 1
          BY <3>3, <5>2
        <5>3. CASE k > n + 1
          <6>1. k - 1 \in n + 1 .. Len(p.entries) /\ k - 1 \in 1 .. Len(p.entries) /\ (k - 1) + 1 = k
            BY <3>3, <4>0, <5>3
          <6> QED
            BY <3>3, <5>3, <6>1
        <5> QED
          BY <4>0, <5>1, <5>2, <5>3
      <4>2. \A k \in 1 .. Len(p.entries) : p.entries[k] # e.candidate
        BY <2>2 DEF Ranked
      <4>3. \A k, l \in 1 .. Len(p.entries) : p.entries[k] = p.entries[l] => k = l
        BY <1>3
      <4> QED
        BY <3>5, <4>0, <4>1, <4>2, <4>3
    <3> HIDE DEF t
    <3>6. Legal(q)
      BY <1>4, <3>1, <3>3, <3>5, LegalSettled
    <3>7. q.entries = t /\ q.pending = NoPlacement /\ q.revision = e.sequence
      BY <1>5, <3>1
    <3> QED
      BY <3>4, <3>6, <3>7
  <2> QED
    BY <2>3, <2>4
<1> QED
  BY <1>2, <1>6, <1>7, <1>9, <1>10, <1>11 DEF q, WellFormed

LEMMA LegalEmpty ==
  /\ Legal(EmptyProjection) /\ EmptyProjection # CorruptRanking
  /\ EmptyProjection.revision = 0 /\ CorruptRanking.revision = 0
<1>1. IsSeq(<<>>) /\ Len(<<>>) = 0
  BY DEF IsSeq
<1>2. EmptyProjection \in [revision : {0}, entries : {<<>>}, pending : {NoPlacement},
                           seen : {EmptyProjection.seen}]
  BY DEF EmptyProjection
<1>3. \A i, j \in 1 .. Len(<<>>) : i = j
  BY <1>1
<1>4. Legal(EmptyProjection)
  BY <1>1, <1>2, <1>3, LegalSettled
<1>5. EmptyProjection.entries = <<>> /\ CorruptRanking.entries = <<NoBook>>
  BY DEF EmptyProjection, CorruptRanking
<1>6. <<>> # <<NoBook>>
  <2>1. Len(<<NoBook>>) = 1
    OBVIOUS
  <2> QED
    BY <1>1, <2>1
<1>7. EmptyProjection.revision = 0 /\ CorruptRanking.revision = 0
  BY DEF EmptyProjection, CorruptRanking
<1> QED
  BY <1>4, <1>5, <1>6, <1>7

\* A history that replays gives a legal projection, and it keeps every answer.
LEMMA ReplayedLegal ==
  ASSUME NEW D, IsSeq(D), Projection(D) # CorruptRanking
  PROVE  /\ Legal(Projection(D))
         /\ \A i \in 1 .. Len(D) :
                Holds(decode_event(D[i]), Projection(D).entries, Projection(D).pending)
<1> DEFINE h == Decoded(D)
           n == Len(D)
<1>1. /\ n \in Nat /\ Len(h) = n /\ Projection(D) = Replay(h)
      /\ \A i \in 1 .. n : h[i] = decode_event(D[i])
  BY DecodedFacts
<1> HIDE DEF h, n
<1>2. PICK f : Projects(f, h, n) /\ Replay(h) = f[n]
  BY <1>1, ReplayProjects
<1> DEFINE Good(k) == /\ Legal(f[k])
                      /\ \A i \in 1 .. k : Holds(h[i], f[k].entries, f[k].pending)
           S == {k \in 0 .. n : f[k] # CorruptRanking /\ ~Good(k)}
<1>3. f[0] = EmptyProjection
  <2>1. 0 \in 0 .. n
    BY <1>1
  <2> QED
    BY <1>2, <2>1 DEF Projects
<1>4. ASSUME NEW k \in 1 .. n, f[k] # CorruptRanking
      PROVE  /\ f[k - 1] # CorruptRanking /\ Verdict(f[k - 1], h[k]) = Accepted
             /\ f[k] = Apply(f[k - 1], h[k])
  <2>1. k \in 0 .. n /\ k # 0
    BY <1>1
  <2>2. f[k] = After(f[k - 1], h[k])
    BY <1>2, <2>1 DEF Projects
  <2> QED
    BY <1>4, <2>2 DEF After
<1>5. Good(0)
  BY <1>3, LegalEmpty
<1>6. S = {}
  <2> SUFFICES ASSUME S # {} PROVE FALSE
    OBVIOUS
  <2>1. S \in SUBSET Nat
    BY <1>1
  <2>2. PICK k \in S : \A y \in S : k <= y
    BY <2>1, LeastNumber
  <2>3. k \in 0 .. n /\ f[k] # CorruptRanking /\ ~Good(k)
    BY <2>2
  <2>4. k \in 1 .. n /\ k - 1 \in 0 .. n /\ k - 1 < k
    <3>1. k # 0
      BY <1>5, <2>3
    <3> QED
      BY <1>1, <2>3, <3>1
  <2>5. k - 1 \notin S
    BY <1>1, <2>2, <2>4
  <2> DEFINE p == f[k - 1]
             e == h[k]
  <2>6. p # CorruptRanking /\ Verdict(p, e) = Accepted /\ f[k] = Apply(p, e)
    BY <1>4, <2>3, <2>4
  <2>7. Good(k - 1)
    BY <2>4, <2>5, <2>6
  <2>8. WellFormed(e)
    <3>1. e.sequence = p.revision + 1 /\ p.revision \in Nat
      BY <2>6, <2>7, VerdictFacts DEF Legal
    <3>2. e.sequence # 0
      BY <3>1
    <3>3. e = decode_event(D[k])
      BY <1>1, <2>4
    <3> QED
      BY <3>2, <3>3, DecodeWellFormed
  <2>9. Legal(p) /\ \A i \in 1 .. k - 1 : Holds(h[i], p.entries, p.pending)
    BY <2>7
  <2> HIDE DEF p, e
  <2>10. /\ Legal(f[k])
         /\ \A g : Holds(g, p.entries, p.pending) \/ g = e => Holds(g, f[k].entries, f[k].pending)
    BY <2>6, <2>8, <2>9, LegalAfter
  <2>11. \A i \in 1 .. k : i \in 1 .. k - 1 \/ i = k
    BY <2>4
  <2>12. Good(k)
    BY <2>9, <2>10, <2>11 DEF e
  <2> QED
    BY <2>3, <2>12
<1>7. n \in 0 .. n /\ f[n] # CorruptRanking
  BY <1>1, <1>2
<1>8. Good(n)
  BY <1>6, <1>7
<1> QED
  BY <1>1, <1>2, <1>8 DEF n

\* An accepted event never corrupts a ranking.
LEMMA AppendReplays ==
  ASSUME NEW D, IsSeq(D), Projection(D) # CorruptRanking, NEW d,
         Verdict(Projection(D), decode_event(d)) = Accepted
  PROVE  Projection(Append(D, d)) # CorruptRanking
<1> DEFINE p == Projection(D)
           e == decode_event(d)
<1>1. Legal(p) /\ p.revision \in Nat
  BY ReplayedLegal DEF Legal
<1>2. Projection(Append(D, d)) = Apply(p, e)
  BY ProjectionAppended DEF After
<1>3. WellFormed(e)
  BY <1>1, VerdictFacts, DecodeWellFormed
<1>4. Apply(p, e).revision = p.revision + 1
  BY <1>1, <1>3, LegalAfter
<1>5. Apply(p, e).revision # 0
  BY <1>1, <1>4
<1> QED
  BY <1>2, <1>5, LegalEmpty

-----------------------------------------------------------------------------
(* The steps of the system.                                                *)

LEMMA OffersKept ==
  ASSUME OffersNumbered, UNCHANGED <<offers, issued>>
  PROVE  OffersNumbered'
  BY DEF OffersNumbered

\* A request in progress.
LEMMA Busy ==
  ASSUME IInv, NEW s \in Slots, tasks[s].pc # "idle"
  PROVE  /\ tasks[s] # Idle /\ tasks[s].reader \in Readers /\ tasks[s].action # NoAction
         /\ tasks[s].pc \notin {"submit", "loop"} =>
                Has(application[tasks[s].reader], tasks[s].action, "intent")
         /\ tasks[s].pc = "confirm" =>
                saved(application[tasks[s].reader], ranking[tasks[s].reader], tasks[s].action)
         /\ Evidence(application[tasks[s].reader], ranking[tasks[s].reader])
<1>1. Idle.pc = "idle"
  BY DEF Idle
<1>2. TaskSound(tasks[s], application, ranking)
  BY DEF IInv
<1>3. tasks[s] # Idle /\ tasks[s].reader \in Readers
  BY <1>1, <1>2 DEF TaskSound
<1>4. Evidence(application[tasks[s].reader], ranking[tasks[s].reader])
  BY <1>3 DEF IInv
<1> QED
  BY <1>2, <1>3, <1>4 DEF TaskSound

\* A request arrives, goes on or ends, and the evidence stays.
LEMMA RequestMoves ==
  ASSUME IInv, NEW s \in Slots, NEW x, TaskSound(x, application, ranking),
         tasks' = [tasks EXCEPT ![s] = x],
         \A y \in replies' : y \in replies \/ ReplySound(y, application, ranking),
         UNCHANGED <<application, ranking, offers, issued>>
  PROVE  IInv'
<1>1. /\ DOMAIN tasks' = Slots /\ tasks' = [t \in Slots |-> tasks'[t]]
      /\ \A t \in Slots : tasks'[t] = IF t = s THEN x ELSE tasks[t]
  BY DEF IInv
<1>2. \A t \in Slots : TaskSound(tasks'[t], application, ranking)
  BY <1>1 DEF IInv
<1>3. \A y \in replies' : ReplySound(y, application, ranking)
  BY DEF IInv
<1>4. OffersNumbered'
  BY OffersKept DEF IInv
<1> QED
  BY <1>1, <1>2, <1>3, <1>4 DEF IInv

\* A form is handed out.
LEMMA FormIssued ==
  ASSUME IInv, NEW forms, Issue(forms),
         \A form \in forms : form.reader \in Readers /\ form.action = issued + 1
  PROVE  IInv'
<1>1. issued \in Nat /\ issued' = issued + 1 /\ offers' = offers \cup forms
  BY DEF IInv, OffersNumbered, Issue
<1>2. issued + 1 # NoAction
  BY <1>1 DEF NoAction
<1>3. OffersNumbered'
  BY <1>1, <1>2 DEF IInv, OffersNumbered
<1>4. UNCHANGED <<application, ranking, tasks, replies>>
  BY DEF Issue
<1> QED
  BY <1>3, <1>4 DEF IInv

\* A transaction of a request appends a fact.
LEMMA FactStep ==
  ASSUME IInv, NEW s \in Slots, tasks[s].pc # "idle", NEW f, Append1(s, f, "loop"),
         f.action = tasks[s].action,
         ~Has(application[tasks[s].reader], f.action, f.stage),
         f.stage = "intent" =>
            unresolved(application[tasks[s].reader], ranking[tasks[s].reader]) = {},
         f.stage # "intent" => Has(application[tasks[s].reader], f.action, "intent"),
         f.stage = "rankingprepared" => f.data.correlationid = f.action,
         f.stage = "rejected" =>
            ~saved(application[tasks[s].reader], ranking[tasks[s].reader], f.action)
  PROVE  IInv'
<1> DEFINE r == tasks[s].reader
           H == application[r]
           D == ranking[r]
<1>1. r \in Readers /\ tasks[s].action # NoAction /\ Evidence(H, D)
  BY Busy
<1>2. Evidence(Append(H, f), D)
  BY <1>1, EvidenceFact
<1>3. /\ application' = [application EXCEPT ![r] = Append(@, f)]
      /\ tasks' = [tasks EXCEPT ![s] = At(s, "loop", NoBook)]
      /\ UNCHANGED <<ranking, offers, replies, issued>>
  BY DEF Append1
<1>4. /\ application' = [q \in Readers |-> application'[q]] /\ DOMAIN application' = Readers
      /\ \A q \in Readers : application'[q] = IF q = r THEN Append(H, f) ELSE application[q]
  BY <1>1, <1>3 DEF IInv
<1>5. IsSeq(H) /\ FactsOrdered(H) /\ FactsOrdered(Append(H, f))
  BY <1>1, <1>2 DEF Evidence
<1>kept. \A a, stage : Has(H, a, stage) => Has(Append(H, f), a, stage)
  BY <1>5, FactAppended
<1>keeps. \A a : saved(H, D, a) => saved(Append(H, f), D, a)
  BY <1>5, SavedKept
<1>6. ASSUME NEW q \in Readers, NEW a, NEW stage, Has(application[q], a, stage)
      PROVE  Has(application'[q], a, stage)
  <2>1. CASE q = r
    BY <1>4, <1>6, <1>kept, <2>1
  <2>2. CASE q # r
    <3>1. application'[q] = application[q]
      BY <1>4, <2>2
    <3> QED
      BY <1>6, <3>1
  <2> QED
    BY <2>1, <2>2
<1>8. \A q \in Readers : \A a :
        saved(application[q], ranking[q], a) => saved(application'[q], ranking[q], a)
  BY <1>4, <1>keeps
<1>9. /\ \A x : TaskSound(x, application, ranking) => TaskSound(x, application', ranking)
      /\ \A y : ReplySound(y, application, ranking) => ReplySound(y, application', ranking)
  BY <1>6, <1>8, SoundKept
<1>10. TaskSound(At(s, "loop", NoBook), application', ranking)
  <2> DEFINE x == At(s, "loop", NoBook)
  <2>1. x.pc = "loop" /\ x.reader = r /\ x.action = tasks[s].action
    BY TaskFields DEF At
  <2> HIDE DEF x
  <2> QED
    BY <1>1, <2>1 DEF TaskSound, x
<1>11. /\ DOMAIN tasks' = Slots /\ tasks' = [t \in Slots |-> tasks'[t]]
       /\ \A t \in Slots : tasks'[t] = IF t = s THEN At(s, "loop", NoBook) ELSE tasks[t]
  BY <1>3 DEF IInv
<1>12. \A t \in Slots : TaskSound(tasks'[t], application', ranking)
  BY <1>9, <1>10, <1>11 DEF IInv
<1>13. \A y \in replies : ReplySound(y, application', ranking)
  BY <1>9 DEF IInv
<1>14. \A q \in Readers : Evidence(application'[q], ranking[q])
  BY <1>2, <1>4 DEF IInv
<1>15. OffersNumbered'
  BY <1>3, OffersKept DEF IInv
<1> HIDE DEF H, D, r
<1> QED
  BY <1>3, <1>4, <1>11, <1>12, <1>13, <1>14, <1>15 DEF IInv

\* An event is appended to a ranking.
LEMMA EventStep ==
  ASSUME IInv, NEW r \in Readers, NEW d, ranking' = [ranking EXCEPT ![r] = Append(@, d)],
         Verdict(Projection(ranking[r]), decode_event(d)) = Accepted,
         \/ d.correlationid = NoAction
         \/ \E a : /\ Has(application[r], a, "rankingprepared")
                   /\ d = prepared(application[r], a)
                   /\ ~saved(application[r], ranking[r], a)
                   /\ ~Has(application[r], a, "rejected"),
         \/ tasks' = tasks
         \/ \E s \in Slots : \E x : /\ TaskSound(x, application, ranking')
                                   /\ tasks' = [tasks EXCEPT ![s] = x],
         UNCHANGED <<application, replies, offers, issued>>
  PROVE  IInv'
<1> DEFINE H == application[r]
           D == ranking[r]
<1>1. Evidence(H, D) /\ Projection(D) # CorruptRanking /\ IsSeq(D)
  BY DEF IInv, Evidence
<1>2. Evidence(H, Append(D, d))
  BY <1>1, EvidenceEvent
<1>3. Projection(Append(D, d)) # CorruptRanking
  BY <1>1, AppendReplays
<1>4. /\ ranking' = [q \in Readers |-> ranking'[q]] /\ DOMAIN ranking' = Readers
      /\ \A q \in Readers : ranking'[q] = IF q = r THEN Append(D, d) ELSE ranking[q]
  BY DEF IInv
<1>5. \A q \in Readers : \A a :
        saved(application[q], ranking[q], a) => saved(application[q], ranking'[q], a)
  BY <1>1, <1>4, SavedStays
<1>6. /\ \A x : TaskSound(x, application, ranking) => TaskSound(x, application, ranking')
      /\ \A y : ReplySound(y, application, ranking) => ReplySound(y, application, ranking')
  BY <1>5 DEF TaskSound, ReplySound
<1>7. /\ DOMAIN tasks' = Slots /\ tasks' = [t \in Slots |-> tasks'[t]]
      /\ \A t \in Slots : TaskSound(tasks'[t], application, ranking')
  BY <1>6 DEF IInv
<1>8. \A y \in replies : ReplySound(y, application, ranking')
  BY <1>6 DEF IInv
<1>9. \A q \in Readers : Evidence(application[q], ranking'[q])
  BY <1>2, <1>4 DEF IInv
<1>10. \A q \in Readers : Projection(ranking'[q]) # CorruptRanking
  BY <1>3, <1>4 DEF IInv
<1>11. OffersNumbered'
  BY OffersKept DEF IInv
<1> HIDE DEF H, D
<1> QED
  BY <1>4, <1>7, <1>8, <1>9, <1>10, <1>11 DEF IInv

\* A request goes on at another place of the code.
LEMMA GoesOn ==
  ASSUME IInv, NEW s \in Slots, tasks[s].pc # "idle", NEW book,
         NEW pc \in {"loop", "prepare", "find", "allocate", "register", "decide"},
         pc # "loop" => Has(application[tasks[s].reader], tasks[s].action, "intent"),
         tasks' = [tasks EXCEPT ![s] = At(s, pc, book)],
         UNCHANGED <<application, ranking, offers, replies, issued>>
  PROVE  IInv'
<1> DEFINE x == At(s, pc, book)
<1>1. x.pc = pc /\ x.reader = tasks[s].reader /\ x.action = tasks[s].action
  BY TaskFields DEF At
<1>2. tasks[s].reader \in Readers /\ tasks[s].action # NoAction
  BY Busy
<1> HIDE DEF x
<1>3. TaskSound(x, application, ranking)
  BY <1>1, <1>2 DEF TaskSound
<1> QED
  BY <1>3, RequestMoves DEF x

LEMMA ContinueStep ==
  ASSUME IInv, NEW s \in Slots, tasks[s].pc # "idle", NEW book,
         NEW pc \in {"loop", "prepare", "find", "allocate", "register", "decide"},
         pc # "loop" => Has(application[tasks[s].reader], tasks[s].action, "intent"),
         Continue(s, pc, book)
  PROVE  IInv'
  BY GoesOn DEF Continue

\* A request ends with an outcome the evidence shows.
LEMMA EndsStep ==
  ASSUME IInv, NEW s \in Slots, tasks[s].pc # "idle", NEW outcome, Ends(s, outcome),
         outcome = "saved" =>
            saved(application[tasks[s].reader], ranking[tasks[s].reader], tasks[s].action),
         outcome = "rejected" =>
            Has(application[tasks[s].reader], tasks[s].action, "rejected"),
         UNCHANGED <<application, ranking, offers, issued>>
  PROVE  IInv'
<1> DEFINE y == Told(s, outcome)
<1>1. y.reader = tasks[s].reader /\ y.action = tasks[s].action /\ y.outcome = outcome
  BY DEF Told
<1>2. tasks[s].reader \in Readers /\ tasks[s].action # NoAction
  BY Busy
<1>3. tasks' = [tasks EXCEPT ![s] = Idle] /\ replies' = replies \cup {y}
  BY DEF Ends
<1> HIDE DEF y
<1>4. ReplySound(y, application, ranking)
  BY <1>1, <1>2 DEF ReplySound
<1>5. TaskSound(Idle, application, ranking)
  BY DEF TaskSound
<1> QED
  BY <1>3, <1>4, <1>5, RequestMoves

LEMMA ReplyStep ==
  ASSUME IInv, NEW s \in Slots, tasks[s].pc # "idle", NEW outcome, Reply(s, outcome),
         outcome = "saved" =>
            saved(application[tasks[s].reader], ranking[tasks[s].reader], tasks[s].action),
         outcome = "rejected" =>
            Has(application[tasks[s].reader], tasks[s].action, "rejected")
  PROVE  IInv'
  BY EndsStep DEF Reply

LEMMA FactFields ==
  ASSUME NEW action, NEW stage, NEW cause, NEW data, NEW f, f = Fact(action, stage, cause, data)
  PROVE  f.action = action /\ f.stage = stage /\ f.data = data
  BY DEF Fact

LEMMA SelectInv ==
  ASSUME IInv, NEW r \in Readers, NEW w, Select(r, w) PROVE IInv'
<1> DEFINE form == Form(r, issued + 1, "add", w, NoBook, NoBook, Projection(ranking[r]).revision)
<1>1. Issue({form})
  BY DEF Select
<1>2. form.reader = r /\ form.action = issued + 1
  BY DEF Form
<1> HIDE DEF form
<1> QED
  BY <1>1, <1>2, FormIssued

LEMMA CompareInv ==
  ASSUME IInv, NEW r \in Readers, Compare(r) PROVE IInv'
<1>1. PICK forms : /\ Issue(forms)
                   /\ \A form \in forms : \E kind, work, c, o, n :
                        form = Form(r, issued + 1, kind, work, c, o, n)
  BY DEF Compare
<1>2. \A kind, work, c, o, n :
        LET form == Form(r, issued + 1, kind, work, c, o, n)
        IN  form.reader = r /\ form.action = issued + 1
  BY DEF Form
<1> QED
  BY <1>1, <1>2, FormIssued

LEMMA ArriveInv ==
  ASSUME IInv, NEW s \in Slots, NEW pc \in {"submit", "loop"}, NEW reader \in Readers,
         NEW action, action # NoAction, NEW form, NEW choice, NEW book,
         Arrive(s, Task(pc, reader, action, form, choice, book))
  PROVE  IInv'
<1> DEFINE x == Task(pc, reader, action, form, choice, book)
<1>1. x.pc = pc /\ x.reader = reader /\ x.action = action
  BY TaskFields
<1>2. /\ tasks' = [tasks EXCEPT ![s] = x]
      /\ UNCHANGED <<application, ranking, offers, replies, issued>>
  BY DEF Arrive
<1> HIDE DEF x
<1>3. TaskSound(x, application, ranking)
  BY <1>1 DEF TaskSound
<1> QED
  BY <1>2, <1>3, RequestMoves

LEMMA SubmitInv ==
  ASSUME IInv, NEW s \in Slots, Submit(s) PROVE IInv'
<1>1. PICK form \in offers : \E choice \in Buttons(form.kind) :
        Arrive(s, Task("submit", form.reader, form.action, form, choice, NoBook))
  BY DEF Submit
<1>2. form.reader \in Readers /\ form.action # NoAction
  BY DEF IInv, OffersNumbered
<1> QED
  BY <1>1, <1>2, ArriveInv

LEMMA RecoverInv ==
  ASSUME IInv, NEW s \in Slots, Recover(s) PROVE IInv'
<1>1. PICK r \in Readers :
        \E action \in unresolved(application[r], ranking[r])
                      \cup {reply.action : reply \in {x \in replies :
                                x.reader = r /\ x.outcome = "unconfirmed"}} :
            Arrive(s, Task("loop", r, action, NoForm, "none", NoBook))
  BY DEF Recover
<1>2. PICK action : /\ \/ action \in unresolved(application[r], ranking[r])
                       \/ \E y \in replies : action = y.action
                    /\ Arrive(s, Task("loop", r, action, NoForm, "none", NoBook))
  BY <1>1
<1>3. action # NoAction
  <2>1. CASE \E y \in replies : action = y.action
    BY <2>1 DEF IInv, ReplySound
  <2>2. CASE action \in unresolved(application[r], ranking[r])
    <3>1. Has(application[r], action, "intent")
      BY <2>2, Unresolved
    <3>2. FactsOrdered(application[r])
      BY DEF IInv, Evidence
    <3> QED
      BY <3>1, <3>2, HasFact DEF FactsOrdered
  <2> QED
    BY <1>2, <2>1, <2>2
<1> QED
  BY <1>2, <1>3, ArriveInv

LEMMA FailsInv ==
  ASSUME IInv, NEW s \in Slots, Fails(s) PROVE IInv'
<1>1. tasks[s].pc # "idle"
  BY DEF Fails, IInv, TaskSound
<1> QED
  BY <1>1, EndsStep DEF Fails

\* Intents: add and submit_ranking_command.
LEMMA AdmitInv ==
  ASSUME IInv, NEW s \in Slots, tasks[s].pc = "submit", Admit(s) PROVE IInv'
<1> DEFINE r == tasks[s].reader
           H == application[r]
           action == tasks[s].action
           f == Fact(action, "intent", 0, Request(s))
<1>1. CASE Continue(s, "loop", NoBook)
  BY <1>1, ContinueStep
<1>2. CASE Reply(s, "forbidden") \/ Reply(s, "blocked")
  BY <1>2, ReplyStep
<1>3. CASE ~Has(H, action, "intent") /\ ~Checking(r) /\ Append1(s, f, "loop")
  <2>1. f.action = action /\ f.stage = "intent"
    BY FactFields
  <2>2. unresolved(H, ranking[r]) = {}
    BY <1>3 DEF Checking
  <2> HIDE DEF f
  <2> QED
    BY <1>3, <2>1, <2>2, FactStep
<1> QED
  BY <1>1, <1>2, <1>3 DEF Admit

LEMMA ConfirmInv ==
  ASSUME IInv, NEW s \in Slots, Confirm(s) PROVE IInv'
  BY Busy, ReplyStep DEF Confirm

\* The loop of execute.
LEMMA LookInv ==
  ASSUME IInv, NEW s \in Slots, Look(s) PROVE IInv'
<1> DEFINE r == tasks[s].reader
           action == tasks[s].action
           H == application[r]
           D == ranking[r]
           document == prepared(H, action)
<1>1. /\ tasks[s].pc = "loop" /\ tasks[s].pc # "idle"
      /\ r \in Readers /\ action # NoAction /\ Evidence(H, D) /\ FactsOrdered(H)
  BY Busy DEF Look, Evidence
<1>2. \A stage : Has(H, action, stage) => Has(H, action, "intent")
  BY <1>1, HasFact DEF FactsOrdered
<1>3. CASE Reply(s, "missing")
  BY <1>1, <1>3, ReplyStep
<1>4. CASE saved(H, D, action) /\ Reply(s, "saved")
  BY <1>1, <1>4, ReplyStep
<1>5. CASE Has(H, action, "rejected") /\ Reply(s, "rejected")
  BY <1>1, <1>5, ReplyStep
<1>6. CASE /\ ~saved(H, D, action) /\ ~Has(H, action, "rejected")
           /\ Has(H, action, "rankingprepared") /\ reject_stale(s)
  <2> DEFINE f == Fact(action, "rejected", First(Facts(H, action, "rankingprepared")), NoData)
  <2>1. f.action = action /\ f.stage = "rejected"
    BY FactFields
  <2>2. Append1(s, f, "loop")
    BY <1>6 DEF reject_stale
  <2> HIDE DEF f
  <2> QED
    BY <1>1, <1>2, <1>6, <2>1, <2>2, FactStep
<1>7. CASE /\ ~saved(H, D, action) /\ ~Has(H, action, "rejected")
           /\ Has(H, action, "rankingprepared") /\ CommitRanking(s, document)
  <2> DEFINE ok == Appendable(D, document, Projection(D).revision)
             x == At(s, "confirm", NoBook)
  <2>1. CASE ok
    <3>1. /\ ranking' = [ranking EXCEPT ![r] = Append(@, document)]
          /\ tasks' = [tasks EXCEPT ![s] = x]
          /\ UNCHANGED <<application, replies, offers, issued>>
      BY <1>7, <2>1 DEF CommitRanking
    <3>2. Verdict(Projection(D), decode_event(document)) = Accepted
      BY <2>1 DEF Appendable
    <3>3. ranking'[r] = Append(D, document)
      BY <1>1, <3>1 DEF IInv
    <3>4. saved(H, ranking'[r], action)
      <4>1. IsSeq(D)
        BY <1>1 DEF Evidence
      <4>2. /\ Len(D) \in Nat /\ Len(Append(D, document)) = Len(D) + 1
            /\ Append(D, document)[Len(D) + 1] = document
        BY <4>1, SeqFacts, SeqAppend
      <4>3. Len(D) + 1 \in 1 .. Len(Append(D, document))
        BY <4>2
      <4> QED
        BY <1>7, <3>3, <4>2, <4>3 DEF saved
    <3>5. TaskSound(x, application, ranking')
      <4>1. x.pc = "confirm" /\ x.reader = r /\ x.action = action
        BY TaskFields DEF At
      <4> HIDE DEF x
      <4> QED
        BY <1>1, <1>2, <1>7, <3>4, <4>1 DEF TaskSound
    <3> HIDE DEF x, document
    <3>6. \E a : /\ Has(H, a, "rankingprepared") /\ document = prepared(H, a)
                 /\ ~saved(H, D, a) /\ ~Has(H, a, "rejected")
      BY <1>7 DEF document
    <3> QED
      BY <1>1, <3>1, <3>2, <3>5, <3>6, EventStep
  <2>2. CASE ~ok
    <3>1. /\ ranking' = [ranking EXCEPT ![r] = @]
          /\ tasks' = [tasks EXCEPT ![s] = Idle]
          /\ replies' = replies \cup {Told(s, "unconfirmed")}
          /\ UNCHANGED <<application, offers, issued>>
      BY <1>7, <2>2 DEF CommitRanking
    <3>2. ranking' = ranking
      BY <1>1, <3>1 DEF IInv
    <3> QED
      BY <1>1, <3>1, <3>2, EndsStep DEF Ends
  <2> QED
    BY <2>1, <2>2
<1>8. CASE Has(H, action, "intent") /\ Continue(s, "prepare", NoBook)
  BY <1>1, <1>8, ContinueStep
<1>9. CASE Has(H, action, "intent") /\ Continue(s, "find", NoBook)
  BY <1>1, <1>9, ContinueStep
<1>10. CASE /\ Has(H, action, "registrationprepared")
            /\ Continue(s, "register", The(H, action, "registrationprepared").data.book)
  BY <1>1, <1>2, <1>10, ContinueStep
<1> QED
  BY <1>3, <1>4, <1>5, <1>6, <1>7, <1>8, <1>9, <1>10 DEF Look

\* A decision is recorded where none was.
LEMMA DecisionInv ==
  ASSUME IInv, NEW s \in Slots, tasks[s].pc \in {"prepare", "decide"}, NEW f,
         ~decided(application[tasks[s].reader], tasks[s].action),
         f.action = tasks[s].action, f.stage \in {"rankingprepared", "rejected"},
         f.stage = "rankingprepared" => f.data.correlationid = f.action,
         Append1(s, f, "loop")
  PROVE  IInv'
<1> DEFINE H == application[tasks[s].reader]
<1>1. Has(H, f.action, "intent")
  BY Busy
<1>2. /\ ~Has(H, f.action, "rankingprepared") /\ ~Has(H, f.action, "rejected")
      /\ ~saved(H, ranking[tasks[s].reader], f.action)
  BY DEF decided, saved
<1>3. ~Has(H, f.action, f.stage)
  BY <1>2
<1> QED
  BY <1>1, <1>2, <1>3, FactStep

LEMMA PrepareFact ==
  ASSUME NEW s, NEW command, NEW registered, NEW cause, NEW f,
         f = Prepare(s, command, registered, cause)
  PROVE  /\ f.action = tasks[s].action /\ f.stage \in {"rankingprepared", "rejected"}
         /\ f.stage = "rankingprepared" => f.data.correlationid = f.action
<1>1. \A event, n, r : encode_event(r, event, tasks[s].action, n).correlationid = tasks[s].action
  BY DEF encode_event
<1>2. \/ \E event, n, r : f = Fact(tasks[s].action, "rankingprepared", cause,
                                   encode_event(r, event, tasks[s].action, n))
      \/ f = Fact(tasks[s].action, "rejected", cause, NoData)
  BY DEF Prepare
<1> QED
  BY <1>1, <1>2, FactFields

LEMMA PreparePreferenceInv ==
  ASSUME IInv, NEW s \in Slots, PreparePreference(s) PROVE IInv'
<1> DEFINE r == tasks[s].reader
           H == application[r]
           action == tasks[s].action
           cause == First(Facts(H, action, "intent"))
           g == Fact(action, "rejected", cause, NoData)
<1>1. tasks[s].pc = "prepare"
  BY DEF PreparePreference
<1>2. CASE Continue(s, "loop", NoBook)
  BY <1>1, <1>2, ContinueStep
<1>3. CASE /\ ~decided(H, action)
           /\ \/ \E command, known : Append1(s, Prepare(s, command, known, cause), "loop")
              \/ Append1(s, g, "loop")
  <2>1. g.action = action /\ g.stage = "rejected"
    BY FactFields
  <2>2. CASE Append1(s, g, "loop")
    <3> HIDE DEF g
    <3> QED
      BY <1>1, <1>3, <2>1, <2>2, DecisionInv
  <2>3. ASSUME NEW command, NEW known, Append1(s, Prepare(s, command, known, cause), "loop")
        PROVE  IInv'
    <3> DEFINE f == Prepare(s, command, known, cause)
    <3>1. /\ f.action = action /\ f.stage \in {"rankingprepared", "rejected"}
          /\ f.stage = "rankingprepared" => f.data.correlationid = f.action
      BY PrepareFact
    <3>2. Append1(s, f, "loop")
      BY <2>3
    <3> HIDE DEF f
    <3> QED
      BY <1>1, <1>3, <3>1, <3>2, DecisionInv
  <2> QED
    BY <1>3, <2>2, <2>3
<1> QED
  BY <1>2, <1>3 DEF PreparePreference

LEMMA PrepareRankingInv ==
  ASSUME IInv, NEW s \in Slots, PrepareRanking(s) PROVE IInv'
<1> DEFINE H == application[tasks[s].reader]
           action == tasks[s].action
           f == Prepare(s, Command("start", tasks[s].book, "none"), {tasks[s].book},
                        First(Facts(H, action, "registrationprepared")))
<1>1. tasks[s].pc = "decide"
  BY DEF PrepareRanking
<1>2. CASE Continue(s, "loop", NoBook)
  BY <1>1, <1>2, ContinueStep
<1>3. CASE ~decided(H, action) /\ Append1(s, f, "loop")
  <2>1. /\ f.action = action /\ f.stage \in {"rankingprepared", "rejected"}
        /\ f.stage = "rankingprepared" => f.data.correlationid = f.action
    BY PrepareFact
  <2> HIDE DEF f
  <2> QED
    BY <1>1, <1>3, <2>1, DecisionInv
<1> QED
  BY <1>2, <1>3 DEF PrepareRanking

LEMMA FindBookInv ==
  ASSUME IInv, NEW s \in Slots, FindBook(s) PROVE IInv'
<1>1. tasks[s].pc = "find" /\ \E book : Continue(s, "allocate", book)
  BY DEF FindBook
<1> QED
  BY <1>1, Busy, ContinueStep

LEMMA AllocateInv ==
  ASSUME IInv, NEW s \in Slots, Allocate(s) PROVE IInv'
<1> DEFINE H == application[tasks[s].reader]
           action == tasks[s].action
           f == Fact(action, "registrationprepared", First(Facts(H, action, "intent")),
                     [book |-> tasks[s].book])
<1>1. tasks[s].pc = "allocate"
  BY DEF Allocate
<1>2. CASE Continue(s, "loop", NoBook)
  BY <1>1, <1>2, ContinueStep
<1>3. CASE ~Has(H, action, "registrationprepared") /\ Append1(s, f, "loop")
  <2>1. f.action = action /\ f.stage = "registrationprepared"
    BY FactFields
  <2> HIDE DEF f
  <2> QED
    BY <1>1, <1>3, <2>1, Busy, FactStep
<1> QED
  BY <1>2, <1>3 DEF Allocate

LEMMA RegisterInv ==
  ASSUME IInv, NEW s \in Slots, Register(s) PROVE IInv'
<1>1. /\ tasks[s].pc = "register"
      /\ \E book : tasks' = [tasks EXCEPT ![s] = At(s, "decide", book)]
      /\ UNCHANGED <<application, ranking, offers, replies, issued>>
  BY DEF Register
<1> QED
  BY <1>1, Busy, GoesOn

\* What to_cloud_event writes, decode_event reads.
LEMMA Encoded ==
  ASSUME NEW r, NEW e, NEW a, NEW n, WellFormed(e), e.sequence # 0,
         e \in [id : {e.id}, sequence : {e.sequence}, candidate : {e.candidate},
                kind : {e.kind}, opponent : {e.opponent}, choice : {e.choice}]
  PROVE  decode_event(encode_event(r, e, a, n)) = e
<1> DEFINE d == encode_event(r, e, a, n)
           Kinds == {"started", "answered", "paused", "resumed"}
<1>1. \A k, l \in Kinds : EventType(k) = EventType(l) => k = l
  BY DEF EventType
<1>2. KindOf(EventType(e.kind)) = e.kind
  <2>1. e.kind \in Kinds
    BY DEF WellFormed
  <2> QED
    BY <1>1, <2>1 DEF KindOf
<1>3. /\ d.id = e.id /\ d.source = d.data.readerId /\ d.subject = d.data.candidateBookId
      /\ d.sequence = e.sequence /\ d.data.sequence = e.sequence
      /\ d.type = EventType(e.kind) /\ d.data.candidateBookId = e.candidate
      /\ d.data.opponentBookId = e.opponent /\ d.data.choice = e.choice
  BY DEF encode_event
<1> HIDE DEF d
<1>4. KindOf(d.type) = e.kind /\ KindOf(d.type) # "unsupported"
  BY <1>2, <1>3 DEF WellFormed
<1>5. decode_event(d) = Event(e.id, e.sequence, e.candidate, e.kind, e.opponent, e.choice)
  BY <1>3, <1>4 DEF decode_event, WellFormed
<1>6. e = Event(e.id, e.sequence, e.candidate, e.kind, e.opponent, e.choice)
  BY DEF Event
<1> QED
  BY <1>5, <1>6 DEF d

\* Store::execute of another caller appends the event decide proposed.
LEMMA ExecuteInv ==
  ASSUME IInv, Execute PROVE IInv'
<1> DEFINE Offered(r) ==
        {Command("pause", NoBook, "none"), Command("resume", NoBook, "none")}
        \cup {Command("answer", o, c) : o \in {next_opponent(Projection(ranking[r]))},
                                        c \in {"prefer_candidate", "skip"}}
      Does(r, command) ==
        LET p == Projection(ranking[r])
            id == 200 + direct
        IN /\ direct < MaxDirect
           /\ Decision(p, Registered(books), p.revision, command, id) = Accepted
           /\ direct' = direct + 1
           /\ ranking' = [ranking EXCEPT ![r] =
                             Append(@, encode_event(r, Proposed(p, command, id), NoAction, 0))]
           /\ UNCHANGED <<books, application, offers, tasks, replies, issued, requests, faults>>
<1>1. PICK r \in Readers : \E command \in Offered(r) : Does(r, command)
  <2>1. Execute <=> \E r \in Readers : \E command \in Offered(r) : Does(r, command)
    BY DEF Execute
  <2> HIDE DEF Offered, Does
  <2> QED
    BY <2>1
<1> HIDE DEF Offered, Does
<1>pick. PICK command \in Offered(r) : Does(r, command)
  BY <1>1
<1> DEFINE p == Projection(ranking[r])
           id == 200 + direct
           o == next_opponent(p)
<1>2. /\ \/ command = Command("pause", NoBook, "none")
         \/ command = Command("resume", NoBook, "none")
         \/ \E c \in {"prefer_candidate", "skip"} : command = Command("answer", o, c)
      /\ Decision(p, Registered(books), p.revision, command, id) = Accepted
      /\ ranking' = [ranking EXCEPT ![r] =
                        Append(@, encode_event(r, Proposed(p, command, id), NoAction, 0))]
      /\ UNCHANGED <<application, offers, tasks, replies, issued>>
  <2>1. \/ command = Command("pause", NoBook, "none")
        \/ command = Command("resume", NoBook, "none")
        \/ \E c \in {"prefer_candidate", "skip"} : command = Command("answer", o, c)
    BY DEF Offered
  <2>2. /\ Decision(p, Registered(books), p.revision, command, id) = Accepted
        /\ ranking' = [ranking EXCEPT ![r] =
                          Append(@, encode_event(r, Proposed(p, command, id), NoAction, 0))]
        /\ UNCHANGED <<application, offers, tasks, replies, issued>>
    BY <1>pick DEF Does
  <2> QED
    BY <2>1, <2>2
<1> DEFINE e == Proposed(p, command, id)
           d == encode_event(r, e, NoAction, 0)
<1>3. p.revision \in Nat
  <2>1. IsSeq(ranking[r]) /\ p # CorruptRanking
    BY DEF IInv, Evidence
  <2> QED
    BY <2>1, ReplayedLegal DEF Legal
<1> HIDE DEF p, id, o
<1>4. /\ command.name \in {"pause", "resume", "answer"}
      /\ command.name = "answer" => command.choice \in {"prefer_candidate", "skip"}
  BY <1>2 DEF Command
<1>5. /\ Verdict(p, e) = Accepted
      /\ command.name = "answer" => command.book \in Registered(books)
  BY <1>2, <1>4 DEF Decision, Accepted
<1>6. command.name = "answer" => command.book # NoBook
  BY <1>5 DEF Registered
<1>7. /\ e \in [id : {e.id}, sequence : {e.sequence}, candidate : {e.candidate},
                kind : {e.kind}, opponent : {e.opponent}, choice : {e.choice}]
      /\ e.sequence = p.revision + 1
      /\ e.kind = CASE command.name = "start" -> "started"
                    [] command.name = "answer" -> "answered"
                    [] command.name = "pause" -> "paused"
                    [] command.name = "resume" -> "resumed"
      /\ e.opponent = IF command.name = "answer" THEN command.book ELSE NoBook
      /\ e.choice = IF command.name = "answer" THEN command.choice ELSE "none"
  BY DEF Proposed, Event
<1> HIDE DEF e
<1>8. WellFormed(e) /\ e.sequence # 0
  <2>1. e.kind \in {"started", "answered", "paused", "resumed"}
    BY <1>4, <1>7
  <2>2. e.kind = "answered" => command.name = "answer"
    BY <1>4, <1>7
  <2>3. e.sequence # 0
    BY <1>3, <1>7
  <2> QED
    BY <1>4, <1>6, <1>7, <2>1, <2>2, <2>3 DEF WellFormed
<1>9. decode_event(d) = e
  BY <1>7, <1>8, Encoded
<1>10. d.correlationid = NoAction
  BY DEF encode_event
<1>11. ranking' = [ranking EXCEPT ![r] = Append(@, d)]
  BY <1>2 DEF e
<1> HIDE DEF d
<1> QED
  BY <1>2, <1>5, <1>9, <1>10, <1>11, EventStep DEF p

LEMMA InitIInv == Init => IInv
<1> SUFFICES ASSUME Init PROVE IInv
  OBVIOUS
<1>1. PICK start \in Starts : ranking = start
  BY DEF Init
<1>2. /\ DOMAIN ranking = Readers
      /\ \A r \in Readers :
            /\ IsSeq(ranking[r]) /\ Projection(ranking[r]) # CorruptRanking
            /\ \A i \in 1 .. Len(ranking[r]) : ranking[r][i].correlationid = NoAction
  <2>1. /\ start = [r \in Readers |-> start[r]]
        /\ \A r \in Readers :
            /\ start[r] \in Seq({start[r][i] : i \in DOMAIN start[r]})
            /\ Projection(start[r]) # CorruptRanking
            /\ \A i \in 1 .. Len(start[r]) : start[r][i].correlationid = NoAction
    BY StartsAssumption
  <2>2. DOMAIN start = Readers
    BY <2>1
  <2> QED
    BY <1>1, <2>1, <2>2 DEF IsSeq
<1>3. /\ application = [r \in Readers |-> <<>>] /\ tasks = [s \in Slots |-> Idle]
      /\ offers = {} /\ replies = {} /\ issued = 0
  BY DEF Init
<1>4. ASSUME NEW r \in Readers PROVE Evidence(application[r], ranking[r])
  <2>1. application[r] = <<>> /\ Len(<<>>) = 0 /\ IsSeq(<<>>)
    BY <1>3 DEF IsSeq
  <2>2. \A a, stage : ~Has(<<>>, a, stage)
    BY <2>1, HasFact
  <2>3. FactsOrdered(<<>>)
    BY <2>1 DEF FactsOrdered
  <2>4. EventsPrepared(<<>>, ranking[r])
    BY <1>2 DEF EventsPrepared
  <2>5. OneOpen(<<>>, ranking[r])
    BY <2>2, Unresolved DEF OneOpen
  <2> QED
    BY <1>2, <2>1, <2>3, <2>4, <2>5 DEF Evidence
<1>5. \A s \in Slots : TaskSound(tasks[s], application, ranking)
  BY <1>3 DEF TaskSound
<1>6. ranking = [r \in Readers |-> ranking[r]]
  BY <1>1, StartsAssumption
<1>7. OffersNumbered
  BY <1>3 DEF OffersNumbered
<1> QED
  BY <1>2, <1>3, <1>4, <1>5, <1>6, <1>7 DEF IInv

LEMMA NextIInv == IInv /\ [Next]_vars => IInv'
<1> SUFFICES ASSUME IInv, [Next]_vars PROVE IInv'
  OBVIOUS
<1>1. ASSUME NEW r \in Readers, NEW w \in Found, Select(r, w) PROVE IInv'
  BY <1>1, SelectInv
<1>2. ASSUME NEW r \in Readers, Compare(r) PROVE IInv'
  BY <1>2, CompareInv
<1>3. ASSUME NEW s \in Slots, Submit(s) PROVE IInv'
  BY <1>3, SubmitInv
<1>4. ASSUME NEW s \in Slots, Recover(s) PROVE IInv'
  BY <1>4, RecoverInv
<1>5. ASSUME NEW s \in Slots, Step(s) PROVE IInv'
  <2>1. CASE Add(s)
    BY <2>1, AdmitInv, ReplyStep DEF Add
  <2>2. CASE SubmitRankingCommand(s)
    BY <2>2, AdmitInv DEF SubmitRankingCommand
  <2>3. CASE Look(s)
    BY <2>3, LookInv
  <2>4. CASE Confirm(s)
    BY <2>4, ConfirmInv
  <2>5. CASE PreparePreference(s)
    BY <2>5, PreparePreferenceInv
  <2>6. CASE FindBook(s)
    BY <2>6, FindBookInv
  <2>7. CASE Allocate(s)
    BY <2>7, AllocateInv
  <2>8. CASE Register(s)
    BY <2>8, RegisterInv
  <2>9. CASE PrepareRanking(s)
    BY <2>9, PrepareRankingInv
  <2> QED
    BY <1>5, <2>1, <2>2, <2>3, <2>4, <2>5, <2>6, <2>7, <2>8, <2>9 DEF Step
<1>6. ASSUME NEW s \in Slots, Fails(s) PROVE IInv'
  BY <1>6, FailsInv
<1>7. CASE Execute
  BY <1>7, ExecuteInv
<1>8. CASE UNCHANGED vars
  <2>1. UNCHANGED <<application, ranking, offers, tasks, replies, issued>>
    BY <1>8 DEF vars
  <2>2. OffersNumbered'
    BY <2>1, OffersKept DEF IInv
  <2> QED
    BY <2>1, <2>2 DEF IInv
<1> QED
  BY <1>1, <1>2, <1>3, <1>4, <1>5, <1>6, <1>7, <1>8 DEF Next

-----------------------------------------------------------------------------
(* Theorems.                                                               *)

\* Whatever requests race, fail or are repeated, the evidence stays consistent, every
\* request and every reply is borne out by it, and every stored ranking replays.
THEOREM ActionInvariant == Spec => []IInv
<1>1. IInv /\ [Next]_vars => IInv'
  BY NextIInv
<1> QED
  BY <1>1, InitIInv, PTL DEF Spec

\* A set with at most one element.
LEMMA AtMostOne ==
  ASSUME NEW S, \A x, y \in S : x = y
  PROVE  Cardinality(S) \in 0 .. 1 /\ (S = {} <=> Cardinality(S) = 0)
<1>1. CASE S = {}
  BY <1>1, FS_EmptySet
<1>2. CASE S # {}
  <2>1. PICK x : x \in S
    BY <1>2
  <2>2. S = {x}
    BY <2>1
  <2>3. Cardinality(S) = 1
    BY <2>2, FS_Singleton
  <2> QED
    BY <1>2, <2>3
<1> QED
  BY <1>1, <1>2

LEMMA DecidedOnce == IInv => ActionsDecidedOnce
<1> SUFFICES ASSUME IInv, NEW r \in Readers
             PROVE  /\ Cardinality(unresolved(application[r], ranking[r])) <= 1
                    /\ \A action \in {application[r][i].action : i \in 1 .. Len(application[r])} :
                         LET Count(stage) == Cardinality(Facts(application[r], action, stage))
                             events == {i \in 1 .. Len(ranking[r]) :
                                            ranking[r][i].correlationid = action}
                         IN /\ Count("intent") = 1 /\ Count("registrationprepared") <= 1
                            /\ Count("rankingprepared") <= 1 /\ Count("rejected") <= 1
                            /\ Cardinality(events) + Count("rejected") <= 1
  BY DEF ActionsDecidedOnce
<1> DEFINE H == application[r]
           D == ranking[r]
<1>1. FactsOrdered(H) /\ EventsPrepared(H, D) /\ OneOpen(H, D)
  BY DEF IInv, Evidence
<1>2. Cardinality(unresolved(H, D)) <= 1
  <2>1. Cardinality(unresolved(H, D)) \in 0 .. 1
    BY <1>1, AtMostOne DEF OneOpen
  <2> QED
    BY <2>1
<1>3. ASSUME NEW i \in 1 .. Len(H)
      PROVE  LET Count(stage) == Cardinality(Facts(H, H[i].action, stage))
                 events == {j \in 1 .. Len(D) : D[j].correlationid = H[i].action}
             IN /\ Count("intent") = 1 /\ Count("registrationprepared") <= 1
                /\ Count("rankingprepared") <= 1 /\ Count("rejected") <= 1
                /\ Cardinality(events) + Count("rejected") <= 1
  <2> DEFINE a == H[i].action
             Count(stage) == Cardinality(Facts(H, a, stage))
             events == {j \in 1 .. Len(D) : D[j].correlationid = a}
  <2>1. a # NoAction /\ Has(H, a, "intent")
    BY <1>1 DEF FactsOrdered
  <2> HIDE DEF a
  <2>2. ASSUME NEW stage
        PROVE  Count(stage) \in 0 .. 1 /\ (Has(H, a, stage) <=> Count(stage) # 0)
    <3>1. \A x, y \in Facts(H, a, stage) : x = y
      BY <1>1 DEF Facts, FactsOrdered
    <3> QED
      BY <3>1, AtMostOne DEF Has
  <2>3. Cardinality(events) \in 0 .. 1 /\ (events = {} <=> Cardinality(events) = 0)
    <3>1. \A x, y \in events : x = y
      BY <1>1, <2>1 DEF EventsPrepared
    <3> HIDE DEF events
    <3> QED
      BY <3>1, AtMostOne
  <2>4. events # {} => ~Has(H, a, "rejected")
    BY <1>1, <2>1 DEF EventsPrepared
  <2> HIDE DEF events, Count
  <2>5. Count("intent") = 1
    BY <2>1, <2>2
  <2>6. /\ Count("registrationprepared") <= 1 /\ Count("rankingprepared") <= 1
        /\ Count("rejected") <= 1
    <3>1. \A stage : Count(stage) \in 0 .. 1
      BY <2>2
    <3> QED
      BY <3>1
  <2>7. Cardinality(events) + Count("rejected") <= 1
    <3>1. Cardinality(events) \in 0 .. 1 /\ Count("rejected") \in 0 .. 1
      BY <2>2, <2>3
    <3>2. Cardinality(events) = 0 \/ Count("rejected") = 0
      BY <2>2, <2>3, <2>4
    <3> QED
      BY <3>1, <3>2
  <2> QED
    BY <2>5, <2>6, <2>7 DEF events, Count, a
<1> QED
  BY <1>2, <1>3

\* Every action is decided once, and a reader never has two open saves.
THEOREM DecidedOnceAlways == Spec => []ActionsDecidedOnce
  BY ActionInvariant, DecidedOnce, PTL

LEMMA RepliesTrue == IInv => RepliesStayTrue
<1> SUFFICES ASSUME IInv, NEW y \in replies
             PROVE  /\ y.outcome = "saved" =>
                          /\ saved(application[y.reader], ranking[y.reader], y.action)
                          /\ \E i \in 1 .. Len(ranking[y.reader]) :
                                ranking[y.reader][i].correlationid = y.action
                    /\ y.outcome = "rejected" =>
                          \A i \in 1 .. Len(ranking[y.reader]) :
                                ranking[y.reader][i].correlationid # y.action
  BY DEF RepliesStayTrue
<1>1. ReplySound(y, application, ranking)
  BY DEF IInv
<1>2. y.reader \in Readers /\ y.action # NoAction
  BY <1>1 DEF ReplySound
<1> DEFINE H == application[y.reader]
           D == ranking[y.reader]
<1>3. FactsOrdered(H) /\ EventsPrepared(H, D)
  BY <1>2 DEF IInv, Evidence
<1>4. ASSUME y.outcome = "saved"
      PROVE  saved(H, D, y.action) /\ \E i \in 1 .. Len(D) : D[i].correlationid = y.action
  <2>1. saved(H, D, y.action)
    BY <1>1, <1>4 DEF ReplySound
  <2> QED
    BY <1>2, <1>3, <2>1, SavedEvent
<1>5. ASSUME y.outcome = "rejected", NEW i \in 1 .. Len(D)
      PROVE  D[i].correlationid # y.action
  <2>1. Has(H, y.action, "rejected")
    BY <1>1, <1>5 DEF ReplySound
  <2> QED
    BY <1>2, <1>3, <2>1 DEF EventsPrepared
<1> QED
  BY <1>4, <1>5

\* What a reader was told of an action stays true.
THEOREM RepliesTrueAlways == Spec => []RepliesStayTrue
  BY ActionInvariant, RepliesTrue, PTL

LEMMA FollowsAnswers == IInv => RankingFollowsAnswers
<1> SUFFICES ASSUME IInv, NEW r \in Readers
             PROVE  LET p == Projection(ranking[r])
                    IN /\ p # CorruptRanking
                       /\ \A i \in 1 .. Len(ranking[r]) :
                            LET e == decode_event(ranking[r][i])
                            IN (e.kind = "answered" /\ e.candidate \in Ranked(p)) =>
                                  /\ e.choice = "prefer_candidate" =>
                                        Before(p.entries, e.candidate, e.opponent)
                                  /\ e.choice = "prefer_opponent" =>
                                        Before(p.entries, e.opponent, e.candidate)
  BY DEF RankingFollowsAnswers
<1> DEFINE p == Projection(ranking[r])
<1>1. IsSeq(ranking[r]) /\ p # CorruptRanking
  BY DEF IInv, Evidence
<1>2. /\ Legal(p)
      /\ \A i \in 1 .. Len(ranking[r]) : Holds(decode_event(ranking[r][i]), p.entries, p.pending)
  BY <1>1, ReplayedLegal
<1> HIDE DEF p
<1>3. ASSUME NEW i \in 1 .. Len(ranking[r]), NEW e, e = decode_event(ranking[r][i]),
             e.kind = "answered", e.candidate \in Ranked(p)
      PROVE  /\ e.choice = "prefer_candidate" => Before(p.entries, e.candidate, e.opponent)
             /\ e.choice = "prefer_opponent" => Before(p.entries, e.opponent, e.candidate)
  <2>1. Holds(e, p.entries, p.pending)
    BY <1>2, <1>3
  <2>2. ~(p.pending # NoPlacement /\ p.pending.candidate = e.candidate)
    BY <1>2, <1>3 DEF Legal
  <2>3. Kept(e, p.entries)
    BY <1>3, <2>1, <2>2 DEF Holds
  <2> QED
    BY <2>3 DEF Kept
<1> QED
  BY <1>1, <1>3 DEF p

\* Every stored ranking replays, and agrees with every answer its reader gave about
\* two of its books.
THEOREM FollowsAnswersAlways == Spec => []RankingFollowsAnswers
  BY ActionInvariant, FollowsAnswers, PTL

-----------------------------------------------------------------------------
(* The calculation graph: what its validation has established, pass by     *)
(* pass.                                                                    *)

LEMMA GraphCounts == \A S : K!Cardinality(S) = Cardinality(S)
    BY DEF K!Cardinality, Cardinality

\* The phases behind each check.
Accepting == {"accepted"}
Reaching == {"reach"} \cup Accepting
Typing == {"types"} \cup Reaching
Sorting == {"sort"} \cup Typing
Searching == {"acyclic"} \cup Sorting
Binding == {"operands"} \cup Searching
Naming == {"outputs"} \cup Binding
Indexing == {"assemble", "local", "index"}
Passes == Indexing \cup Naming \cup {"rejected"}

IdsUnique == \A i, k \in K!Indices : K!Nodes[i].id = K!Nodes[k].id => i = k
OutputsKnown == \A o \in DOMAIN definition.outputs : K!node_index(definition.outputs[o]) \in K!Indices
OperandsKnown ==
    \A i \in K!Indices : \A p \in DOMAIN K!operands(i) :
        K!dependencies(i)[p] \in K!Indices /\ K!Nodes[K!dependencies(i)[p]].kind # "finding"

ReferencesSound ==
    /\ phase \in Naming => IdsUnique
    /\ phase \in Binding => OutputsKnown
    /\ phase \in Searching => OperandsKnown

\* What no pass has touched yet.
Untouched ==
    /\ phase \in Indexing \cup {"outputs", "operands"} =>
          states = [i \in K!Indices |-> "Unvisited"] /\ stack = << >>
    /\ phase \notin Sorting \cup {"rejected"} => order = << >>
    /\ phase \notin Typing \cup {"rejected"} => resolved = << >>
    /\ phase \notin Reaching \cup {"rejected"} => reachable = {}

VisitedIn(marks) == {i \in K!Indices : marks[i] = "Visited"}

\* No nodes of S wait for one another.
Grounded(S) == \A T \in SUBSET S : T # {} => \E i \in T : K!Reads(i) \cap T = {}

\* The open calls are a path without repetitions; what they have looked at is visited, but
\* for the operand each call waits for.
CallsSound(marks, calls) ==
    /\ K!IsList(calls)
    /\ \A s \in DOMAIN calls :
          /\ calls[s] = [index |-> calls[s].index, next |-> calls[s].next]
          /\ calls[s].index \in K!Indices
          /\ calls[s].next \in 1 .. Len(K!dependencies(calls[s].index)) + 1
    /\ \A s, t \in DOMAIN calls : calls[s].index = calls[t].index => s = t
    /\ \A s \in DOMAIN calls : s + 1 \in DOMAIN calls =>
          /\ calls[s].next > 1
          /\ calls[s + 1].index = K!dependencies(calls[s].index)[calls[s].next - 1]
    /\ \A s \in DOMAIN calls : \A p \in 1 .. calls[s].next - 1 :
          \/ K!dependencies(calls[s].index)[p] \in VisitedIn(marks)
          \/ s + 1 \in DOMAIN calls /\ p = calls[s].next - 1

\* Open nodes are those of the open calls, visited ones have read only visited ones, and
\* none of them wait for one another.
MarksSound(marks, calls) ==
    /\ marks \in [K!Indices -> {"Unvisited", "Visiting", "Visited"}]
    /\ \A i \in K!Indices : marks[i] = "Visiting" <=> \E s \in DOMAIN calls : calls[s].index = i
    /\ \A i \in VisitedIn(marks) : K!Reads(i) \subseteq VisitedIn(marks)
    /\ Grounded(VisitedIn(marks))

\* The operands of a node that are not in the order yet.
OpenOperands(i) == {e \in K!edges : e.target = i /\ e.source \notin K!Listed(Len(order))}

\* The nodes that can come next.
Frontier == {i \in K!Indices \ K!Listed(Len(order)) : K!Reads(i) \subseteq K!Listed(Len(order))}

OrderSound ==
    /\ K!IsList(order)
    /\ \A n \in DOMAIN order : order[n] \in K!Indices
    /\ \A m, n \in DOMAIN order : order[m] = order[n] => m = n
    /\ \A n \in DOMAIN order : K!Reads(order[n]) \subseteq K!Listed(n - 1)

SortSound ==
    /\ ready = Frontier
    /\ degree = [i \in K!Indices |-> Cardinality(OpenOperands(i))]

TypesOf(i) == [p \in DOMAIN K!operands(i) |-> resolved[K!dependencies(i)[p]]]

TypesSound ==
    /\ Cardinality(DOMAIN resolved) \in 0 .. Len(order)
    /\ DOMAIN resolved = K!Listed(Cardinality(DOMAIN resolved))
    /\ \A i \in DOMAIN resolved :
          /\ resolved[i] = K!node_type(i, TypesOf(i))
          /\ resolved[i] \in K!ValueTypes \cup {K!NoType}
          /\ K!Nodes[i].kind # "finding" => resolved[i] \in K!ValueTypes

WaitingNodes == {queue[k] : k \in DOMAIN queue}

ReachSound ==
    /\ K!IsList(queue) /\ WaitingNodes \cup reachable \subseteq K!Indices
    /\ \A o \in DOMAIN definition.outputs :
          K!node_index(definition.outputs[o]) \in WaitingNodes \cup reachable
    /\ \A i \in reachable : K!Reads(i) \subseteq WaitingNodes \cup reachable
    /\ \A S \in K!Contributing : WaitingNodes \cup reachable \subseteq S

GraphInv ==
    /\ K!IsProfile(definition) /\ phase \in Passes
    /\ verdict.error = "Cycle" => K!CycleIsReal
    /\ verdict.error = "UnreachableNode" => \E S \in K!Contributing : K!node_index(verdict.id) \notin S
    /\ ReferencesSound /\ Untouched
    /\ phase = "acyclic" => MarksSound(states, stack) /\ CallsSound(states, stack)
    /\ phase \in Sorting => Grounded(K!Indices) /\ OrderSound
    /\ order # << >> => K!OrderIsStable
    /\ phase = "sort" => SortSound
    /\ phase \in Typing => K!Listed(Len(order)) = K!Indices /\ TypesSound
    /\ phase \in Reaching => DOMAIN resolved = K!Indices
    /\ phase = "reach" => ReachSound
    /\ phase = "accepted" => \A S \in K!Contributing : S = K!Indices

\* A function on the first numbers is a list,
LEMMA ListOf ==
    ASSUME NEW f, NEW n \in Nat, f = [i \in 1 .. n |-> f[i]]
    PROVE  K!IsList(f) /\ Len(f) = n
<1> DEFINE R == {f[i] : i \in DOMAIN f}
<1>1. DOMAIN f = 1 .. n /\ \A i \in 1 .. n : f[i] \in R
    OBVIOUS
<1> HIDE DEF R
<1>2. f \in [1 .. n -> R]
    BY <1>1
<1>3. f \in Seq(R) /\ Len(f) = n
    BY <1>2
<1> QED BY <1>3 DEF K!IsList, R

\* and every list is one.
LEMMA ListFacts ==
    ASSUME NEW list, K!IsList(list)
    PROVE  /\ Len(list) \in Nat /\ DOMAIN list = 1 .. Len(list)
           /\ list = [i \in 1 .. Len(list) |-> list[i]]
<1>1. list \in Seq({list[i] : i \in DOMAIN list})
    BY DEF K!IsList
<1> QED BY <1>1

\* A list grows at its end,
LEMMA ListAppend ==
    ASSUME NEW list, K!IsList(list), NEW x
    PROVE  /\ K!IsList(Append(list, x))
           /\ Len(list) \in Nat /\ DOMAIN list = 1 .. Len(list)
           /\ DOMAIN Append(list, x) = 1 .. Len(list) + 1
           /\ \A i \in DOMAIN list :
                 i \in DOMAIN Append(list, x) /\ Append(list, x)[i] = list[i]
           /\ Append(list, x)[Len(list) + 1] = x
<1> DEFINE S == {list[i] : i \in DOMAIN list} \cup {x}
           longer == Append(list, x)
<1>1. Len(list) \in Nat /\ DOMAIN list = 1 .. Len(list) /\ list = [i \in 1 .. Len(list) |-> list[i]]
    BY ListFacts
<1>2. x \in S /\ \A i \in 1 .. Len(list) : list[i] \in S
    BY <1>1
<1> HIDE DEF S
<1>3. list \in [1 .. Len(list) -> S]
    BY <1>1, <1>2
<1>4. list \in Seq(S)
    BY <1>1, <1>3
<1>5. /\ longer \in Seq(S) /\ Len(longer) = Len(list) + 1
      /\ DOMAIN longer = 1 .. Len(list) + 1
      /\ \A i \in 1 .. Len(list) : longer[i] = list[i]
      /\ longer[Len(list) + 1] = x
    BY <1>2, <1>4
<1> HIDE DEF longer
<1>6. longer = [i \in 1 .. Len(longer) |-> longer[i]] /\ Len(longer) \in Nat
    BY <1>5
<1>7. K!IsList(longer)
    BY <1>6, ListOf
<1> QED BY <1>1, <1>5, <1>7 DEF longer

\* and when its first element is taken.
LEMMA ListTail ==
    ASSUME NEW list, K!IsList(list), list # << >>
    PROVE  /\ K!IsList(Tail(list))
           /\ Len(list) \in Nat \ {0} /\ DOMAIN list = 1 .. Len(list)
           /\ DOMAIN Tail(list) = 1 .. (Len(list) - 1)
           /\ \A i \in 1 .. (Len(list) - 1) : Tail(list)[i] = list[i + 1]
           /\ Head(list) = list[1]
<1> DEFINE S == {list[i] : i \in DOMAIN list}
           rest == Tail(list)
<1>1. list \in Seq(S)
    BY DEF K!IsList
<1> HIDE DEF S
<1>2. /\ rest \in Seq(S) /\ Len(rest) = Len(list) - 1 /\ Len(list) \in Nat \ {0}
      /\ DOMAIN list = 1 .. Len(list) /\ DOMAIN rest = 1 .. (Len(list) - 1)
      /\ \A i \in 1 .. (Len(list) - 1) : rest[i] = list[i + 1]
      /\ Head(list) = list[1]
    BY <1>1
<1> HIDE DEF rest
<1>3. rest = [i \in 1 .. Len(rest) |-> rest[i]] /\ Len(rest) \in Nat
    BY <1>2
<1>4. K!IsList(rest)
    BY <1>3, ListOf
<1> QED BY <1>2, <1>4 DEF rest

\* What a definition determines, as functions of it.
index_of(profile, id) == CHOOSE i \in DOMAIN profile.nodes : profile.nodes[i].id = id
reads_of(profile, i) ==
    LET list == profile.nodes[i].expression.operands
    IN {[p \in DOMAIN list |-> index_of(profile, list[p].id)][q] : q \in DOMAIN list}
contributing_of(profile) ==
    {S \in SUBSET DOMAIN profile.nodes :
        /\ \A o \in DOMAIN profile.outputs : index_of(profile, profile.outputs[o]) \in S
        /\ \A i \in S : reads_of(profile, i) \subseteq S}

LEMMA NodeIndex == \A id : K!node_index(id) = index_of(definition, id)
    BY DEF K!node_index, index_of, K!Indices, K!Nodes

\* A step that keeps the definition keeps what follows from it.
LEMMA SameGraph ==
    ASSUME definition' = definition
    PROVE  /\ K!Nodes' = K!Nodes /\ K!Indices' = K!Indices
           /\ \A id : K!node_index(id)' = K!node_index(id)
           /\ \A i : K!operands(i)' = K!operands(i) /\ K!dependencies(i)' = K!dependencies(i)
           /\ \A i : K!Reads(i)' = K!Reads(i)
<1>1. K!Nodes' = K!Nodes /\ K!Indices' = K!Indices
    BY DEF K!Nodes, K!Indices
<1>2. \A id : K!node_index(id)' = index_of(definition', id)
    BY DEF K!node_index, index_of, K!Indices, K!Nodes
<1>3. \A id : K!node_index(id)' = K!node_index(id)
    BY <1>2, NodeIndex
<1>4. \A i : K!operands(i)' = K!operands(i)
    BY <1>1 DEF K!operands
<1>5. \A i : K!dependencies(i)' = K!dependencies(i)
    BY <1>3, <1>4 DEF K!dependencies
<1>6. \A i : K!Reads(i)' = K!Reads(i)
    BY <1>4, <1>5 DEF K!Reads
<1> QED BY <1>1, <1>3, <1>4, <1>5, <1>6

LEMMA ContributingIs ==
    \A S : S \in K!Contributing <=>
        /\ S \subseteq K!Indices
        /\ \A o \in DOMAIN definition.outputs : K!node_index(definition.outputs[o]) \in S
        /\ \A i \in S : K!Reads(i) \subseteq S
    BY DEF K!Contributing

LEMMA SameContributing ==
    ASSUME definition' = definition
    PROVE  K!Contributing' = K!Contributing
<1>1. K!Contributing = contributing_of(definition)
    BY DEF K!Contributing, contributing_of, K!Reads, reads_of, K!dependencies, K!operands, K!node_index,
           index_of, K!Indices, K!Nodes
<1>2. K!Contributing' = contributing_of(definition')
    BY DEF K!Contributing, contributing_of, K!Reads, reads_of, K!dependencies, K!operands, K!node_index,
           index_of, K!Indices, K!Nodes
<1> QED BY <1>1, <1>2

\* The shape of a definition.
LEMMA GraphShape ==
    ASSUME K!IsProfile(definition)
    PROVE  /\ Len(K!Nodes) \in Nat /\ K!Indices = 1 .. Len(K!Nodes)
           /\ DOMAIN definition.outputs = 1 .. Len(definition.outputs)
           /\ Len(definition.outputs) \in Nat
           /\ DOMAIN definition.citations = 1 .. Len(definition.citations)
           /\ Len(definition.citations) \in Nat
           /\ \A i \in K!Indices : K!IsList(K!operands(i))
           /\ \A i \in K!Indices : Len(K!operands(i)) \in Nat /\ DOMAIN K!operands(i) = 1 .. Len(K!operands(i))
<1>1. K!IsList(K!Nodes) /\ \A i \in K!Indices : K!IsList(K!operands(i))
    BY DEF K!IsProfile, K!Nodes, K!Indices, K!operands
<1>2. Len(K!Nodes) \in Nat /\ K!Indices = 1 .. Len(K!Nodes)
    BY <1>1, ListFacts DEF K!Indices
<1>3. \A i \in K!Indices : Len(K!operands(i)) \in Nat /\ DOMAIN K!operands(i) = 1 .. Len(K!operands(i))
    BY <1>1, ListFacts
<1>4. /\ DOMAIN definition.outputs = 1 .. Len(definition.outputs)
      /\ Len(definition.outputs) \in Nat
    BY ListFacts DEF K!IsProfile
<1>5. /\ DOMAIN definition.citations = 1 .. Len(definition.citations)
      /\ Len(definition.citations) \in Nat
    BY ListFacts DEF K!IsProfile
<1> QED BY <1>1, <1>2, <1>3, <1>4, <1>5

\* A node's operands, resolved.
LEMMA DependencyList ==
    ASSUME K!IsProfile(definition), NEW i \in K!Indices
    PROVE  /\ K!IsList(K!dependencies(i)) /\ Len(K!dependencies(i)) = Len(K!operands(i))
           /\ DOMAIN K!dependencies(i) = DOMAIN K!operands(i)
           /\ K!Reads(i) = {K!dependencies(i)[p] : p \in DOMAIN K!dependencies(i)}
<1>1. Len(K!operands(i)) \in Nat /\ DOMAIN K!operands(i) = 1 .. Len(K!operands(i))
    BY GraphShape
<1>2. DOMAIN K!dependencies(i) = 1 .. Len(K!operands(i))
    BY <1>1 DEF K!dependencies
<1>3. K!dependencies(i) = [p \in 1 .. Len(K!operands(i)) |-> K!dependencies(i)[p]]
    BY <1>1 DEF K!dependencies
<1>4. K!IsList(K!dependencies(i)) /\ Len(K!dependencies(i)) = Len(K!operands(i))
    BY <1>1, <1>3, ListOf
<1>5. K!Reads(i) = {K!dependencies(i)[p] : p \in DOMAIN K!dependencies(i)}
    BY <1>1, <1>2 DEF K!Reads
<1> QED BY <1>1, <1>2, <1>4, <1>5

LEMMA SmallestIn ==
    ASSUME NEW S \in SUBSET Nat, S # {}
    PROVE  K!Smallest(S) \in S /\ \A k \in S : K!Smallest(S) <= k
    BY LeastNumber DEF K!Smallest

\* The first defect is there when any is.
LEMMA FirstDefect ==
    ASSUME NEW defects, DOMAIN defects \subseteq Nat
    PROVE  /\ K!FirstOf(defects) = K!None => \A i \in DOMAIN defects : defects[i] = K!None
           /\ K!FirstOf(defects) # K!None => \E i \in DOMAIN defects : K!FirstOf(defects) = defects[i]
<1> DEFINE bad == {i \in DOMAIN defects : defects[i] # K!None}
<1>1. K!FirstOf(defects) = IF bad = {} THEN K!None ELSE defects[K!Smallest(bad)]
    BY DEF K!FirstOf
<1>2. bad \in SUBSET Nat /\ bad \subseteq DOMAIN defects
    OBVIOUS
<1>3. bad # {} => K!Smallest(bad) \in bad
    BY <1>2, SmallestIn
<1> QED BY <1>1, <1>2, <1>3

\* A defect that says nothing of cycles or of what contributes.
PlainDefect(defect) == defect.error \notin {"Cycle", "UnreachableNode"}

LEMMA FirstPlain ==
    ASSUME NEW defects, DOMAIN defects \subseteq Nat, \A i \in DOMAIN defects : PlainDefect(defects[i])
    PROVE  PlainDefect(K!FirstOf(defects))
<1>1. PlainDefect(K!None)
    BY DEF PlainDefect, K!None, K!Defect
<1> QED BY <1>1, FirstDefect

LEMMA FirstOfTwo ==
    ASSUME NEW a, NEW b
    PROVE  /\ DOMAIN <<a, b>> \subseteq Nat
           /\ K!FirstOf(<<a, b>>) = K!None => a = K!None /\ b = K!None
           /\ PlainDefect(a) /\ PlainDefect(b) => PlainDefect(K!FirstOf(<<a, b>>))
<1>1. DOMAIN <<a, b>> = {1, 2} /\ <<a, b>>[1] = a /\ <<a, b>>[2] = b
    OBVIOUS
<1>2. DOMAIN <<a, b>> \subseteq Nat
    BY <1>1
<1> QED BY <1>1, <1>2, FirstDefect, FirstPlain

-----------------------------------------------------------------------------
BeforeSearch == {"assemble", "local", "index", "outputs", "operands"}

\* A pass over the declarations.
LEMMA PassStep ==
    ASSUME GraphInv, NEW next, NEW defect, K!Conclude(defect, next), PlainDefect(defect),
           UNCHANGED <<definition, states, stack, degree, ready, order, resolved, queue,
                       reachable>>,
           phase \in BeforeSearch, next \in BeforeSearch,
           defect = K!None /\ next \in Naming => IdsUnique,
           defect = K!None /\ next \in Binding => OutputsKnown
    PROVE  GraphInv'
<1>1. /\ verdict' = defect
      /\ phase' = "rejected" \/ (defect = K!None /\ phase' = next)
    BY DEF K!Conclude
<1>2. phase' \in BeforeSearch \cup {"rejected"}
    BY <1>1
<1>3. K!Nodes' = K!Nodes /\ K!Indices' = K!Indices
    BY SameGraph
<1>4. K!IsProfile(definition)' /\ phase' \in Passes
    <2>1. BeforeSearch \cup {"rejected"} \subseteq Passes
        BY DEF BeforeSearch, Passes, Indexing, Naming, Binding
    <2>2. K!IsProfile(definition)
        BY DEF GraphInv
    <2>3. K!IsProfile(definition)'
        BY <2>2
    <2> QED BY <1>2, <2>1, <2>3
<1>5. verdict'.error \notin {"Cycle", "UnreachableNode"}
    BY <1>1 DEF PlainDefect
<1>6. ReferencesSound'
    <2>1. phase' \in Naming => IdsUnique'
        <3>1. phase' \in Naming => IdsUnique
            BY <1>1 DEF Naming, Binding, Searching, Sorting, Typing, Reaching, Accepting
        <3> QED BY <1>3, <3>1 DEF IdsUnique
    <2>2. phase' \in Binding => OutputsKnown'
        <3>1. phase' \in Binding => OutputsKnown
            BY <1>1 DEF Binding, Searching, Sorting, Typing, Reaching, Accepting
        <3> QED BY <1>3, <3>1, SameGraph DEF OutputsKnown
    <2>3. phase' \notin Searching
        BY <1>2 DEF BeforeSearch, Searching, Sorting, Typing, Reaching, Accepting
    <2> QED BY <2>1, <2>2, <2>3 DEF ReferencesSound
<1>7. /\ states = [i \in K!Indices |-> "Unvisited"] /\ stack = << >> /\ order = << >>
      /\ resolved = << >> /\ reachable = {}
    BY DEF GraphInv, Untouched, BeforeSearch, Indexing, Sorting, Typing, Reaching, Accepting
<1>8. Untouched'
    BY <1>3, <1>7 DEF Untouched
<1>9. phase' \notin {"acyclic", "sort", "reach", "accepted"} /\ phase' \notin Sorting
      /\ phase' \notin Typing /\ phase' \notin Reaching
    BY <1>2 DEF BeforeSearch, Sorting, Typing, Reaching, Accepting
<1>10. order' = << >>
    BY <1>7
<1> QED BY <1>4, <1>5, <1>6, <1>8, <1>9, <1>10 DEF GraphInv

LEMMA PlainDefects ==
    /\ PlainDefect(K!None)
    /\ \A id, path : PlainDefect(K!Defect("Empty", id, path)) /\ PlainDefect(K!Defect("EmptySegment", id, path))
    /\ \A id, path : /\ PlainDefect(K!Defect("InvalidSegmentStart", id, path))
                     /\ PlainDefect(K!Defect("InvalidCharacter", id, path))
                     /\ PlainDefect(K!Defect("NegativeDecimal", id, path))
                     /\ PlainDefect(K!Defect("TypeMismatch", id, path))
    /\ \A id, path : /\ PlainDefect(K!Defect("EmptySettingKey", id, path))
                     /\ PlainDefect(K!Defect("EmptyOperandRole", id, path))
                     /\ PlainDefect(K!Defect("NoOutputs", id, path))
                     /\ PlainDefect(K!Defect("DuplicateNodeId", id, path))
                     /\ PlainDefect(K!Defect("DuplicateCitationId", id, path))
    /\ \A id, path : /\ PlainDefect(K!Defect("DuplicateOutput", id, path))
                     /\ PlainDefect(K!Defect("UnknownOutput", id, path))
                     /\ PlainDefect(K!Defect("InvalidOutputNodeType", id, path))
                     /\ PlainDefect(K!Defect("UnknownCitation", id, path))
                     /\ PlainDefect(K!Defect("UnknownOperand", id, path))
                     /\ PlainDefect(K!Defect("FindingOperand", id, path))
    /\ \A id, path : /\ PlainDefect(K!Defect("FindingComparisonTypeMismatch", id, path))
                     /\ PlainDefect(K!Defect("ExpressionType", id, path))
                     /\ PlainDefect(K!Defect("DuplicateSettingKey", id, path))
    BY DEF PlainDefect, K!Defect, K!None

\* A defect has an error of its own, so none of these is `None`.
LEMMA DefectsDiffer ==
    /\ \A id, path : /\ K!Defect("DuplicateNodeId", id, path) # K!None
                     /\ K!Defect("DuplicateOutput", id, path) # K!None
                     /\ K!Defect("UnknownOutput", id, path) # K!None
                     /\ K!Defect("UnknownOperand", id, path) # K!None
                     /\ K!Defect("FindingOperand", id, path) # K!None
    /\ \A id, path : /\ K!Defect("FindingComparisonTypeMismatch", id, path) # K!None
                     /\ K!Defect("ExpressionType", id, path) # K!None
                     /\ K!Defect("UnreachableNode", id, path) # K!None
<1>1. \A error, id, path : K!Defect(error, id, path).error = error
    BY DEF K!Defect
<1>2. K!None.error = "none"
    BY DEF K!None, K!Defect
<1> QED BY <1>1, <1>2

LEMMA AssembleStep == GraphInv /\ K!Assemble => GraphInv'
<1> SUFFICES ASSUME GraphInv, K!Assemble PROVE GraphInv'
    OBVIOUS
<1>1. K!IsProfile(definition) /\ K!Indices \subseteq Nat
    BY GraphShape DEF GraphInv
<1>2. ASSUME NEW i \in K!Indices
      PROVE  /\ DOMAIN K!Nodes[i].values \subseteq Nat
             /\ DOMAIN K!Nodes[i].suffix \subseteq Nat
    <2>1. K!IsList(K!Nodes[i].values) /\ K!IsList(K!Nodes[i].suffix)
        BY <1>1 DEF K!IsProfile, K!Nodes, K!Indices
    <2>2. DOMAIN K!Nodes[i].values \subseteq Nat
        BY <2>1, ListFacts
    <2>3. DOMAIN K!Nodes[i].suffix \subseteq Nat
        BY <2>1, ListFacts
    <2> QED BY <2>2, <2>3
<1> DEFINE amounts(i) == [v \in DOMAIN K!Nodes[i].values |-> K!exact_decimal(K!Nodes[i].values[v])]
           three(i) == <<K!FirstOf(amounts(i)), K!input_definition(K!Nodes[i]),
                         K!validate_identifier(K!Nodes[i].suffix)>>
           all == [i \in K!Indices |-> K!FirstOf(three(i))]
<1>3. ASSUME NEW i \in K!Indices PROVE PlainDefect(K!FirstOf(three(i)))
    <2>1. PlainDefect(K!FirstOf(amounts(i)))
        <3>1. \A value : PlainDefect(K!exact_decimal(value))
            BY PlainDefects DEF K!exact_decimal
        <3>2. DOMAIN amounts(i) \subseteq Nat /\ \A v \in DOMAIN amounts(i) : PlainDefect(amounts(i)[v])
            BY <1>2, <3>1
        <3> HIDE DEF amounts
        <3> QED BY <3>2, FirstPlain
    <2>2. PlainDefect(K!input_definition(K!Nodes[i]))
        BY PlainDefects DEF K!input_definition
    <2>3. PlainDefect(K!validate_identifier(K!Nodes[i].suffix))
        <3> DEFINE suffix == K!Nodes[i].suffix
                   parts == [s \in DOMAIN suffix |->
                                IF suffix[s] = "" THEN K!Defect("EmptySegment", suffix, << >>)
                                ELSE IF suffix[s] \in K!BadStart
                                THEN K!Defect("InvalidSegmentStart", suffix, << >>)
                                ELSE IF suffix[s] \in K!BadCharacter
                                THEN K!Defect("InvalidCharacter", suffix, << >>)
                                ELSE K!None]
        <3>1. K!validate_identifier(suffix) = IF suffix = << >> THEN K!Defect("Empty", suffix, << >>)
                                            ELSE K!FirstOf(parts)
            BY DEF K!validate_identifier
        <3>2. DOMAIN parts \subseteq Nat /\ \A s \in DOMAIN parts : PlainDefect(parts[s])
            BY <1>2, PlainDefects, ZenonT(30)
        <3> HIDE DEF parts
        <3>3. PlainDefect(K!FirstOf(parts))
            BY <3>2, FirstPlain
        <3> QED BY <3>1, <3>3, PlainDefects
    <2>4. DOMAIN three(i) = 1 .. 3 /\ \A k \in 1 .. 3 : PlainDefect(three(i)[k])
        BY <2>1, <2>2, <2>3
    <2>5. DOMAIN three(i) \subseteq Nat
        BY <2>4
    <2> HIDE DEF three
    <2> QED BY <2>4, <2>5, FirstPlain
<1>4. DOMAIN all \subseteq Nat /\ \A i \in DOMAIN all : PlainDefect(all[i])
    BY <1>1, <1>3
<1>5. K!Conclude(K!FirstOf(all), "local")
    BY DEF K!Assemble
<1> HIDE DEF all
<1>6. PlainDefect(K!FirstOf(all))
    BY <1>4, FirstPlain
<1>7. UNCHANGED <<definition, states, stack, degree, ready, order, resolved, queue, reachable>>
    BY DEF K!Assemble, K!search, K!sort, K!reach
<1>8. "local" \notin Naming /\ "local" \notin Binding
    BY DEF Naming, Binding, Searching, Sorting, Typing, Reaching, Accepting
<1> QED BY <1>5, <1>6, <1>7, <1>8, PassStep DEF K!Assemble, BeforeSearch

LEMMA LocalStep == GraphInv /\ K!ValidateLocalValidity => GraphInv'
<1> SUFFICES ASSUME GraphInv, K!ValidateLocalValidity PROVE GraphInv'
    OBVIOUS
<1> DEFINE all == [i \in K!Indices |-> K!local_validity(i)]
           defect == IF definition.outputs = << >> THEN K!Defect("NoOutputs", << >>, << >>)
                     ELSE K!FirstOf(all)
<1>1. DOMAIN all \subseteq Nat /\ \A i \in DOMAIN all : PlainDefect(all[i])
    <2>1. K!Indices \subseteq Nat
        BY GraphShape DEF GraphInv
    <2>2. \A i : PlainDefect(K!local_validity(i))
        BY PlainDefects, ZenonT(30) DEF K!local_validity
    <2> QED BY <2>1, <2>2
<1>2. K!Conclude(defect, "index")
    BY DEF K!ValidateLocalValidity
<1>3. PlainDefect(K!FirstOf(all))
    <2> HIDE DEF all
    <2> QED BY <1>1, FirstPlain
<1>4. PlainDefect(defect)
    BY <1>3, PlainDefects
<1> HIDE DEF defect
<1>5. UNCHANGED <<definition, states, stack, degree, ready, order, resolved, queue, reachable>>
    BY DEF K!ValidateLocalValidity, K!search, K!sort, K!reach
<1>6. "index" \notin Naming /\ "index" \notin Binding
    BY DEF Naming, Binding, Searching, Sorting, Typing, Reaching, Accepting
<1> QED BY <1>2, <1>4, <1>5, <1>6, PassStep DEF K!ValidateLocalValidity, BeforeSearch

LEMMA IndexStep == GraphInv /\ K!BuildIndexes => GraphInv'
<1> SUFFICES ASSUME GraphInv, K!BuildIndexes PROVE GraphInv'
    OBVIOUS
<1>0. K!Indices \subseteq Nat /\ DOMAIN definition.citations \subseteq Nat /\ K!Indices = 1 .. Len(K!Nodes)
    BY GraphShape DEF GraphInv
<1> DEFINE ids == [i \in K!Indices |->
                      IF \E k \in 1 .. i - 1 : K!Nodes[k].id = K!Nodes[i].id
                      THEN K!Defect("DuplicateNodeId", K!Nodes[i].id, << >>) ELSE K!None]
           named == [c \in DOMAIN definition.citations |->
                        IF K!repeated(definition.citations, c)
                        THEN K!Defect("DuplicateCitationId", << >>, << >>) ELSE K!None]
<1>1. K!node_index_defect = K!FirstOf(ids) /\ K!citation_index_defect = K!FirstOf(named)
    BY DEF K!node_index_defect, K!citation_index_defect
<1>2. DOMAIN ids \subseteq Nat /\ \A i \in DOMAIN ids : PlainDefect(ids[i])
    BY <1>0, PlainDefects
<1>3. DOMAIN named \subseteq Nat /\ \A c \in DOMAIN named : PlainDefect(named[c])
    BY <1>0, PlainDefects
<1>4. K!FirstOf(ids) = K!None => IdsUnique
    <2> SUFFICES ASSUME K!FirstOf(ids) = K!None PROVE IdsUnique
        OBVIOUS
    <2>1. \A i \in DOMAIN ids : ids[i] = K!None
        <3> HIDE DEF ids
        <3> QED BY <1>2, FirstDefect
    <2>2. \A i \in K!Indices : \A k \in 1 .. i - 1 : K!Nodes[k].id # K!Nodes[i].id
        BY <2>1, DefectsDiffer
    <2>3. \A i, k \in K!Indices : k < i => k \in 1 .. i - 1
        BY <1>0
    <2>4. \A i, k \in K!Indices : i = k \/ i < k \/ k < i
        BY <1>0
    <2> QED BY <2>2, <2>3, <2>4 DEF IdsUnique
<1>5. PlainDefect(K!FirstOf(ids)) /\ PlainDefect(K!FirstOf(named))
    <2> HIDE DEF ids, named
    <2> QED BY <1>2, <1>3, FirstPlain
<1> DEFINE defect == K!FirstOf(<<K!node_index_defect, K!citation_index_defect>>)
<1> HIDE DEF ids, named
<1>6. K!Conclude(defect, "outputs") /\ PlainDefect(defect) /\ (defect = K!None => IdsUnique)
    BY <1>1, <1>4, <1>5, FirstOfTwo DEF K!BuildIndexes
<1> HIDE DEF defect
<1>7. UNCHANGED <<definition, states, stack, degree, ready, order, resolved, queue, reachable>>
    BY DEF K!BuildIndexes, K!search, K!sort, K!reach
<1>8. "outputs" \notin Binding
    BY DEF Binding, Searching, Sorting, Typing, Reaching, Accepting
<1> QED BY <1>6, <1>7, <1>8, PassStep DEF K!BuildIndexes, BeforeSearch

LEMMA KnownIndex ==
    ASSUME NEW id, K!Known(id)
    PROVE  K!node_index(id) \in K!Indices /\ K!Nodes[K!node_index(id)].id = id
    BY DEF K!Known, K!node_index

LEMMA OutputsStep == GraphInv /\ K!ValidateOutputsAndCitations => GraphInv'
<1> SUFFICES ASSUME GraphInv, K!ValidateOutputsAndCitations PROVE GraphInv'
    OBVIOUS
<1>0. K!Indices \subseteq Nat /\ DOMAIN definition.outputs \subseteq Nat
    BY GraphShape DEF GraphInv
<1> DEFINE shown == [o \in DOMAIN definition.outputs |-> K!output_defect(o)]
           cited == [i \in K!Indices |-> K!citation_defect(i)]
<1>1. DOMAIN shown \subseteq Nat /\ \A o \in DOMAIN shown : PlainDefect(shown[o])
    BY <1>0, PlainDefects DEF K!output_defect
<1>2. DOMAIN cited \subseteq Nat /\ \A i \in DOMAIN cited : PlainDefect(cited[i])
    BY <1>0, PlainDefects DEF K!citation_defect
<1>3. K!FirstOf(shown) = K!None => OutputsKnown
    <2> SUFFICES ASSUME K!FirstOf(shown) = K!None PROVE OutputsKnown
        OBVIOUS
    <2>1. \A o \in DOMAIN shown : shown[o] = K!None
        <3> HIDE DEF shown
        <3> QED BY <1>1, FirstDefect
    <2>2. \A o \in DOMAIN definition.outputs : K!Known(definition.outputs[o])
        BY <2>1, DefectsDiffer DEF K!output_defect
    <2> QED BY <2>2, KnownIndex DEF OutputsKnown
<1>4. PlainDefect(K!FirstOf(shown)) /\ PlainDefect(K!FirstOf(cited))
    <2> HIDE DEF shown, cited
    <2> QED BY <1>1, <1>2, FirstPlain
<1> DEFINE defect == K!FirstOf(<<K!FirstOf(shown), K!FirstOf(cited)>>)
<1>5. K!Conclude(defect, "operands")
    BY DEF K!ValidateOutputsAndCitations
<1> HIDE DEF shown, cited
<1>6. PlainDefect(defect) /\ (defect = K!None => OutputsKnown)
    BY <1>3, <1>4, FirstOfTwo
<1> HIDE DEF defect
<1>7. UNCHANGED <<definition, states, stack, degree, ready, order, resolved, queue, reachable>>
    BY DEF K!ValidateOutputsAndCitations, K!search, K!sort, K!reach
<1>8. IdsUnique /\ phase = "outputs"
    BY DEF K!ValidateOutputsAndCitations, GraphInv, ReferencesSound, Naming
<1> QED BY <1>5, <1>6, <1>7, <1>8, PassStep DEF BeforeSearch

-----------------------------------------------------------------------------
(* The depth-first search. *)

\* What is known of the definition while it is searched.
GraphChecked == K!IsProfile(definition) /\ IdsUnique /\ OutputsKnown /\ OperandsKnown

LEMMA CheckedKept ==
    ASSUME GraphChecked, definition' = definition
    PROVE  GraphChecked' /\ K!IsProfile(definition)'
<1>1. K!IsProfile(definition')
    BY DEF GraphChecked
<1> QED BY <1>1, SameGraph DEF GraphChecked, IdsUnique, OutputsKnown, OperandsKnown

LEMMA SameGrounded ==
    ASSUME definition' = definition, NEW S, Grounded(S)
    PROVE  \A T \in SUBSET S : T # {} => \E i \in T : K!Reads(i)' \cap T = {}
    BY SameGraph DEF Grounded

\* The search keeps the definition.
LEMMA SameSearch ==
    ASSUME definition' = definition, MarksSound(states', stack'), CallsSound(states', stack')
    PROVE  MarksSound(states, stack)' /\ CallsSound(states, stack)'
<1>1. VisitedIn(states)' = VisitedIn(states')
    BY SameGraph DEF VisitedIn
<1>2. Grounded(VisitedIn(states))'
    BY <1>1, SameGrounded DEF MarksSound, Grounded
<1>3. MarksSound(states, stack)'
    BY <1>1, <1>2, SameGraph DEF MarksSound
<1>4. CallsSound(states, stack)'
    BY <1>1, SameGraph DEF CallsSound
<1> QED BY <1>3, <1>4

\* A step of the search.
LEMMA SearchStep ==
    ASSUME GraphInv, phase = "acyclic", phase' = phase, definition' = definition,
           UNCHANGED <<degree, ready, order, resolved, queue, reachable, verdict>>,
           MarksSound(states', stack'), CallsSound(states', stack')
    PROVE  GraphInv'
<1>1. GraphChecked
    BY DEF GraphInv, GraphChecked, ReferencesSound, Naming, Binding, Searching
<1>2. GraphChecked' /\ K!IsProfile(definition)'
    BY <1>1, CheckedKept
<1>3. ReferencesSound'
    BY <1>2 DEF ReferencesSound, GraphChecked
<1>4. order = << >> /\ resolved = << >> /\ reachable = {}
    BY DEF GraphInv, Untouched, Sorting, Typing, Reaching, Accepting
<1>5. Untouched'
    <2>1. phase' \notin Indexing \cup {"outputs", "operands"}
        BY DEF Indexing
    <2> QED BY <1>4, <2>1 DEF Untouched
<1>6. /\ phase' \in Passes /\ phase' \notin Sorting /\ phase' \notin Typing
      /\ phase' \notin Reaching /\ phase' \notin {"sort", "reach", "accepted"}
    BY DEF Passes, Naming, Binding, Searching, Sorting, Typing, Reaching, Accepting
<1>7. verdict'.error = "Cycle" => K!CycleIsReal'
    BY SameGraph DEF GraphInv, K!CycleIsReal
<1>8. verdict'.error = "UnreachableNode" =>
          \E S \in K!Contributing' : K!node_index(verdict.id)' \notin S
    BY SameGraph, SameContributing DEF GraphInv
<1>9. order' = << >>
    BY <1>4
<1> QED BY <1>2, <1>3, <1>5, <1>6, <1>7, <1>8, <1>9, SameSearch DEF GraphInv

LEMMA TopCall ==
    ASSUME GraphChecked, CallsSound(states, stack), stack # << >>
    PROVE  /\ Len(stack) \in Nat \ {0} /\ DOMAIN stack = 1 .. Len(stack)
           /\ K!Top = [index |-> K!Top.index, next |-> K!Top.next] /\ K!Top.index \in K!Indices
           /\ Len(K!dependencies(K!Top.index)) \in Nat
           /\ DOMAIN K!dependencies(K!Top.index) = 1 .. Len(K!dependencies(K!Top.index))
           /\ K!Top.next \in Nat \ {0} /\ K!Top.next <= Len(K!dependencies(K!Top.index)) + 1
           /\ K!Reads(K!Top.index) = {K!dependencies(K!Top.index)[p] : p \in DOMAIN K!dependencies(K!Top.index)}
           /\ K!Top.next <= Len(K!dependencies(K!Top.index)) =>
                 K!Dependency \in K!Indices /\ K!Dependency \in K!Reads(K!Top.index)
<1>1. Len(stack) \in Nat \ {0} /\ DOMAIN stack = 1 .. Len(stack)
    BY ListTail DEF CallsSound
<1>2. Len(stack) \in DOMAIN stack
    BY <1>1
<1>3. /\ K!Top = [index |-> K!Top.index, next |-> K!Top.next] /\ K!Top.index \in K!Indices
      /\ K!Top.next \in 1 .. Len(K!dependencies(K!Top.index)) + 1
    BY <1>2 DEF K!Top, CallsSound
<1>4. /\ K!IsList(K!dependencies(K!Top.index))
      /\ DOMAIN K!dependencies(K!Top.index) = DOMAIN K!operands(K!Top.index)
      /\ K!Reads(K!Top.index) = {K!dependencies(K!Top.index)[p] : p \in DOMAIN K!dependencies(K!Top.index)}
    BY <1>3, DependencyList DEF GraphChecked
<1>5. /\ Len(K!dependencies(K!Top.index)) \in Nat
      /\ DOMAIN K!dependencies(K!Top.index) = 1 .. Len(K!dependencies(K!Top.index))
    BY <1>4, ListFacts
<1>6. K!Top.next \in Nat \ {0} /\ K!Top.next <= Len(K!dependencies(K!Top.index)) + 1
    BY <1>3, <1>5
<1>7. ASSUME K!Top.next <= Len(K!dependencies(K!Top.index))
      PROVE  K!Dependency \in K!Indices /\ K!Dependency \in K!Reads(K!Top.index)
    <2>1. K!Top.next \in DOMAIN K!dependencies(K!Top.index)
        BY <1>5, <1>6, <1>7
    <2>2. K!Dependency = K!dependencies(K!Top.index)[K!Top.next]
        BY DEF K!Dependency
    <2> QED BY <1>3, <1>4, <2>1, <2>2 DEF GraphChecked, OperandsKnown
<1> QED BY <1>1, <1>3, <1>4, <1>5, <1>6, <1>7

LEMMA AdvancedIs ==
    ASSUME GraphChecked, CallsSound(states, stack), stack # << >>
    PROVE  /\ K!IsList(K!Advanced) /\ DOMAIN K!Advanced = DOMAIN stack /\ Len(K!Advanced) = Len(stack)
           /\ K!Advanced[Len(stack)] = [index |-> K!Top.index, next |-> K!Top.next + 1]
           /\ \A s \in DOMAIN stack : s # Len(stack) => K!Advanced[s] = stack[s]
<1>1. /\ Len(stack) \in Nat \ {0} /\ DOMAIN stack = 1 .. Len(stack)
      /\ K!Top = [index |-> K!Top.index, next |-> K!Top.next]
    BY TopCall
<1> DEFINE later == [index |-> K!Top.index, next |-> K!Top.next + 1]
<1>2. K!Advanced = [stack EXCEPT ![Len(stack)] = later]
    <2>1. [stack[Len(stack)] EXCEPT !.next = @ + 1] = later
        BY <1>1 DEF K!Top
    <2>2. K!Advanced = [stack EXCEPT ![Len(stack)] = [stack[Len(stack)] EXCEPT !.next = @ + 1]]
        BY DEF K!Advanced
    <2> QED BY <2>1, <2>2
<1> HIDE DEF later
<1>3. /\ DOMAIN K!Advanced = DOMAIN stack /\ K!Advanced[Len(stack)] = later
      /\ \A s \in DOMAIN stack : s # Len(stack) => K!Advanced[s] = stack[s]
    BY <1>1, <1>2
<1>4. K!Advanced = [s \in 1 .. Len(stack) |-> K!Advanced[s]]
    BY <1>1, <1>2
<1>5. K!IsList(K!Advanced) /\ Len(K!Advanced) = Len(stack)
    BY <1>1, <1>4, ListOf
<1> QED BY <1>3, <1>5 DEF later

LEMMA SkipVisitedStep == GraphInv /\ K!SkipVisited => GraphInv'
<1> SUFFICES ASSUME GraphInv, K!SkipVisited PROVE GraphInv'
    OBVIOUS
<1> DEFINE top == Len(stack)
<1>1. /\ phase = "acyclic" /\ stack # << >> /\ K!Top.next <= Len(K!dependencies(K!Top.index))
      /\ states[K!Dependency] = "Visited" /\ stack' = K!Advanced
      /\ UNCHANGED <<definition, phase, states, degree, ready, order, resolved, queue,
                     reachable, verdict>>
    BY DEF K!SkipVisited, K!Looking, K!sort, K!reach
<1>2. GraphChecked /\ MarksSound(states, stack) /\ CallsSound(states, stack)
    BY <1>1 DEF GraphInv, GraphChecked, ReferencesSound, Naming, Binding, Searching
<1>3. /\ top \in Nat \ {0} /\ DOMAIN stack = 1 .. top /\ K!Top = stack[top]
      /\ K!Top.index \in K!Indices /\ K!Top.next \in Nat \ {0}
      /\ Len(K!dependencies(K!Top.index)) \in Nat /\ K!Dependency \in K!Indices
    BY <1>1, <1>2, TopCall DEF K!Top
<1>4. /\ K!IsList(K!Advanced) /\ DOMAIN K!Advanced = DOMAIN stack
      /\ K!Advanced[top] = [index |-> K!Top.index, next |-> K!Top.next + 1]
      /\ \A s \in DOMAIN stack : s # top => K!Advanced[s] = stack[s]
    BY <1>1, <1>2, AdvancedIs
<1>5. \A s \in DOMAIN stack : K!Advanced[s].index = stack[s].index
    BY <1>3, <1>4
<1>6. CallsSound(states, K!Advanced)
    <2>1. \A s \in DOMAIN stack :
              /\ K!Advanced[s] = [index |-> K!Advanced[s].index, next |-> K!Advanced[s].next]
              /\ K!Advanced[s].index \in K!Indices
              /\ K!Advanced[s].next \in 1 .. Len(K!dependencies(K!Advanced[s].index)) + 1
        <3> SUFFICES ASSUME NEW s \in DOMAIN stack
                     PROVE  /\ K!Advanced[s] = [index |-> K!Advanced[s].index, next |-> K!Advanced[s].next]
                            /\ K!Advanced[s].index \in K!Indices
                            /\ K!Advanced[s].next \in 1 .. Len(K!dependencies(K!Advanced[s].index)) + 1
            OBVIOUS
        <3>1. CASE s = top
            <4>1. K!Advanced[s].index = K!Top.index /\ K!Advanced[s].next = K!Top.next + 1
                BY <1>4, <3>1
            <4> QED BY <1>1, <1>3, <1>4, <3>1, <4>1
        <3>2. CASE s # top
            BY <1>2, <1>4, <3>2 DEF CallsSound
        <3> QED BY <3>1, <3>2
    <2>2. \A s, t \in DOMAIN stack : K!Advanced[s].index = K!Advanced[t].index => s = t
        BY <1>2, <1>5 DEF CallsSound
    <2>3. \A s \in DOMAIN stack : s + 1 \in DOMAIN stack =>
              /\ K!Advanced[s].next > 1
              /\ K!Advanced[s + 1].index = K!dependencies(K!Advanced[s].index)[K!Advanced[s].next - 1]
        <3> SUFFICES ASSUME NEW s \in DOMAIN stack, s + 1 \in DOMAIN stack
                     PROVE  /\ K!Advanced[s].next > 1
                            /\ K!Advanced[s + 1].index
                                  = K!dependencies(K!Advanced[s].index)[K!Advanced[s].next - 1]
            OBVIOUS
        <3>1. s # top
            BY <1>3
        <3>2. K!Advanced[s] = stack[s] /\ K!Advanced[s + 1].index = stack[s + 1].index
            BY <1>4, <1>5, <3>1
        <3> QED BY <1>2, <3>2 DEF CallsSound
    <2>4. \A s \in DOMAIN stack : \A p \in 1 .. K!Advanced[s].next - 1 :
              \/ K!dependencies(K!Advanced[s].index)[p] \in VisitedIn(states)
              \/ s + 1 \in DOMAIN stack /\ p = K!Advanced[s].next - 1
        <3> SUFFICES ASSUME NEW s \in DOMAIN stack, NEW p \in 1 .. K!Advanced[s].next - 1
                     PROVE  \/ K!dependencies(K!Advanced[s].index)[p] \in VisitedIn(states)
                            \/ s + 1 \in DOMAIN stack /\ p = K!Advanced[s].next - 1
            OBVIOUS
        <3>1. CASE s # top
            BY <1>2, <1>4, <3>1 DEF CallsSound
        <3>2. CASE s = top
            <4>1. K!Advanced[s].index = K!Top.index /\ p \in 1 .. K!Top.next /\ s + 1 \notin DOMAIN stack
                BY <1>3, <1>4, <3>2
            <4>2. CASE p = K!Top.next
                BY <1>1, <1>3, <4>1, <4>2 DEF VisitedIn, K!Dependency
            <4>3. CASE p # K!Top.next
                <5>1. p \in 1 .. K!Top.next - 1
                    BY <1>3, <4>1, <4>3
                <5>2. p \in 1 .. stack[s].next - 1 /\ stack[s].index = K!Top.index
                    BY <1>3, <3>2, <5>1
                <5> QED BY <1>2, <4>1, <5>2 DEF CallsSound
            <4> QED BY <4>2, <4>3
        <3> QED BY <3>1, <3>2
    <2> QED BY <1>4, <2>1, <2>2, <2>3, <2>4 DEF CallsSound
<1>7. MarksSound(states, K!Advanced)
    BY <1>2, <1>4, <1>5 DEF MarksSound
<1> QED BY <1>1, <1>6, <1>7, SearchStep

LEMMA VisitRootStep == GraphInv /\ K!VisitRoot => GraphInv'
<1> SUFFICES ASSUME GraphInv, K!VisitRoot PROVE GraphInv'
    OBVIOUS
<1> DEFINE unvisited == {i \in K!Indices : states[i] = "Unvisited"}
           root == K!Smallest(unvisited)
           calls == <<K!Call(root)>>
           marks == [states EXCEPT ![root] = "Visiting"]
<1>1. /\ phase = "acyclic" /\ stack = << >> /\ unvisited # {} /\ stack' = calls /\ states' = marks
      /\ UNCHANGED <<definition, phase, degree, ready, order, resolved, queue, reachable, verdict>>
    BY DEF K!VisitRoot, K!sort, K!reach
<1>2. GraphChecked /\ MarksSound(states, stack) /\ K!Indices \subseteq Nat
    BY <1>1, GraphShape DEF GraphInv, GraphChecked, ReferencesSound, Naming, Binding, Searching
<1>3. root \in K!Indices /\ states[root] = "Unvisited"
    <2>1. unvisited \in SUBSET Nat
        BY <1>2
    <2>2. root \in unvisited
        BY <1>1, <2>1, SmallestIn
    <2> QED BY <2>2
<1> HIDE DEF root
<1>4. /\ DOMAIN calls = {1} /\ calls[1] = [index |-> root, next |-> 1] /\ 1 + 1 \notin DOMAIN calls
      /\ K!IsList(calls)
    <2>1. DOMAIN calls = {1} /\ calls[1] = [index |-> root, next |-> 1]
        BY DEF K!Call
    <2>2. calls = [k \in 1 .. 1 |-> calls[k]]
        BY <2>1
    <2> HIDE DEF calls
    <2>3. K!IsList(calls)
        BY <2>2, ListOf, 1 \in Nat
    <2> QED BY <2>1, <2>3
<1> HIDE DEF calls
<1>5. \A i \in K!Indices : marks[i] = IF i = root THEN "Visiting" ELSE states[i]
    BY <1>2 DEF MarksSound
<1>6. marks \in [K!Indices -> {"Unvisited", "Visiting", "Visited"}]
    BY <1>2 DEF MarksSound
<1> HIDE DEF marks
<1>7. VisitedIn(marks) = VisitedIn(states)
    BY <1>3, <1>5 DEF VisitedIn
<1>8. MarksSound(marks, calls)
    <2>1. \A i \in K!Indices : states[i] # "Visiting"
        BY <1>1, <1>2 DEF MarksSound
    <2>2. \A i \in K!Indices : marks[i] = "Visiting" <=> i = root
        BY <1>5, <2>1
    <2>3. \A i \in K!Indices : (\E s \in DOMAIN calls : calls[s].index = i) <=> i = root
        BY <1>4
    <2> QED BY <1>2, <1>6, <1>7, <2>2, <2>3 DEF MarksSound
<1>9. CallsSound(marks, calls)
    <2>1. Len(K!dependencies(root)) \in Nat
        BY <1>2, <1>3, DependencyList, ListFacts DEF GraphChecked
    <2>2. 1 \in 1 .. Len(K!dependencies(root)) + 1
        BY <2>1
    <2>3. 1 .. 1 - 1 = {}
        OBVIOUS
    <2> QED BY <1>3, <1>4, <2>2, <2>3 DEF CallsSound
<1> QED BY <1>1, <1>8, <1>9, SearchStep

\* A list without its last element.
LEMMA ListFront ==
    ASSUME NEW list, K!IsList(list), list # << >>
    PROVE  /\ K!IsList(SubSeq(list, 1, Len(list) - 1))
           /\ Len(list) \in Nat \ {0} /\ DOMAIN list = 1 .. Len(list)
           /\ DOMAIN SubSeq(list, 1, Len(list) - 1) = 1 .. (Len(list) - 1)
           /\ Len(SubSeq(list, 1, Len(list) - 1)) = Len(list) - 1
           /\ \A i \in 1 .. (Len(list) - 1) : SubSeq(list, 1, Len(list) - 1)[i] = list[i]
<1> DEFINE front == SubSeq(list, 1, Len(list) - 1)
<1>1. Len(list) \in Nat \ {0} /\ DOMAIN list = 1 .. Len(list)
    BY ListTail
<1>2. front = [i \in 1 .. (Len(list) - 1) |-> list[i]]
    BY <1>1
<1> HIDE DEF front
<1>3. /\ DOMAIN front = 1 .. (Len(list) - 1)
      /\ \A i \in 1 .. (Len(list) - 1) : front[i] = list[i]
    BY <1>2
<1>4. front = [i \in 1 .. (Len(list) - 1) |-> front[i]] /\ Len(list) - 1 \in Nat
    BY <1>1, <1>2
<1>5. K!IsList(front) /\ Len(front) = Len(list) - 1
    BY <1>4, ListOf
<1> QED BY <1>1, <1>3, <1>5 DEF front

LEMMA VisitDependencyStep == GraphInv /\ K!VisitDependency => GraphInv'
<1> SUFFICES ASSUME GraphInv, K!VisitDependency PROVE GraphInv'
    OBVIOUS
<1> DEFINE top == Len(stack)
           new == K!Dependency
           calls == Append(K!Advanced, K!Call(new))
           marks == [states EXCEPT ![new] = "Visiting"]
<1>1. /\ phase = "acyclic" /\ stack # << >> /\ K!Top.next <= Len(K!dependencies(K!Top.index))
      /\ states[new] = "Unvisited" /\ stack' = calls /\ states' = marks
      /\ UNCHANGED <<definition, phase, degree, ready, order, resolved, queue, reachable, verdict>>
    BY DEF K!VisitDependency, K!Looking, K!sort, K!reach
<1>2. GraphChecked /\ MarksSound(states, stack) /\ CallsSound(states, stack)
    BY <1>1 DEF GraphInv, GraphChecked, ReferencesSound, Naming, Binding, Searching
<1>3. /\ top \in Nat \ {0} /\ DOMAIN stack = 1 .. top /\ K!Top = stack[top]
      /\ K!Top.index \in K!Indices /\ K!Top.next \in Nat \ {0}
      /\ Len(K!dependencies(K!Top.index)) \in Nat /\ new \in K!Indices
      /\ new = K!dependencies(K!Top.index)[K!Top.next]
    BY <1>1, <1>2, TopCall DEF K!Top, K!Dependency
<1>4. /\ K!IsList(K!Advanced) /\ DOMAIN K!Advanced = DOMAIN stack /\ Len(K!Advanced) = top
      /\ K!Advanced[top] = [index |-> K!Top.index, next |-> K!Top.next + 1]
      /\ \A s \in DOMAIN stack : s # top => K!Advanced[s] = stack[s]
    BY <1>1, <1>2, AdvancedIs
<1> HIDE DEF new
<1>5. /\ K!IsList(calls) /\ DOMAIN calls = 1 .. top + 1
      /\ \A s \in 1 .. top - 1 : calls[s] = stack[s]
      /\ calls[top] = [index |-> K!Top.index, next |-> K!Top.next + 1]
      /\ calls[top + 1] = [index |-> new, next |-> 1]
    <2>1. /\ K!IsList(calls) /\ DOMAIN calls = 1 .. top + 1
          /\ \A s \in DOMAIN K!Advanced : calls[s] = K!Advanced[s]
          /\ calls[top + 1] = K!Call(new)
        BY <1>4, ListAppend
    <2> HIDE DEF calls
    <2> QED BY <1>3, <1>4, <2>1 DEF K!Call
<1> HIDE DEF calls
<1>6. \A i \in K!Indices : marks[i] = IF i = new THEN "Visiting" ELSE states[i]
    BY <1>2 DEF MarksSound
<1>7. marks \in [K!Indices -> {"Unvisited", "Visiting", "Visited"}]
    BY <1>2 DEF MarksSound
<1> HIDE DEF marks
<1>8. VisitedIn(marks) = VisitedIn(states)
    BY <1>1, <1>3, <1>6 DEF VisitedIn
<1>9. \A s \in DOMAIN stack : stack[s].index # new /\ stack[s].index \in K!Indices
    <2>1. \A s \in DOMAIN stack : stack[s].index \in K!Indices
        BY <1>2 DEF CallsSound
    <2>2. \A s \in DOMAIN stack : states[stack[s].index] = "Visiting"
        BY <1>2, <2>1 DEF MarksSound
    <2> QED BY <1>1, <2>1, <2>2
<1>10. \A s \in DOMAIN stack : s \in DOMAIN calls /\ calls[s].index = stack[s].index
    BY <1>3, <1>5
<1>11. MarksSound(marks, calls)
    <2>1. ASSUME NEW i \in K!Indices
          PROVE  marks[i] = "Visiting" <=> \E s \in DOMAIN calls : calls[s].index = i
        <3>1. CASE i = new
            BY <1>3, <1>5, <1>6, <3>1
        <3>2. CASE i # new
            <4>1. \A s \in DOMAIN calls : calls[s].index = i => s \in DOMAIN stack
                BY <1>3, <1>5, <3>2
            <4>2. (\E s \in DOMAIN calls : calls[s].index = i)
                     <=> (\E s \in DOMAIN stack : stack[s].index = i)
                BY <1>10, <4>1
            <4> QED BY <1>2, <1>6, <3>2, <4>2 DEF MarksSound
        <3> QED BY <3>1, <3>2
    <2> QED BY <1>2, <1>7, <1>8, <2>1 DEF MarksSound
<1>12. CallsSound(marks, calls)
    <2>0. \A s \in DOMAIN calls : s \in 1 .. top - 1 \/ s = top \/ s = top + 1
        BY <1>3, <1>5
    <2>1. ASSUME NEW s \in DOMAIN calls
          PROVE  /\ calls[s] = [index |-> calls[s].index, next |-> calls[s].next]
                 /\ calls[s].index \in K!Indices
                 /\ calls[s].next \in 1 .. Len(K!dependencies(calls[s].index)) + 1
        <3>1. CASE s \in 1 .. top - 1
            <4>1. s \in DOMAIN stack /\ calls[s] = stack[s]
                BY <1>3, <1>5, <3>1
            <4> QED BY <1>2, <4>1 DEF CallsSound
        <3>2. CASE s = top
            <4>1. calls[s].index = K!Top.index /\ calls[s].next = K!Top.next + 1
                BY <1>5, <3>2
            <4> QED BY <1>1, <1>3, <1>5, <3>2, <4>1
        <3>3. CASE s = top + 1
            <4>1. Len(K!dependencies(new)) \in Nat
                BY <1>2, <1>3, DependencyList, ListFacts DEF GraphChecked
            <4>2. calls[s].index = new /\ calls[s].next = 1
                BY <1>5, <3>3
            <4> QED BY <1>3, <1>5, <3>3, <4>1, <4>2
        <3> QED BY <2>0, <3>1, <3>2, <3>3
    <2>2. \A s, t \in DOMAIN calls : calls[s].index = calls[t].index => s = t
        <3>1. \A s \in DOMAIN calls : s \in DOMAIN stack \/ (s = top + 1 /\ calls[s].index = new)
            BY <1>3, <1>5
        <3>2. \A s, t \in DOMAIN stack : stack[s].index = stack[t].index => s = t
            BY <1>2 DEF CallsSound
        <3> QED BY <1>9, <1>10, <3>1, <3>2
    <2>3. ASSUME NEW s \in DOMAIN calls, s + 1 \in DOMAIN calls
          PROVE  /\ calls[s].next > 1
                 /\ calls[s + 1].index = K!dependencies(calls[s].index)[calls[s].next - 1]
        <3>1. CASE s = top
            <4>1. calls[s].index = K!Top.index /\ calls[s].next = K!Top.next + 1
                  /\ calls[s + 1].index = new
                BY <1>5, <3>1
            <4>2. K!Top.next + 1 - 1 = K!Top.next /\ K!Top.next + 1 > 1
                BY <1>3
            <4> QED BY <1>3, <4>1, <4>2
        <3>2. CASE s # top
            <4>1. s \in DOMAIN stack /\ s + 1 \in DOMAIN stack /\ calls[s] = stack[s]
                BY <1>3, <1>5, <2>3, <3>2
            <4>2. calls[s + 1].index = stack[s + 1].index
                BY <1>10, <4>1
            <4> QED BY <1>2, <4>1, <4>2 DEF CallsSound
        <3> QED BY <3>1, <3>2
    <2>4. ASSUME NEW s \in DOMAIN calls, NEW p \in 1 .. calls[s].next - 1
          PROVE  \/ K!dependencies(calls[s].index)[p] \in VisitedIn(states)
                 \/ s + 1 \in DOMAIN calls /\ p = calls[s].next - 1
        <3>1. CASE s \in 1 .. top - 1
            <4>1. s \in DOMAIN stack /\ calls[s] = stack[s] /\ s + 1 \in DOMAIN calls
                BY <1>3, <1>5, <3>1
            <4> QED BY <1>2, <4>1 DEF CallsSound
        <3>2. CASE s = top
            <4>1. calls[s].index = K!Top.index /\ calls[s].next = K!Top.next + 1 /\ s + 1 \in DOMAIN calls
                BY <1>3, <1>5, <3>2
            <4>2. CASE p = K!Top.next
                BY <1>3, <4>1, <4>2
            <4>3. CASE p # K!Top.next
                <5>1. p \in 1 .. stack[top].next - 1 /\ stack[top].index = K!Top.index
                    BY <1>3, <4>1, <4>3
                <5>2. top + 1 \notin DOMAIN stack /\ top \in DOMAIN stack
                    BY <1>3
                <5> QED BY <1>2, <4>1, <5>1, <5>2 DEF CallsSound
            <4> QED BY <4>2, <4>3
        <3>3. CASE s = top + 1
            BY <1>5, <3>3
        <3> QED BY <2>0, <3>1, <3>2, <3>3
    <2> QED BY <1>5, <1>8, <2>1, <2>2, <2>3, <2>4 DEF CallsSound
<1> QED BY <1>1, <1>11, <1>12, SearchStep

\* A node that has read only grounded ones is grounded with them.
LEMMA GroundedGrows ==
    ASSUME NEW S, Grounded(S), NEW i, i \notin S, K!Reads(i) \subseteq S,
           \A j \in S : K!Reads(j) \subseteq S
    PROVE  Grounded(S \cup {i})
<1> SUFFICES ASSUME NEW T \in SUBSET (S \cup {i}), T # {}
             PROVE  \E j \in T : K!Reads(j) \cap T = {}
    BY DEF Grounded
<1>1. CASE T \cap S = {}
    <2>1. i \in T /\ K!Reads(i) \cap T = {}
        BY <1>1
    <2> QED BY <2>1
<1>2. CASE T \cap S # {}
    <2>1. PICK j \in T \cap S : K!Reads(j) \cap (T \cap S) = {}
        BY <1>2 DEF Grounded
    <2>2. K!Reads(j) \cap T = {}
        BY <2>1
    <2> QED BY <2>1, <2>2
<1> QED BY <1>1, <1>2

LEMMA FinishVisitStep == GraphInv /\ K!FinishVisit => GraphInv'
<1> SUFFICES ASSUME GraphInv, K!FinishVisit PROVE GraphInv'
    OBVIOUS
<1> DEFINE top == Len(stack)
           done == K!Top.index
           calls == SubSeq(stack, 1, Len(stack) - 1)
           marks == [states EXCEPT ![done] = "Visited"]
<1>1. /\ phase = "acyclic" /\ stack # << >> /\ ~(K!Top.next <= Len(K!dependencies(K!Top.index)))
      /\ stack' = calls /\ states' = marks
      /\ UNCHANGED <<definition, phase, degree, ready, order, resolved, queue, reachable, verdict>>
    BY DEF K!FinishVisit, K!Looking, K!sort, K!reach
<1>2. GraphChecked /\ MarksSound(states, stack) /\ CallsSound(states, stack)
    BY <1>1 DEF GraphInv, GraphChecked, ReferencesSound, Naming, Binding, Searching
<1>3. /\ top \in Nat \ {0} /\ DOMAIN stack = 1 .. top /\ K!Top = stack[top]
      /\ done \in K!Indices /\ K!Top.next \in Nat \ {0} /\ K!Top.next <= Len(K!dependencies(done)) + 1
      /\ Len(K!dependencies(done)) \in Nat
      /\ DOMAIN K!dependencies(done) = 1 .. Len(K!dependencies(done))
      /\ K!Reads(done) = {K!dependencies(done)[p] : p \in DOMAIN K!dependencies(done)}
    BY <1>1, <1>2, TopCall DEF K!Top
<1>4. /\ K!IsList(calls) /\ DOMAIN calls = 1 .. top - 1
      /\ \A s \in 1 .. top - 1 : calls[s] = stack[s]
    BY <1>1, <1>2, ListFront DEF CallsSound
<1> HIDE DEF calls
<1>5. K!Top.next = Len(K!dependencies(done)) + 1
    BY <1>1, <1>3
<1>6. K!Reads(done) \subseteq VisitedIn(states)
    <2>1. top \in DOMAIN stack /\ top + 1 \notin DOMAIN stack
        BY <1>3
    <2>2. \A p \in 1 .. K!Top.next - 1 : K!dependencies(done)[p] \in VisitedIn(states)
        BY <1>2, <1>3, <2>1 DEF CallsSound
    <2>3. \A p \in DOMAIN K!dependencies(done) : p \in 1 .. K!Top.next - 1
        BY <1>3, <1>5
    <2> QED BY <1>3, <2>2, <2>3
<1>7. states[done] = "Visiting"
    <2>1. top \in DOMAIN stack /\ stack[top].index = done
        BY <1>3
    <2> QED BY <1>2, <1>3, <2>1 DEF MarksSound
<1>8. \A i \in K!Indices : marks[i] = IF i = done THEN "Visited" ELSE states[i]
    BY <1>2 DEF MarksSound
<1>9. marks \in [K!Indices -> {"Unvisited", "Visiting", "Visited"}]
    BY <1>2 DEF MarksSound
<1> HIDE DEF marks
<1>10. VisitedIn(marks) = VisitedIn(states) \cup {done} /\ done \notin VisitedIn(states)
    BY <1>3, <1>7, <1>8 DEF VisitedIn
<1>11. \A s \in DOMAIN calls : s \in DOMAIN stack /\ calls[s] = stack[s] /\ s # top
    BY <1>3, <1>4
<1>12. \A s \in DOMAIN stack : s # top => s \in DOMAIN calls
    BY <1>3, <1>4
<1>13. MarksSound(marks, calls)
    <2>1. ASSUME NEW i \in K!Indices
          PROVE  marks[i] = "Visiting" <=> \E s \in DOMAIN calls : calls[s].index = i
        <3>1. CASE i = done
            <4>1. \A s \in DOMAIN calls : calls[s].index # done
                <5>1. \A s \in DOMAIN stack : stack[s].index = stack[top].index => s = top
                    <6>1. top \in DOMAIN stack
                        BY <1>3
                    <6>2. \A s, t \in DOMAIN stack : stack[s].index = stack[t].index => s = t
                        BY <1>2 DEF CallsSound
                    <6> QED BY <6>1, <6>2
                <5>2. \A s \in DOMAIN calls : s \in DOMAIN stack /\ calls[s].index = stack[s].index /\ s # top
                    BY <1>11
                <5>3. stack[top].index = done
                    BY <1>3
                <5> QED BY <5>1, <5>2, <5>3
            <4> QED BY <1>8, <3>1, <4>1
        <3>2. CASE i # done
            <4>1. \A s \in DOMAIN stack : stack[s].index = i => s # top
                BY <1>3, <3>2
            <4>2. (\E s \in DOMAIN calls : calls[s].index = i)
                     <=> (\E s \in DOMAIN stack : stack[s].index = i)
                BY <1>11, <1>12, <4>1
            <4> QED BY <1>2, <1>8, <3>2, <4>2 DEF MarksSound
        <3> QED BY <3>1, <3>2
    <2>2. \A i \in VisitedIn(states) : K!Reads(i) \subseteq VisitedIn(states)
        BY <1>2 DEF MarksSound
    <2>3. Grounded(VisitedIn(marks))
        BY <1>2, <1>6, <1>10, <2>2, GroundedGrows DEF MarksSound
    <2> QED BY <1>6, <1>9, <1>10, <2>1, <2>2, <2>3 DEF MarksSound
<1>14. CallsSound(marks, calls)
    <2>1. ASSUME NEW s \in DOMAIN calls
          PROVE  /\ calls[s] = [index |-> calls[s].index, next |-> calls[s].next]
                 /\ calls[s].index \in K!Indices
                 /\ calls[s].next \in 1 .. Len(K!dependencies(calls[s].index)) + 1
        BY <1>2, <1>11 DEF CallsSound
    <2>2. \A s, t \in DOMAIN calls : calls[s].index = calls[t].index => s = t
        BY <1>2, <1>11 DEF CallsSound
    <2>3. \A s \in DOMAIN calls : s + 1 \in DOMAIN calls =>
              /\ calls[s].next > 1
              /\ calls[s + 1].index = K!dependencies(calls[s].index)[calls[s].next - 1]
        BY <1>2, <1>11 DEF CallsSound
    <2>4. ASSUME NEW s \in DOMAIN calls, NEW p \in 1 .. calls[s].next - 1
          PROVE  \/ K!dependencies(calls[s].index)[p] \in VisitedIn(marks)
                 \/ s + 1 \in DOMAIN calls /\ p = calls[s].next - 1
        <3>1. s \in DOMAIN stack /\ calls[s] = stack[s] /\ s # top
            BY <1>11
        <3>2. \/ K!dependencies(calls[s].index)[p] \in VisitedIn(states)
              \/ s + 1 \in DOMAIN stack /\ p = calls[s].next - 1
            BY <1>2, <3>1 DEF CallsSound
        <3>3. CASE s + 1 # top
            BY <1>10, <1>12, <3>2, <3>3
        <3>4. CASE s + 1 = top /\ p = calls[s].next - 1
            <4>1. K!dependencies(calls[s].index)[p] = stack[top].index
                BY <1>2, <1>3, <3>1, <3>4 DEF CallsSound
            <4> QED BY <1>3, <1>10, <4>1
        <3>5. CASE p # calls[s].next - 1
            BY <1>10, <3>2, <3>5
        <3> QED BY <3>3, <3>4, <3>5
    <2> QED BY <1>4, <2>1, <2>2, <2>3, <2>4 DEF CallsSound
<1> QED BY <1>1, <1>13, <1>14, SearchStep

\* The definition is kept, and so is what the order says of it.
LEMMA SameOrder ==
    ASSUME definition' = definition, order' = order, order # << >> => K!OrderIsStable
    PROVE  order' # << >> => K!OrderIsStable'
<1>1. \A n : K!Listed(n)' = K!Listed(n)
    BY DEF K!Listed
<1> DEFINE before(n) == {i \in K!Indices \ K!Listed(n - 1) : K!Reads(i) \subseteq K!Listed(n - 1)}
           after(n) == {i \in K!Indices' \ K!Listed(n - 1)' : K!Reads(i)' \subseteq K!Listed(n - 1)'}
<1>2. \A n : after(n) = before(n)
    BY <1>1, SameGraph
<1>3. order # << >> => \A n \in DOMAIN order : order[n] = K!Smallest(before(n))
    BY DEF K!OrderIsStable
<1>4. order # << >> => \A n \in DOMAIN order' : order'[n] = K!Smallest(after(n))
    BY <1>2, <1>3
<1> QED BY <1>4 DEF K!OrderIsStable, K!Smallest

\* A step that rejects the definition.
LEMMA RejectStep ==
    ASSUME GraphInv, phase' = "rejected", definition' = definition, order' = order,
           verdict'.error = "Cycle" => K!CycleIsReal',
           verdict'.error = "UnreachableNode" =>
               \E S \in K!Contributing' : K!node_index(verdict.id)' \notin S
    PROVE  GraphInv'
<1>1. K!IsProfile(definition)'
    BY DEF GraphInv
<1>2. /\ phase' \in Passes /\ phase' \notin Naming /\ phase' \notin Binding
      /\ phase' \notin Searching /\ phase' \notin Sorting /\ phase' \notin Typing
      /\ phase' \notin Reaching /\ phase' \notin {"acyclic", "sort", "reach", "accepted"}
      /\ phase' \notin Indexing \cup {"outputs", "operands"}
    BY DEF Passes, Indexing, Naming, Binding, Searching, Sorting, Typing, Reaching, Accepting
<1>3. ReferencesSound'
    BY <1>2 DEF ReferencesSound
<1>4. Untouched'
    BY <1>2 DEF Untouched
<1>5. order' # << >> => K!OrderIsStable'
    BY SameOrder DEF GraphInv
<1> QED BY <1>1, <1>2, <1>3, <1>4, <1>5 DEF GraphInv

LEMMA ReportCycleStep == GraphInv /\ K!ReportCycle => GraphInv'
<1> SUFFICES ASSUME GraphInv, K!ReportCycle PROVE GraphInv'
    OBVIOUS
<1> DEFINE top == Len(stack)
           again == K!Dependency
<1>1. /\ phase = "acyclic" /\ stack # << >> /\ K!Top.next <= Len(K!dependencies(K!Top.index))
      /\ states[again] = "Visiting" /\ definition' = definition /\ order' = order
      /\ phase' = "rejected" /\ verdict' = K!Defect("Cycle", << >>, K!cycle_path)
    BY DEF K!ReportCycle, K!Looking, K!on_cycle, K!Conclude, K!sort
<1>2. GraphChecked /\ MarksSound(states, stack) /\ CallsSound(states, stack)
    BY <1>1 DEF GraphInv, GraphChecked, ReferencesSound, Naming, Binding, Searching
<1>3. /\ top \in Nat \ {0} /\ DOMAIN stack = 1 .. top /\ K!Top = stack[top]
      /\ K!Top.index \in K!Indices /\ again \in K!Indices /\ again \in K!Reads(K!Top.index)
    BY <1>1, <1>2, TopCall DEF K!Top
<1> HIDE DEF again
<1> DEFINE start == {s \in DOMAIN stack : stack[s].index = again}
           from == K!Smallest(start)
<1>4. from \in 1 .. top /\ stack[from].index = again /\ start # {}
    <2>1. start # {} /\ start \in SUBSET Nat
        BY <1>1, <1>2, <1>3 DEF MarksSound
    <2>2. from \in start
        BY <2>1, SmallestIn
    <2> QED BY <1>3, <2>1, <2>2
<1> DEFINE size == top - from + 2
           path == [s \in 1 .. size |-> IF s = size THEN again ELSE stack[from + s - 1].index]
<1>5. K!cycle_path = path
    <2>1. (IF start = {} THEN Len(stack) ELSE K!Smallest(start)) = from
        BY <1>4
    <2> QED BY <2>1 DEF K!cycle_path, again
<1> HIDE DEF from
<1>6. size \in Nat /\ size > 1
    BY <1>3, <1>4
<1>7. Len(path) = size
    <2>1. DOMAIN path = 1 .. size /\ path = [s \in 1 .. size |-> path[s]]
        OBVIOUS
    <2> HIDE DEF path
    <2> QED BY <1>6, <2>1, ListOf
<1>8. /\ path[size] = again
      /\ \A s \in 1 .. size - 1 : path[s] = stack[from + s - 1].index /\ from + s - 1 \in 1 .. top
    BY <1>3, <1>4, <1>6
<1> HIDE DEF path
<1>9. path[1] = path[size]
    BY <1>4, <1>6, <1>8
<1>10. \A s, t \in 1 .. size - 1 : s # t => path[s] # path[t]
    <2> SUFFICES ASSUME NEW s \in 1 .. size - 1, NEW t \in 1 .. size - 1, path[s] = path[t]
                 PROVE  s = t
        OBVIOUS
    <2>1. stack[from + s - 1].index = stack[from + t - 1].index
        BY <1>8
    <2>2. from + s - 1 = from + t - 1
        BY <1>2, <1>3, <1>8, <2>1 DEF CallsSound
    <2> QED BY <1>3, <1>4, <1>6, <2>2
<1>11. \A s \in 1 .. size - 1 : path[s + 1] \in K!Reads(path[s])
    <2> SUFFICES ASSUME NEW s \in 1 .. size - 1 PROVE path[s + 1] \in K!Reads(path[s])
        OBVIOUS
    <2>1. CASE s = size - 1
        <3>1. s + 1 = size /\ from + s - 1 = top
            BY <1>3, <1>4, <1>6, <2>1
        <3> QED BY <1>3, <1>8, <3>1
    <2>2. CASE s # size - 1
        <3> DEFINE k == from + s - 1
        <3>1. s + 1 \in 1 .. size - 1 /\ from + (s + 1) - 1 = k + 1 /\ k \in Nat
            BY <1>3, <1>4, <1>6, <2>2
        <3>2. k \in DOMAIN stack /\ k + 1 \in DOMAIN stack
            BY <1>3, <1>8, <3>1
        <3>3. path[s] = stack[k].index /\ path[s + 1] = stack[k + 1].index
            BY <1>8, <3>1
        <3> HIDE DEF k
        <3>4. /\ stack[k].next > 1 /\ stack[k].index \in K!Indices
              /\ stack[k + 1].index = K!dependencies(stack[k].index)[stack[k].next - 1]
              /\ stack[k].next \in 1 .. Len(K!dependencies(stack[k].index)) + 1
            BY <1>2, <3>2 DEF CallsSound
        <3>5. /\ K!IsList(K!dependencies(stack[k].index))
              /\ K!Reads(stack[k].index) = {K!dependencies(stack[k].index)[p] :
                                             p \in DOMAIN K!dependencies(stack[k].index)}
            BY <1>2, <3>4, DependencyList DEF GraphChecked
        <3>6. /\ Len(K!dependencies(stack[k].index)) \in Nat
              /\ DOMAIN K!dependencies(stack[k].index) = 1 .. Len(K!dependencies(stack[k].index))
            BY <3>5, ListFacts
        <3>7. stack[k].next - 1 \in DOMAIN K!dependencies(stack[k].index)
            BY <3>4, <3>6, SMTT(30)
        <3> QED BY <3>3, <3>4, <3>5, <3>7
    <2> QED BY <2>1, <2>2
<1>12. verdict'.path = path /\ verdict'.error = "Cycle"
    BY <1>1, <1>5 DEF K!Defect
<1>13. K!CycleIsReal'
    <2>1. /\ Len(verdict'.path) > 1 /\ verdict'.path[1] = verdict'.path[Len(verdict'.path)]
          /\ \A s, t \in 1 .. Len(verdict'.path) - 1 : s # t => verdict'.path[s] # verdict'.path[t]
        BY <1>6, <1>7, <1>9, <1>10, <1>12
    <2>2. \A s \in 1 .. Len(verdict'.path) - 1 : verdict'.path[s + 1] \in K!Reads(verdict'.path[s])
        BY <1>7, <1>11, <1>12
    <2>3. \A i : K!Reads(i)' = K!Reads(i)
        BY <1>1, SameGraph
    <2> QED BY <2>1, <2>2, <2>3 DEF K!CycleIsReal
<1> QED BY <1>1, <1>12, <1>13, RejectStep

LEMMA OperandsStep == GraphInv /\ K!ValidateOperandReferences => GraphInv'
<1> SUFFICES ASSUME GraphInv, K!ValidateOperandReferences PROVE GraphInv'
    OBVIOUS
<1>0. K!IsProfile(definition) /\ K!Indices \subseteq Nat
      /\ \A i \in K!Indices : DOMAIN K!operands(i) \subseteq Nat
    BY GraphShape DEF GraphInv
<1> DEFINE looked(i) == [p \in DOMAIN K!operands(i) |->
               IF ~K!Known(K!operands(i)[p].id) THEN K!Defect("UnknownOperand", K!Nodes[i].id, << >>)
               ELSE IF K!Nodes[K!node_index(K!operands(i)[p].id)].kind = "finding"
               THEN K!Defect("FindingOperand", K!Nodes[i].id, << >>) ELSE K!None]
           all == [i \in K!Indices |-> K!operand_defect(i)]
           defect == K!FirstOf(all)
<1>1. \A i : K!operand_defect(i) = K!FirstOf(looked(i))
    BY DEF K!operand_defect
<1>2. \A i \in K!Indices : DOMAIN looked(i) \subseteq Nat /\ \A p \in DOMAIN looked(i) : PlainDefect(looked(i)[p])
    BY <1>0, PlainDefects
<1>3. \A i \in K!Indices : PlainDefect(K!operand_defect(i))
    <2> HIDE DEF looked
    <2> QED BY <1>1, <1>2, FirstPlain
<1>4. DOMAIN all \subseteq Nat /\ \A i \in DOMAIN all : PlainDefect(all[i]) /\ all[i] = K!operand_defect(i)
    BY <1>0, <1>3
<1>5. K!Conclude(defect, "acyclic") /\ phase = "operands"
      /\ UNCHANGED <<definition, states, stack, order, resolved, reachable>>
    BY DEF K!ValidateOperandReferences, K!search, K!sort, K!reach
<1> HIDE DEF all
<1>6. PlainDefect(defect)
    BY <1>4, FirstPlain
<1>7. ASSUME defect = K!None PROVE OperandsKnown
    <2>1. ASSUME NEW i \in K!Indices, NEW p \in DOMAIN K!operands(i)
          PROVE  K!dependencies(i)[p] \in K!Indices /\ K!Nodes[K!dependencies(i)[p]].kind # "finding"
        <3>1. K!FirstOf(looked(i)) = K!None
            <4>1. DOMAIN all = K!Indices
                BY DEF all
            <4> QED BY <1>1, <1>4, <1>7, <4>1, FirstDefect
        <3>2. \A q \in DOMAIN looked(i) : looked(i)[q] = K!None
            <4> HIDE DEF looked
            <4> QED BY <1>2, <3>1, FirstDefect
        <3>3. looked(i)[p] = K!None
            BY <3>2
        <3>4. K!Known(K!operands(i)[p].id) /\ K!Nodes[K!node_index(K!operands(i)[p].id)].kind # "finding"
            BY <3>3, DefectsDiffer
        <3>5. K!dependencies(i)[p] = K!node_index(K!operands(i)[p].id)
            BY DEF K!dependencies
        <3> QED BY <3>4, <3>5, KnownIndex
    <2> QED BY <2>1 DEF OperandsKnown
<1> HIDE DEF defect
<1>8. CASE defect # K!None
    <2>1. phase' = "rejected" /\ verdict' = defect
        BY <1>5, <1>8 DEF K!Conclude
    <2> QED BY <1>5, <1>6, <2>1, RejectStep DEF PlainDefect
<1>9. CASE defect = K!None
    <2>1. phase' = "acyclic" /\ verdict' = K!None
        BY <1>5, <1>9 DEF K!Conclude
    <2>2. GraphChecked
        BY <1>5, <1>7, <1>9 DEF GraphInv, GraphChecked, ReferencesSound, Naming, Binding
    <2>3. GraphChecked' /\ K!IsProfile(definition)'
        BY <1>5, <2>2, CheckedKept
    <2>4. ReferencesSound'
        BY <2>3 DEF ReferencesSound, GraphChecked
    <2>5. /\ states = [i \in K!Indices |-> "Unvisited"] /\ stack = << >> /\ order = << >>
          /\ resolved = << >> /\ reachable = {}
        BY <1>5 DEF GraphInv, Untouched, Sorting, Typing, Reaching, Accepting
    <2>6. Untouched'
        BY <1>5, <2>1, <2>5 DEF Untouched, Indexing
    <2>7. /\ phase' \in Passes /\ phase' \notin Sorting /\ phase' \notin Typing
          /\ phase' \notin Reaching /\ phase' \notin {"sort", "reach", "accepted"}
        BY <2>1 DEF Passes, Naming, Binding, Searching, Sorting, Typing, Reaching, Accepting
    <2>8. VisitedIn(states') = {}
        BY <1>5, <2>5 DEF VisitedIn
    <2>9. DOMAIN stack' = {}
        BY <1>5, <2>5
    <2>10. MarksSound(states', stack')
        BY <1>5, <2>5, <2>8, <2>9 DEF MarksSound, Grounded
    <2>11. CallsSound(states', stack')
        <3>1. K!IsList(stack')
            BY <1>5, <2>5 DEF K!IsList
        <3> QED BY <2>9, <3>1 DEF CallsSound
    <2>12. verdict'.error = "none"
        BY <2>1 DEF K!None, K!Defect
    <2> QED BY <1>5, <2>3, <2>4, <2>5, <2>6, <2>7, <2>10, <2>11, <2>12, SameSearch DEF GraphInv
<1> QED BY <1>8, <1>9

-----------------------------------------------------------------------------
(* The topological sort. *)

\* A step from a grounded definition to another phase of it.
LEMMA GroundedStep ==
    ASSUME K!IsProfile(definition), IdsUnique, OutputsKnown, OperandsKnown, Grounded(K!Indices),
           definition' = definition, phase' \in Sorting,
           verdict'.error = "Cycle" => K!CycleIsReal',
           verdict'.error = "UnreachableNode" =>
               \E S \in K!Contributing' : K!node_index(verdict.id)' \notin S,
           OrderSound', order' # << >> => K!OrderIsStable',
           phase' = "sort" => SortSound' /\ resolved' = << >>,
           phase' \in Typing => K!Listed(Len(order))' = K!Indices' /\ TypesSound',
           phase' \in Reaching => DOMAIN resolved' = K!Indices',
           phase' \notin Reaching => reachable' = {},
           phase' = "reach" => ReachSound',
           phase' = "accepted" => \A S \in K!Contributing' : S = K!Indices'
    PROVE  GraphInv'
<1>1. GraphChecked' /\ K!IsProfile(definition)'
    BY CheckedKept DEF GraphChecked
<1>2. ReferencesSound'
    BY <1>1 DEF ReferencesSound, GraphChecked
<1>3. phase' \in Passes /\ phase' # "acyclic" /\ phase' \notin Indexing \cup {"outputs", "operands"}
    BY DEF Passes, Naming, Binding, Searching, Sorting, Typing, Reaching, Accepting, Indexing
<1>4. Untouched'
    <2>1. phase' \notin Typing \cup {"rejected"} => phase' = "sort"
        BY DEF Sorting
    <2> QED BY <1>3, <2>1 DEF Untouched
<1>5. Grounded(K!Indices)'
    BY SameGraph, SameGrounded DEF Grounded
<1> QED BY <1>1, <1>2, <1>3, <1>4, <1>5 DEF GraphInv

\* A verdict that is kept is as right as before.
LEMMA SameVerdict ==
    ASSUME GraphInv, definition' = definition, verdict' = verdict
    PROVE  /\ verdict'.error = "Cycle" => K!CycleIsReal'
           /\ verdict'.error = "UnreachableNode" =>
                 \E S \in K!Contributing' : K!node_index(verdict.id)' \notin S
<1>1. verdict'.error = "Cycle" => K!CycleIsReal'
    BY SameGraph DEF GraphInv, K!CycleIsReal
<1> QED BY <1>1, SameGraph, SameContributing DEF GraphInv

\* What is known of a definition from the search on.
LEMMA SortingFacts ==
    ASSUME GraphInv, phase \in Sorting
    PROVE  /\ K!IsProfile(definition) /\ IdsUnique /\ OutputsKnown /\ OperandsKnown
           /\ Grounded(K!Indices) /\ OrderSound /\ GraphChecked
<1>1. phase \in Naming /\ phase \in Binding /\ phase \in Searching
    BY DEF Naming, Binding, Searching
<1> QED BY <1>1 DEF GraphInv, ReferencesSound, GraphChecked

LEMMA EdgesIs ==
    \A e : e \in K!edges <=>
        \E i \in K!Indices : \E p \in DOMAIN K!operands(i) :
            e = [source |-> K!dependencies(i)[p], target |-> i, operand |-> p]
<1> SUFFICES ASSUME NEW e
             PROVE  e \in K!edges <=>
                       \E i \in K!Indices : \E p \in DOMAIN K!operands(i) :
                           e = [source |-> K!dependencies(i)[p], target |-> i, operand |-> p]
    OBVIOUS
<1> DEFINE of(i) == {[source |-> K!dependencies(i)[p], target |-> i, operand |-> p] :
                        p \in DOMAIN K!operands(i)}
<1>1. K!edges = UNION {of(i) : i \in K!Indices}
    BY DEF K!edges
<1>2. \A i : e \in of(i) <=> \E p \in DOMAIN K!operands(i) :
          e = [source |-> K!dependencies(i)[p], target |-> i, operand |-> p]
    OBVIOUS
<1> HIDE DEF of
<1>3. e \in K!edges <=> \E i \in K!Indices : e \in of(i)
    BY <1>1
<1> QED BY <1>2, <1>3

LEMMA EdgesInto ==
    ASSUME K!IsProfile(definition), NEW i \in K!Indices
    PROVE  /\ IsFiniteSet({e \in K!edges : e.target = i})
           /\ \A e \in K!edges : e.target = i => e.source \in K!Reads(i)
           /\ \A j \in K!Reads(i) : \E e \in K!edges : e.target = i /\ e.source = j
<1> DEFINE edge(p) == [source |-> K!dependencies(i)[p], target |-> i, operand |-> p]
           into == {e \in K!edges : e.target = i}
           of == [p \in DOMAIN K!operands(i) |-> edge(p)]
<1>1. \A p : edge(p).target = i /\ edge(p).source = K!dependencies(i)[p]
    OBVIOUS
<1>2. ASSUME NEW e \in into PROVE \E p \in DOMAIN K!operands(i) : e = edge(p)
    <2>1. PICK k \in K!Indices : \E p \in DOMAIN K!operands(k) :
              e = [source |-> K!dependencies(k)[p], target |-> k, operand |-> p]
        BY <1>2, EdgesIs
    <2>2. k = i
        BY <1>2, <2>1
    <2> QED BY <2>1, <2>2
<1>3. \A p \in DOMAIN K!operands(i) : edge(p) \in K!edges
    BY EdgesIs
<1> HIDE DEF edge
<1>4. \A p \in DOMAIN K!operands(i) : edge(p) \in into
    BY <1>1, <1>3
<1>5. of \in Surjection(DOMAIN K!operands(i), into)
    BY <1>2, <1>4 DEF Surjection
<1>6. IsFiniteSet(DOMAIN K!operands(i))
    <2>1. Len(K!operands(i)) \in Nat /\ DOMAIN K!operands(i) = 1 .. Len(K!operands(i))
        BY GraphShape
    <2> QED BY <2>1, FS_Interval
<1>7. IsFiniteSet(into)
    BY <1>5, <1>6, FS_Surjection
<1>8. \A e \in K!edges : e.target = i => e.source \in K!Reads(i)
    BY <1>1, <1>2 DEF K!Reads
<1>9. \A j \in K!Reads(i) : \E e \in K!edges : e.target = i /\ e.source = j
    BY <1>1, <1>3 DEF K!Reads
<1> QED BY <1>7, <1>8, <1>9

\* A node without open operands has read only listed nodes.
LEMMA OpenIs ==
    ASSUME K!IsProfile(definition), NEW i \in K!Indices
    PROVE  /\ IsFiniteSet(OpenOperands(i)) /\ Cardinality(OpenOperands(i)) \in Nat
           /\ OpenOperands(i) = {} <=> K!Reads(i) \subseteq K!Listed(Len(order))
           /\ Cardinality(OpenOperands(i)) = 0 <=> OpenOperands(i) = {}
<1>1. OpenOperands(i) \in SUBSET {e \in K!edges : e.target = i}
    BY DEF OpenOperands
<1>2. IsFiniteSet(OpenOperands(i))
    BY <1>1, EdgesInto, FS_Subset
<1>3. Cardinality(OpenOperands(i)) \in Nat /\ (Cardinality(OpenOperands(i)) = 0 <=> OpenOperands(i) = {})
    BY <1>2, FS_CardinalityType, FS_EmptySet
<1>4. OpenOperands(i) = {} <=> K!Reads(i) \subseteq K!Listed(Len(order))
    BY EdgesInto DEF OpenOperands
<1> QED BY <1>2, <1>3, <1>4

edges_of(profile) ==
    UNION {{[source |-> [q \in DOMAIN profile.nodes[i].expression.operands |->
                            index_of(profile, profile.nodes[i].expression.operands[q].id)][p],
             target |-> i, operand |-> p] :
               p \in DOMAIN profile.nodes[i].expression.operands} : i \in DOMAIN profile.nodes}

LEMMA SameOpen ==
    ASSUME definition' = definition
    PROVE  /\ K!edges' = K!edges
           /\ \A i : OpenOperands(i)' = {e \in K!edges : e.target = i /\ e.source \notin K!Listed(Len(order))'}
           /\ Frontier' = {i \in K!Indices \ K!Listed(Len(order))' : K!Reads(i) \subseteq K!Listed(Len(order))'}
<1>1. K!edges' = K!edges
    <2>1. K!edges = edges_of(definition)
        BY DEF K!edges, edges_of, K!dependencies, K!operands, K!node_index, index_of, K!Indices, K!Nodes
    <2>2. K!edges' = edges_of(definition')
        BY DEF K!edges, edges_of, K!dependencies, K!operands, K!node_index, index_of, K!Indices, K!Nodes
    <2> QED BY <2>1, <2>2
<1>2. \A i : OpenOperands(i)' = {e \in K!edges' : e.target = i /\ e.source \notin K!Listed(Len(order))'}
    BY DEF OpenOperands
<1>3. Frontier' = {i \in K!Indices' \ K!Listed(Len(order))' : K!Reads(i)' \subseteq K!Listed(Len(order))'}
    BY DEF Frontier
<1> QED BY <1>1, <1>2, <1>3, SameGraph

LEMMA StartSortStep == GraphInv /\ K!StartSort => GraphInv'
<1> SUFFICES ASSUME GraphInv, K!StartSort PROVE GraphInv'
    OBVIOUS
<1> DEFINE counted == [i \in K!Indices |-> Cardinality({e \in K!edges : e.target = i})]
<1>1. /\ phase = "acyclic" /\ \A i \in K!Indices : states[i] = "Visited"
      /\ phase' = "sort" /\ degree' = counted /\ ready' = {i \in K!Indices : counted[i] = 0}
      /\ UNCHANGED <<definition, states, stack, order, resolved, queue, reachable, verdict>>
    BY GraphCounts DEF K!StartSort, K!search, K!reach
<1>2. GraphChecked /\ MarksSound(states, stack)
    BY <1>1 DEF GraphInv, GraphChecked, ReferencesSound, Naming, Binding, Searching
<1>3. Grounded(K!Indices)
    <2>1. VisitedIn(states) = K!Indices
        BY <1>1 DEF VisitedIn
    <2> QED BY <1>2, <2>1 DEF MarksSound
<1>4. order = << >> /\ resolved = << >> /\ reachable = {}
    BY <1>1 DEF GraphInv, Untouched, Sorting, Typing, Reaching, Accepting
<1>5. /\ verdict'.error = "Cycle" => K!CycleIsReal'
      /\ verdict'.error = "UnreachableNode" =>
            \E S \in K!Contributing' : K!node_index(verdict.id)' \notin S
    BY <1>1, SameVerdict
<1>6. K!Listed(Len(order)) = {} /\ K!Listed(Len(order))' = {}
    <2>1. Len(order) = 0 /\ Len(order') = 0 /\ 1 .. 0 = {}
        BY <1>1, <1>4
    <2> QED BY <2>1 DEF K!Listed
<1>7. OrderSound'
    BY <1>1, <1>4 DEF OrderSound, K!IsList
<1>8. \A i \in K!Indices : counted[i] = Cardinality(OpenOperands(i)) /\ OpenOperands(i)' = OpenOperands(i)
    <2>1. \A i : OpenOperands(i) = {e \in K!edges : e.target = i}
        BY <1>6 DEF OpenOperands
    <2>2. \A i : OpenOperands(i)' = {e \in K!edges : e.target = i}
        BY <1>1, <1>6, SameOpen
    <2> QED BY <2>1, <2>2
<1> HIDE DEF counted
<1>9. SortSound'
    <2>1. ready' = Frontier'
        <3>1. \A i \in K!Indices : counted[i] = 0 <=> K!Reads(i) \subseteq {}
            BY <1>2, <1>6, <1>8, OpenIs DEF GraphChecked
        <3>2. Frontier' = {i \in K!Indices : K!Reads(i) \subseteq {}}
            BY <1>1, <1>6, SameOpen
        <3> QED BY <1>1, <3>1, <3>2
    <2>2. degree' = [i \in K!Indices' |-> Cardinality(OpenOperands(i)')]
        <3>1. counted = [i \in K!Indices |-> Cardinality(OpenOperands(i)')]
            <4>1. counted = [i \in K!Indices |-> counted[i]]
                BY DEF counted
            <4> QED BY <1>8, <4>1
        <3> QED BY <1>1, <3>1, SameGraph
    <2> QED BY <2>1, <2>2 DEF SortSound
<1> QED BY <1>1, <1>2, <1>3, <1>4, <1>5, <1>7, <1>9, GroundedStep
        DEF GraphChecked, Sorting, Typing, Reaching, Accepting

\* The order grows by a node of the frontier.
LEMMA ListedGrows ==
    ASSUME OrderSound, NEW index, order' = Append(order, index)
    PROVE  /\ Len(order) \in Nat /\ DOMAIN order = 1 .. Len(order)
           /\ K!IsList(order') /\ Len(order') = Len(order) + 1 /\ DOMAIN order' = 1 .. Len(order) + 1
           /\ \A n \in 1 .. Len(order) : order'[n] = order[n]
           /\ order'[Len(order) + 1] = index
           /\ \A n \in 0 .. Len(order) : K!Listed(n)' = K!Listed(n)
           /\ K!Listed(Len(order))' = K!Listed(Len(order)) \cup {index}
<1>1. /\ Len(order) \in Nat /\ DOMAIN order = 1 .. Len(order)
      /\ K!IsList(order') /\ DOMAIN order' = 1 .. Len(order) + 1
      /\ \A n \in 1 .. Len(order) : order'[n] = order[n]
      /\ order'[Len(order) + 1] = index
    BY ListAppend DEF OrderSound
<1>2. Len(order') = Len(order) + 1
    BY <1>1, ListFacts
<1>3. \A n \in 0 .. Len(order) : K!Listed(n)' = K!Listed(n)
    <2> SUFFICES ASSUME NEW n \in 0 .. Len(order) PROVE K!Listed(n)' = K!Listed(n)
        OBVIOUS
    <2>1. \A k \in 1 .. n : order'[k] = order[k]
        BY <1>1
    <2> QED BY <2>1 DEF K!Listed
<1>4. K!Listed(Len(order))' = K!Listed(Len(order)) \cup {index}
    <2>1. \A k : k \in 1 .. Len(order') <=> k \in 1 .. Len(order) \/ k = Len(order) + 1
        BY <1>1, <1>2
    <2>2. K!Listed(Len(order))' = {order'[k] : k \in 1 .. Len(order')}
        BY DEF K!Listed
    <2>3. \A x : x \in {order'[k] : k \in 1 .. Len(order')}
                    <=> (\E k \in 1 .. Len(order) : x = order[k]) \/ x = index
        BY <1>1, <2>1
    <2> QED BY <2>2, <2>3 DEF K!Listed
<1> QED BY <1>1, <1>2, <1>3, <1>4

LEMMA ListedOnce ==
    ASSUME OrderSound
    PROVE  /\ Len(order) \in Nat /\ DOMAIN order = 1 .. Len(order)
           /\ \A i \in K!Listed(Len(order)) : K!Reads(i) \subseteq K!Listed(Len(order))
           /\ K!Listed(Len(order)) \subseteq K!Indices
           /\ \A n \in 0 .. Len(order) : K!Listed(n) \subseteq K!Listed(Len(order))
<1>1. Len(order) \in Nat /\ DOMAIN order = 1 .. Len(order)
    BY ListFacts DEF OrderSound
<1>2. \A n \in 0 .. Len(order) : K!Listed(n) \subseteq K!Listed(Len(order))
    BY <1>1 DEF K!Listed
<1>3. ASSUME NEW i \in K!Listed(Len(order)) PROVE K!Reads(i) \subseteq K!Listed(Len(order)) /\ i \in K!Indices
    <2>1. PICK n \in 1 .. Len(order) : i = order[n]
        BY DEF K!Listed
    <2>2. K!Reads(i) \subseteq K!Listed(n - 1) /\ i \in K!Indices
        BY <1>1, <2>1 DEF OrderSound
    <2>3. n - 1 \in 0 .. Len(order)
        BY <1>1, <2>1
    <2> QED BY <1>2, <2>2, <2>3
<1> QED BY <1>1, <1>2, <1>3

LEMMA SortNextStep == GraphInv /\ K!SortNext => GraphInv'
<1> SUFFICES ASSUME GraphInv, K!SortNext PROVE GraphInv'
    OBVIOUS
<1> DEFINE index == K!Smallest(ready)
           gone(i) == {e \in K!edges : e.source = index /\ e.target = i}
           left == [i \in K!Indices |-> degree[i] - Cardinality(gone(i))]
           done == K!Listed(Len(order))
<1>1. /\ phase = "sort" /\ ready # {} /\ order' = Append(order, index) /\ degree' = left
      /\ ready' = (ready \ {index}) \cup {i \in K!Indices : left[i] # degree[i] /\ left[i] = 0}
      /\ UNCHANGED <<definition, phase, states, stack, resolved, queue, reachable, verdict>>
    BY GraphCounts DEF K!SortNext, K!is_ready, K!search, K!reach
<1>2. /\ GraphChecked /\ Grounded(K!Indices) /\ OrderSound /\ SortSound
      /\ (order # << >> => K!OrderIsStable) /\ resolved = << >> /\ reachable = {}
      /\ K!Indices \subseteq Nat /\ K!IsProfile(definition)
    <2>1. phase \in Sorting /\ phase \notin Typing \cup {"rejected"} /\ phase \notin Reaching \cup {"rejected"}
        BY <1>1 DEF Sorting, Typing, Reaching, Accepting
    <2>2. GraphChecked /\ Grounded(K!Indices) /\ OrderSound /\ K!IsProfile(definition)
        BY <2>1, SortingFacts
    <2>3. K!Indices \subseteq Nat
        BY <2>2, GraphShape
    <2> QED BY <1>1, <2>1, <2>2, <2>3 DEF GraphInv, Untouched
<1>3. ready = Frontier /\ \A i \in K!Indices : degree[i] = Cardinality(OpenOperands(i))
    BY <1>2 DEF SortSound
<1>4. index = K!Smallest(Frontier) /\ index \in Frontier
    BY <1>1, <1>2, <1>3, SmallestIn DEF Frontier
<1>5. index \in K!Indices /\ index \notin done /\ K!Reads(index) \subseteq done
    BY <1>4 DEF Frontier
<1> HIDE DEF index
<1>6. /\ Len(order) \in Nat /\ DOMAIN order = 1 .. Len(order)
      /\ K!IsList(order') /\ Len(order') = Len(order) + 1 /\ DOMAIN order' = 1 .. Len(order) + 1
      /\ \A n \in 1 .. Len(order) : order'[n] = order[n]
      /\ order'[Len(order) + 1] = index
      /\ \A n \in 0 .. Len(order) : K!Listed(n)' = K!Listed(n)
      /\ K!Listed(Len(order))' = done \cup {index}
    BY <1>1, <1>2, ListedGrows
<1>7. /\ \A i \in done : K!Reads(i) \subseteq done
      /\ done \subseteq K!Indices
    BY <1>2, ListedOnce
<1> HIDE DEF done
<1>8. ASSUME NEW i \in K!Indices
      PROVE  /\ OpenOperands(i)' = OpenOperands(i) \ gone(i)
             /\ left[i] = Cardinality(OpenOperands(i)')
             /\ gone(i) = {} => OpenOperands(i)' = OpenOperands(i)
             /\ gone(i) # {} => index \in K!Reads(i)
    <2>1. gone(i) \subseteq OpenOperands(i)
        BY <1>5 DEF OpenOperands, done
    <2>2. OpenOperands(i)' = OpenOperands(i) \ gone(i)
        <3>1. OpenOperands(i)' = {e \in K!edges : e.target = i /\ e.source \notin done \cup {index}}
            BY <1>1, <1>6, SameOpen
        <3> QED BY <3>1 DEF OpenOperands, done
    <2>3. IsFiniteSet(OpenOperands(i)) /\ Cardinality(OpenOperands(i)) \in Nat
        <3>1. K!IsProfile(definition)
            BY <1>2
        <3> HIDE DEF gone
        <3> QED BY ONLY <3>1, OpenIs, i \in K!Indices, SMTT(30)
    <2>4. gone(i) # {} => index \in K!Reads(i)
        <3>1. K!IsProfile(definition)
            BY <1>2
        <3>2. \A e \in K!edges : e.target = i => e.source \in K!Reads(i)
            BY <3>1, EdgesInto, ZenonT(30)
        <3>3. \A e \in gone(i) : e \in K!edges /\ e.source = index /\ e.target = i
            OBVIOUS
        <3> HIDE DEF gone
        <3> QED BY ONLY <3>2, <3>3, SMTT(30)
    <2>5. left[i] = degree[i] - Cardinality(gone(i))
        OBVIOUS
    <2> HIDE DEF gone
    <2>6. Cardinality(OpenOperands(i) \ gone(i)) = Cardinality(OpenOperands(i)) - Cardinality(OpenOperands(i) \cap gone(i))
        BY <2>3, FS_Difference
    <2>7. OpenOperands(i) \cap gone(i) = gone(i)
        BY <2>1
    <2>8. left[i] = Cardinality(OpenOperands(i) \ gone(i))
        BY <1>3, <2>5, <2>6, <2>7
    <2>9. gone(i) = {} => OpenOperands(i) \ gone(i) = OpenOperands(i)
        OBVIOUS
    <2> QED BY <2>2, <2>4, <2>8, <2>9
<1>9. ASSUME NEW i \in K!Indices
      PROVE  left[i] = 0 <=> K!Reads(i) \subseteq done \cup {index}
    <2>1. IsFiniteSet(OpenOperands(i)')
        <3>1. IsFiniteSet(OpenOperands(i))
            BY <1>2, OpenIs
        <3> HIDE DEF gone
        <3>2. IsFiniteSet(OpenOperands(i) \ gone(i))
            BY <3>1, FS_Difference
        <3> QED BY <1>8, <3>2
    <2>2. left[i] = 0 <=> OpenOperands(i)' = {}
        BY <1>8, <2>1, FS_EmptySet
    <2>3. OpenOperands(i)' = {e \in K!edges : e.target = i /\ e.source \notin done \cup {index}}
        BY <1>1, <1>6, SameOpen
    <2>4. OpenOperands(i)' = {} <=> K!Reads(i) \subseteq done \cup {index}
        <3> DEFINE all == done \cup {index}
        <3>1. /\ \A e \in K!edges : e.target = i => e.source \in K!Reads(i)
              /\ \A j \in K!Reads(i) : \E e \in K!edges : e.target = i /\ e.source = j
            BY <1>2, EdgesInto
        <3> HIDE DEF all
        <3>2. {e \in K!edges : e.target = i /\ e.source \notin all} = {} <=> K!Reads(i) \subseteq all
            BY <3>1
        <3> QED BY <2>3, <3>2 DEF all
    <2> QED BY <2>2, <2>4
<1>10. \A i \in K!Indices : degree[i] = 0 <=> K!Reads(i) \subseteq done
    BY <1>2, <1>3, OpenIs DEF done
<1>11. \A i \in K!Indices : left[i] # degree[i] => index \in K!Reads(i)
    BY <1>3, <1>8
<1>12. left = [i \in K!Indices |-> Cardinality(OpenOperands(i)')]
    <2>1. left = [i \in K!Indices |-> left[i]]
        OBVIOUS
    <2> HIDE DEF left
    <2> QED BY <1>8, <2>1
<1> HIDE DEF left, gone
<1>13. SortSound'
    <2>1. Frontier' = {i \in K!Indices \ (done \cup {index}) : K!Reads(i) \subseteq done \cup {index}}
        BY <1>1, <1>6, SameOpen
    <2>2. \A i : i \in Frontier' <=> i \in ready'
        <3>1. ASSUME NEW i \in Frontier' PROVE i \in ready'
            <4>1. i \in K!Indices /\ i \notin done /\ i # index /\ left[i] = 0
                BY <1>9, <2>1, <3>1
            <4>2. degree[i] = 0 => i \in ready
                BY <1>3, <1>10, <4>1 DEF Frontier, done
            <4> QED BY <1>1, <4>1, <4>2
        <3>2. ASSUME NEW i \in ready' PROVE i \in Frontier'
            <4>1. CASE i \in ready /\ i # index
                BY <1>3, <2>1, <4>1 DEF Frontier, done
            <4>2. CASE i \in K!Indices /\ left[i] # degree[i] /\ left[i] = 0
                <5>1. index \in K!Reads(i) /\ K!Reads(i) \subseteq done \cup {index}
                    BY <1>9, <1>11, <4>2
                <5>2. i \notin done /\ i # index
                    BY <1>5, <1>7, <5>1
                <5> QED BY <2>1, <4>2, <5>1, <5>2
            <4> QED BY <1>1, <3>2, <4>1, <4>2
        <3> QED BY <3>1, <3>2
    <2>3. degree' = [i \in K!Indices' |-> Cardinality(OpenOperands(i)')]
        BY <1>1, <1>12, SameGraph
    <2> QED BY <2>2, <2>3 DEF SortSound
<1>14. \A n \in DOMAIN order' : (n \in DOMAIN order \/ n = Len(order) + 1) /\ n - 1 \in 0 .. Len(order)
    BY <1>6
<1>15. OrderSound'
    <2>1. \A n \in DOMAIN order' : order'[n] \in K!Indices
        BY <1>2, <1>5, <1>6, <1>14 DEF OrderSound
    <2>2. \A n \in DOMAIN order : order[n] \in done
        BY <1>6 DEF done, K!Listed
    <2>3. \A m, n \in DOMAIN order' : order'[m] = order'[n] => m = n
        BY <1>2, <1>5, <1>6, <1>14, <2>2 DEF OrderSound
    <2>4. ASSUME NEW n \in DOMAIN order' PROVE K!Reads(order'[n]) \subseteq K!Listed(n - 1)'
        <3>1. K!Listed(n - 1)' = K!Listed(n - 1)
            BY <1>6, <1>14
        <3>2. CASE n \in DOMAIN order
            BY <1>2, <1>6, <3>1, <3>2 DEF OrderSound
        <3>3. CASE n = Len(order) + 1
            <4>1. n - 1 = Len(order)
                BY <1>6, <3>3
            <4> QED BY <1>5, <1>6, <3>1, <3>3, <4>1 DEF done
        <3> QED BY <1>14, <3>2, <3>3
    <2> QED BY <1>1, <1>6, <2>1, <2>3, <2>4, SameGraph DEF OrderSound
<1>16. K!OrderIsStable'
    <2>1. ASSUME NEW n \in DOMAIN order'
          PROVE  order'[n] = K!Smallest({i \in K!Indices \ K!Listed(n - 1)' : K!Reads(i) \subseteq K!Listed(n - 1)'})
        <3>1. K!Listed(n - 1)' = K!Listed(n - 1)
            BY <1>6, <1>14
        <3>2. CASE n \in DOMAIN order
            <4>1. order # << >>
                BY <3>2
            <4> QED BY <1>2, <1>6, <3>1, <3>2, <4>1 DEF K!OrderIsStable
        <3>3. CASE n = Len(order) + 1
            <4>1. n - 1 = Len(order)
                BY <1>6, <3>3
            <4> QED BY <1>4, <1>6, <3>1, <3>3, <4>1 DEF Frontier
        <3> QED BY <1>14, <3>2, <3>3
    <2>2. \A n \in DOMAIN order' :
              {i \in K!Indices' \ K!Listed(n - 1)' : K!Reads(i)' \subseteq K!Listed(n - 1)'}
                 = {i \in K!Indices \ K!Listed(n - 1)' : K!Reads(i) \subseteq K!Listed(n - 1)'}
        BY <1>1, SameGraph
    <2> QED BY <2>1, <2>2 DEF K!OrderIsStable, K!Smallest
<1>17. verdict' = verdict /\ definition' = definition /\ phase' = "sort" /\ resolved' = << >> /\ reachable' = {}
    BY <1>1, <1>2
<1>18. /\ verdict'.error = "Cycle" => K!CycleIsReal'
       /\ verdict'.error = "UnreachableNode" =>
             \E S \in K!Contributing' : K!node_index(verdict.id)' \notin S
    BY <1>17, SameVerdict
<1> QED BY <1>2, <1>13, <1>15, <1>16, <1>17, <1>18, GroundedStep
        DEF GraphChecked, Sorting, Typing, Reaching, Accepting

\* A step that keeps the order.
LEMMA SameOrderSound ==
    ASSUME definition' = definition, order' = order, OrderSound
    PROVE  OrderSound' /\ \A n : K!Listed(n)' = K!Listed(n)
<1>1. \A n : K!Listed(n)' = K!Listed(n)
    BY DEF K!Listed
<1> QED BY <1>1, SameGraph DEF OrderSound

LEMMA FinishSortStep == GraphInv /\ K!FinishSort => GraphInv'
<1> SUFFICES ASSUME GraphInv, K!FinishSort PROVE GraphInv'
    OBVIOUS
<1>1. /\ phase = "sort" /\ ready = {} /\ phase' = "types"
      /\ UNCHANGED <<definition, order, resolved, reachable, verdict>>
    BY DEF K!FinishSort, K!search, K!sort, K!reach
<1>2. /\ GraphChecked /\ Grounded(K!Indices) /\ OrderSound /\ SortSound
      /\ (order # << >> => K!OrderIsStable) /\ resolved = << >> /\ reachable = {}
    <2>1. phase \in Sorting /\ phase \notin Typing \cup {"rejected"} /\ phase \notin Reaching \cup {"rejected"}
        BY <1>1 DEF Sorting, Typing, Reaching, Accepting
    <2> QED BY <1>1, <2>1, SortingFacts DEF GraphInv, Untouched
<1> DEFINE rest == K!Indices \ K!Listed(Len(order))
<1>3. rest = {}
    <2>1. SUFFICES ASSUME rest # {} PROVE FALSE
        OBVIOUS
    <2>2. PICK i \in rest : K!Reads(i) \cap rest = {}
        BY <1>2, <2>1 DEF Grounded
    <2>3. K!Reads(i) \subseteq K!Indices
        BY <1>2 DEF GraphChecked, OperandsKnown, K!Reads
    <2>4. i \in Frontier
        BY <2>2, <2>3 DEF Frontier
    <2> QED BY <1>1, <1>2, <2>4 DEF SortSound
<1>4. K!Listed(Len(order)) = K!Indices
    BY <1>2, <1>3, ListedOnce
<1>5. OrderSound' /\ (order' # << >> => K!OrderIsStable') /\ \A n : K!Listed(n)' = K!Listed(n)
    BY <1>1, <1>2, SameOrderSound, SameOrder
<1>6. TypesSound'
    <2>1. DOMAIN resolved' = {} /\ Cardinality({}) = 0
        BY <1>1, <1>2, FS_EmptySet
    <2>2. K!Listed(0)' = {}
        BY DEF K!Listed
    <2>3. Len(order') \in Nat
        BY <1>1, <1>2, ListedOnce
    <2> QED BY <2>1, <2>2, <2>3 DEF TypesSound
<1>7. K!Listed(Len(order))' = K!Indices'
    <2>1. K!Listed(Len(order))' = K!Listed(Len(order))
        BY <1>1 DEF K!Listed
    <2> QED BY <1>1, <1>4, <2>1, SameGraph
<1>8. /\ verdict'.error = "Cycle" => K!CycleIsReal'
      /\ verdict'.error = "UnreachableNode" =>
            \E S \in K!Contributing' : K!node_index(verdict.id)' \notin S
    BY <1>1, SameVerdict
<1> QED BY <1>1, <1>2, <1>5, <1>6, <1>7, <1>8, GroundedStep
        DEF GraphChecked, Sorting, Typing, Reaching, Accepting

-----------------------------------------------------------------------------
(* The types. *)

\* A contract that is met gives a type of value.
LEMMA ResultTypes ==
    ASSUME NEW operation \in K!Operations, NEW types, K!IsList(types),
           \A p \in DOMAIN types : types[p] \in K!ValueTypes,
           K!result_type(operation, types) # K!Unsupported
    PROVE  K!result_type(operation, types) \in K!ValueTypes
<1>1. Len(types) \in Nat /\ DOMAIN types = 1 .. Len(types)
    BY ListFacts
<1>2. K!ensure_resolved_type_count(operation, types)
    BY DEF K!result_type
<1>3. Len(types) >= 1
    BY <1>1, <1>2 DEF K!ensure_resolved_type_count, K!Operations
<1>4. types[1] \in K!ValueTypes
    BY <1>1, <1>3
<1>5. "Scalar" \in K!ValueTypes /\ "Ratio" \in K!ValueTypes /\ "DataSize" \in K!ValueTypes
    BY DEF K!ValueTypes
<1>6. /\ K!homogeneous_result_type(types) \in K!ValueTypes \cup {K!Unsupported}
      /\ K!ceiling_result_type(types) \in K!ValueTypes \cup {K!Unsupported}
      /\ K!ceiling_divide_result_type(types) \in K!ValueTypes \cup {K!Unsupported}
      /\ K!convert_result_type(types) \in K!ValueTypes \cup {K!Unsupported}
    BY <1>4, <1>5 DEF K!homogeneous_result_type, K!ceiling_result_type, K!ceiling_divide_result_type,
                      K!convert_result_type
<1>7. K!multiply_result_type(types) \in K!ValueTypes \cup {K!Unsupported}
    BY <1>5 DEF K!multiply_result_type
<1>8. CASE operation = "Reference"
    BY <1>2, <1>4, <1>8 DEF K!result_type
<1>9. CASE operation \in {"Add", "Minimum", "Maximum"}
    BY <1>2, <1>6, <1>9 DEF K!result_type
<1>10. CASE operation = "Multiply"
    BY <1>2, <1>7, <1>10 DEF K!result_type
<1>11. CASE operation = "Ceiling"
    BY <1>2, <1>6, <1>11 DEF K!result_type
<1>12. CASE operation = "CeilingDivide"
    BY <1>2, <1>6, <1>12 DEF K!result_type
<1>13. CASE operation = "ConvertDataSize"
    BY <1>2, <1>6, <1>13 DEF K!result_type
<1> QED BY <1>8, <1>9, <1>10, <1>11, <1>12, <1>13 DEF K!Operations

LEMMA NodeTypes ==
    ASSUME K!IsProfile(definition), NEW i \in K!Indices, NEW types, K!IsList(types),
           \A p \in DOMAIN types : types[p] \in K!ValueTypes,
           K!node_type(i, types) # K!Unsupported
    PROVE  /\ K!node_type(i, types) \in K!ValueTypes \cup {K!NoType}
           /\ K!Nodes[i].kind # "finding" => K!node_type(i, types) \in K!ValueTypes
<1>1. /\ K!Nodes[i].kind \in K!Kinds
      /\ K!Nodes[i].kind \in {"input", "constant"} => K!Nodes[i].values[1].type \in K!ValueTypes
      /\ K!Nodes[i].kind \in {"derived", "setting"} => K!Nodes[i].expression.operation \in K!Operations
    BY DEF K!IsProfile, K!Nodes, K!Indices
<1>2. CASE K!Nodes[i].kind \in {"input", "constant"}
    BY <1>1, <1>2 DEF K!node_type
<1>3. CASE K!Nodes[i].kind = "finding"
    BY <1>3 DEF K!node_type
<1>4. CASE K!Nodes[i].kind \in {"derived", "setting"}
    <2>1. K!node_type(i, types) = K!result_type(K!Nodes[i].expression.operation, types)
        BY <1>4 DEF K!node_type
    <2> QED BY <1>1, <1>4, <2>1, ResultTypes
<1> QED BY <1>1, <1>2, <1>3, <1>4 DEF K!Kinds

\* What is typed has read only what is typed.
LEMMA TypedReads ==
    ASSUME OrderSound, TypesSound
    PROVE  /\ \A i \in DOMAIN resolved : K!Reads(i) \subseteq DOMAIN resolved
           /\ Cardinality(DOMAIN resolved) < Len(order) =>
                 /\ Cardinality(DOMAIN resolved) + 1 \in DOMAIN order
                 /\ K!Reads(order[Cardinality(DOMAIN resolved) + 1]) \subseteq DOMAIN resolved
                 /\ order[Cardinality(DOMAIN resolved) + 1] \notin DOMAIN resolved
<1> DEFINE done == Cardinality(DOMAIN resolved)
<1>1. /\ Len(order) \in Nat /\ DOMAIN order = 1 .. Len(order) /\ done \in 0 .. Len(order)
      /\ DOMAIN resolved = K!Listed(done)
    BY ListedOnce DEF TypesSound
<1> HIDE DEF done
<1>2. ASSUME NEW i \in DOMAIN resolved PROVE K!Reads(i) \subseteq DOMAIN resolved
    <2>1. PICK n \in 1 .. done : i = order[n]
        BY <1>1 DEF K!Listed
    <2>2. n \in DOMAIN order
        BY <1>1
    <2>3. K!Reads(i) \subseteq K!Listed(n - 1)
        BY <2>1, <2>2 DEF OrderSound
    <2>4. K!Listed(n - 1) \subseteq K!Listed(done)
        BY <1>1 DEF K!Listed
    <2> QED BY <1>1, <2>3, <2>4
<1>3. ASSUME done < Len(order)
      PROVE  /\ done + 1 \in DOMAIN order /\ K!Reads(order[done + 1]) \subseteq DOMAIN resolved
             /\ order[done + 1] \notin DOMAIN resolved
    <2>1. done + 1 \in DOMAIN order /\ (done + 1) - 1 = done
        BY <1>1, <1>3
    <2>2. K!Reads(order[done + 1]) \subseteq DOMAIN resolved
        BY <1>1, <2>1 DEF OrderSound
    <2>3. \A n \in 1 .. done : order[n] # order[done + 1]
        BY <1>1, <2>1 DEF OrderSound
    <2> QED BY <1>1, <2>1, <2>2, <2>3 DEF K!Listed
<1> QED BY <1>2, <1>3 DEF done

LEMMA NodeTypeKept ==
    ASSUME definition' = definition, NEW i, TypesOf(i)' = TypesOf(i)
    PROVE  K!node_type(i, TypesOf(i))' = K!node_type(i, TypesOf(i))
<1>1. K!Nodes' = K!Nodes
    BY SameGraph
<1> QED BY <1>1 DEF K!node_type

LEMMA ListedFinite ==
    ASSUME OrderSound, K!IsProfile(definition), NEW n \in 0 .. Len(order)
    PROVE  IsFiniteSet(K!Listed(n))
<1>1. Len(K!Nodes) \in Nat /\ K!Indices = 1 .. Len(K!Nodes)
    BY GraphShape
<1>2. IsFiniteSet(K!Indices)
    BY <1>1, FS_Interval
<1>3. K!Listed(n) \in SUBSET K!Indices
    BY ListedOnce
<1> QED BY <1>2, <1>3, FS_Subset

LEMMA ResolveNextStep == GraphInv /\ K!ResolveNext => GraphInv'
<1> SUFFICES ASSUME GraphInv, K!ResolveNext PROVE GraphInv'
    OBVIOUS
<1> DEFINE done == Cardinality(DOMAIN resolved)
           index == order[done + 1]
           types == [p \in DOMAIN K!operands(index) |-> resolved[K!dependencies(index)[p]]]
           type == K!node_type(index, types)
           typed == [i \in DOMAIN resolved \cup {index} |-> IF i = index THEN type ELSE resolved[i]]
<1>1. /\ phase = "types" /\ done < Len(order) /\ resolved' = typed
      /\ K!Conclude(K!type_defect(index, type), "types")
      /\ UNCHANGED <<definition, order, reachable>>
    BY GraphCounts DEF K!ResolveNext, K!search, K!sort, K!reach
<1>2. /\ GraphChecked /\ Grounded(K!Indices) /\ OrderSound /\ TypesSound /\ K!IsProfile(definition)
      /\ (order # << >> => K!OrderIsStable) /\ K!Listed(Len(order)) = K!Indices /\ reachable = {}
    <2>1. phase \in Sorting /\ phase \in Typing /\ phase \notin Reaching \cup {"rejected"}
        BY <1>1 DEF Sorting, Typing, Reaching, Accepting
    <2> QED BY <1>1, <2>1, SortingFacts DEF GraphInv, Untouched
<1>3. /\ done + 1 \in DOMAIN order /\ K!Reads(index) \subseteq DOMAIN resolved
      /\ index \notin DOMAIN resolved /\ index \in K!Indices
      /\ \A i \in DOMAIN resolved : K!Reads(i) \subseteq DOMAIN resolved
    BY <1>1, <1>2, TypedReads DEF OrderSound
<1>4. /\ Len(order) \in Nat /\ DOMAIN order = 1 .. Len(order) /\ done \in 0 .. Len(order)
      /\ DOMAIN resolved = K!Listed(done) /\ IsFiniteSet(DOMAIN resolved)
      /\ DOMAIN resolved \subseteq K!Indices
    BY <1>2, ListedOnce, ListedFinite DEF TypesSound
<1>5. Cardinality(DOMAIN resolved \cup {index}) = done + 1
    BY <1>3, <1>4, FS_AddElement
<1> HIDE DEF done, index
<1>6. DOMAIN types = DOMAIN K!operands(index) /\ types = TypesOf(index)
    BY DEF TypesOf
<1>7. K!IsList(types) /\ \A p \in DOMAIN types : types[p] \in K!ValueTypes
    <2>1. Len(K!operands(index)) \in Nat /\ DOMAIN K!operands(index) = 1 .. Len(K!operands(index))
        BY <1>2, <1>3, GraphShape
    <2>2. types = [p \in 1 .. Len(K!operands(index)) |-> types[p]]
        BY <2>1
    <2>3. \A p \in DOMAIN K!operands(index) :
              /\ K!dependencies(index)[p] \in DOMAIN resolved
              /\ K!Nodes[K!dependencies(index)[p]].kind # "finding"
        BY <1>2, <1>3 DEF K!Reads, GraphChecked, OperandsKnown
    <2>4. \A p \in DOMAIN types : types[p] \in K!ValueTypes
        BY <1>2, <2>3 DEF TypesSound
    <2> HIDE DEF types
    <2> QED BY <2>1, <2>2, <2>4, ListOf
<1> HIDE DEF types
<1>8. type # K!Unsupported =>
          /\ type \in K!ValueTypes \cup {K!NoType}
          /\ K!Nodes[index].kind # "finding" => type \in K!ValueTypes
    BY <1>2, <1>3, <1>7, NodeTypes
<1> HIDE DEF type
<1>9. CASE type = K!Unsupported
    <2> DEFINE defect == K!type_defect(index, type)
    <2>1. defect # K!None /\ PlainDefect(defect)
        BY <1>9, DefectsDiffer, PlainDefects DEF K!type_defect
    <2>2. phase' = "rejected" /\ verdict' = defect
        BY <1>1, <2>1 DEF K!Conclude
    <2> QED BY <1>1, <2>1, <2>2, RejectStep DEF PlainDefect
<1>10. CASE type # K!Unsupported
    <2>1. phase' = "types" /\ verdict' = K!None
        BY <1>1, <1>10 DEF K!Conclude, K!type_defect
    <2>2. /\ DOMAIN typed = DOMAIN resolved \cup {index} /\ typed[index] = type
          /\ \A i \in DOMAIN resolved : typed[i] = resolved[i]
        BY <1>3
    <2> HIDE DEF typed
    <2>3. ASSUME NEW i \in DOMAIN typed PROVE TypesOf(i)' = TypesOf(i)
        <3>1. \A p \in DOMAIN K!operands(i) : K!dependencies(i)[p] \in DOMAIN resolved
            BY <1>3, <2>2 DEF K!Reads
        <3>2. \A p \in DOMAIN K!operands(i) : resolved'[K!dependencies(i)[p]] = resolved[K!dependencies(i)[p]]
            BY <1>1, <2>2, <3>1
        <3>3. TypesOf(i)' = [p \in DOMAIN K!operands(i)' |-> resolved'[K!dependencies(i)'[p]]]
            BY DEF TypesOf
        <3>4. TypesOf(i)' = [p \in DOMAIN K!operands(i) |-> resolved'[K!dependencies(i)[p]]]
            BY <1>1, <3>3, SameGraph
        <3> QED BY <3>2, <3>4 DEF TypesOf
    <2>4. TypesSound'
        <3>1. DOMAIN resolved' = DOMAIN resolved \cup {index}
            BY <1>1, <2>2
        <3>2. Cardinality(DOMAIN resolved') = done + 1
            BY <1>5, <3>1
        <3>3. K!Listed(done + 1) = K!Listed(done) \cup {index}
            <4>1. \A k : k \in 1 .. done + 1 <=> k \in 1 .. done \/ k = done + 1
                BY <1>4
            <4> QED BY <4>1 DEF K!Listed, index
        <3>4. DOMAIN resolved' = K!Listed(Cardinality(DOMAIN resolved))'
            <4>1. \A n : K!Listed(n)' = K!Listed(n)
                BY <1>1, <1>2, SameOrderSound
            <4>2. K!Listed(Cardinality(DOMAIN resolved))' = K!Listed(Cardinality(DOMAIN resolved'))
                BY <1>1 DEF K!Listed
            <4> QED BY <1>4, <3>1, <3>2, <3>3, <4>2
        <3>5. Cardinality(DOMAIN resolved') \in 0 .. Len(order')
            BY <1>1, <1>4, <3>2
        <3>6. ASSUME NEW i \in DOMAIN resolved'
              PROVE  /\ resolved'[i] = K!node_type(i, TypesOf(i))'
                     /\ resolved'[i] \in K!ValueTypes \cup {K!NoType}
                     /\ K!Nodes'[i].kind # "finding" => resolved'[i] \in K!ValueTypes
            <4>1. K!node_type(i, TypesOf(i))' = K!node_type(i, TypesOf(i))
                BY <1>1, <2>2, <2>3, NodeTypeKept
            <4>2. K!Nodes' = K!Nodes
                BY <1>1, SameGraph
            <4>3. CASE i = index
                BY <1>1, <1>6, <1>8, <1>10, <2>2, <4>1, <4>2, <4>3 DEF type
            <4>4. CASE i \in DOMAIN resolved
                <5>1. resolved'[i] = resolved[i]
                    BY <1>1, <2>2, <4>4
                <5> QED BY <1>2, <4>1, <4>2, <4>4, <5>1 DEF TypesSound
            <4> QED BY <3>1, <4>3, <4>4
        <3> QED BY <3>4, <3>5, <3>6 DEF TypesSound
    <2>5. OrderSound' /\ (order' # << >> => K!OrderIsStable') /\ K!Listed(Len(order))' = K!Indices'
        <3>1. OrderSound'
            BY <1>1, <1>2, SameOrderSound
        <3>2. order' # << >> => K!OrderIsStable'
            BY <1>1, <1>2, SameOrder
        <3>3. K!Listed(Len(order))' = K!Listed(Len(order))
            BY <1>1 DEF K!Listed
        <3> QED BY <1>1, <1>2, <3>1, <3>2, <3>3, SameGraph
    <2>6. verdict'.error = "none"
        BY <2>1 DEF K!None, K!Defect
    <2> QED BY <1>1, <1>2, <2>1, <2>4, <2>5, <2>6, GroundedStep
            DEF GraphChecked, Sorting, Typing, Reaching, Accepting
<1> QED BY <1>9, <1>10

\* The order and the types stay as they are.
LEMMA TypesKept ==
    ASSUME OrderSound, TypesSound, order # << >> => K!OrderIsStable, K!Listed(Len(order)) = K!Indices,
           UNCHANGED <<definition, order, resolved>>
    PROVE  /\ OrderSound' /\ TypesSound' /\ (order' # << >> => K!OrderIsStable')
           /\ K!Listed(Len(order))' = K!Indices'
<1>1. OrderSound'
    BY SameOrderSound
<1>2. order' # << >> => K!OrderIsStable'
    BY SameOrder
<1>3. K!Listed(Len(order))' = K!Listed(Len(order))
    BY DEF K!Listed
<1>4. K!Listed(Cardinality(DOMAIN resolved))' = K!Listed(Cardinality(DOMAIN resolved))
    BY DEF K!Listed
<1>5. \A i : TypesOf(i)' = TypesOf(i)
    BY SameGraph DEF TypesOf
<1>6. \A i : K!node_type(i, TypesOf(i))' = K!node_type(i, TypesOf(i))
    BY <1>5, NodeTypeKept
<1>7. TypesSound'
    BY <1>4, <1>6, SameGraph DEF TypesSound
<1> QED BY <1>1, <1>2, <1>3, <1>7, SameGraph

LEMMA SettingKeysStep == GraphInv /\ K!ValidateUniqueSettingKeys => GraphInv'
<1> SUFFICES ASSUME GraphInv, K!ValidateUniqueSettingKeys PROVE GraphInv'
    OBVIOUS
<1> DEFINE all == [i \in K!Indices |->
               IF /\ K!Nodes[i].kind = "setting"
                  /\ \E k \in 1 .. i - 1 : K!Nodes[k].kind = "setting" /\ K!Nodes[k].key = K!Nodes[i].key
               THEN K!Defect("DuplicateSettingKey", K!Nodes[i].id, << >>) ELSE K!None]
           defect == K!FirstOf(all)
           shown == [o \in DOMAIN definition.outputs |-> K!node_index(definition.outputs[o])]
<1>1. /\ phase = "types" /\ Cardinality(DOMAIN resolved) = Len(order)
      /\ K!Conclude(defect, "reach") /\ queue' = shown
      /\ UNCHANGED <<definition, order, resolved, reachable>>
    BY GraphCounts DEF K!ValidateUniqueSettingKeys, K!search, K!sort
<1>2. /\ GraphChecked /\ Grounded(K!Indices) /\ OrderSound /\ TypesSound /\ K!IsProfile(definition)
      /\ (order # << >> => K!OrderIsStable) /\ K!Listed(Len(order)) = K!Indices /\ reachable = {}
    <2>1. phase \in Sorting /\ phase \in Typing /\ phase \notin Reaching \cup {"rejected"}
        BY <1>1 DEF Sorting, Typing, Reaching, Accepting
    <2> QED BY <1>1, <2>1, SortingFacts DEF GraphInv, Untouched
<1>3. PlainDefect(defect)
    <2>1. K!Indices \subseteq Nat
        BY <1>2, GraphShape
    <2>2. DOMAIN all \subseteq Nat /\ \A i \in DOMAIN all : PlainDefect(all[i])
        BY <2>1, PlainDefects
    <2> HIDE DEF all
    <2> QED BY <2>2, FirstPlain
<1> HIDE DEF defect, all
<1>4. CASE defect # K!None
    <2>1. phase' = "rejected" /\ verdict' = defect
        BY <1>1, <1>4 DEF K!Conclude
    <2> QED BY <1>1, <1>3, <2>1, RejectStep DEF PlainDefect
<1>5. CASE defect = K!None
    <2>1. phase' = "reach" /\ verdict' = K!None
        BY <1>1, <1>5 DEF K!Conclude
    <2>2. DOMAIN resolved = K!Indices
        BY <1>1, <1>2 DEF TypesSound
    <2>3. /\ OrderSound' /\ TypesSound' /\ (order' # << >> => K!OrderIsStable')
          /\ K!Listed(Len(order))' = K!Indices'
        BY <1>1, <1>2, TypesKept
    <2>4. ReachSound'
        <3>1. /\ DOMAIN definition.outputs = 1 .. Len(definition.outputs)
              /\ Len(definition.outputs) \in Nat
            BY <1>2, GraphShape
        <3>2. DOMAIN shown = DOMAIN definition.outputs
              /\ \A o \in DOMAIN shown : shown[o] = K!node_index(definition.outputs[o])
            OBVIOUS
        <3>9. shown = [o \in 1 .. Len(definition.outputs) |-> shown[o]]
            BY <3>1
        <3> HIDE DEF shown
        <3>3. K!IsList(shown)
            BY <3>1, <3>9, ListOf
        <3>4. WaitingNodes' = {K!node_index(definition.outputs[o]) : o \in DOMAIN definition.outputs}
            BY <1>1, <3>2 DEF WaitingNodes
        <3>5. WaitingNodes' \subseteq K!Indices
            BY <1>2, <3>4 DEF GraphChecked, OutputsKnown
        <3>6. \A S \in K!Contributing : WaitingNodes' \subseteq S
            BY <3>4, ContributingIs
        <3>7. K!Contributing' = K!Contributing /\ reachable' = {}
            BY <1>1, <1>2, SameContributing
        <3>8. \A o \in DOMAIN definition'.outputs : K!node_index(definition.outputs[o])' \in WaitingNodes'
            BY <1>1, <3>4, SameGraph
        <3> QED BY <1>1, <3>3, <3>5, <3>6, <3>7, <3>8, SameGraph DEF ReachSound
    <2>5. verdict'.error = "none"
        BY <2>1 DEF K!None, K!Defect
    <2>6. DOMAIN resolved' = K!Indices'
        BY <1>1, <2>2, SameGraph
    <2> QED BY <1>1, <1>2, <2>1, <2>3, <2>4, <2>5, <2>6, GroundedStep
            DEF GraphChecked, Sorting, Typing, Reaching, Accepting
<1> QED BY <1>4, <1>5

-----------------------------------------------------------------------------
(* The search backwards. *)

Elements(list) == {list[k] : k \in DOMAIN list}

LEMMA ListConcat ==
    ASSUME NEW list, K!IsList(list), NEW more, K!IsList(more)
    PROVE  /\ K!IsList(list \o more)
           /\ Elements(list \o more) = Elements(list) \cup Elements(more)
<1> DEFINE S == {list[i] : i \in DOMAIN list} \cup {more[i] : i \in DOMAIN more}
           both == list \o more
<1>1. /\ Len(list) \in Nat /\ DOMAIN list = 1 .. Len(list)
      /\ list = [i \in 1 .. Len(list) |-> list[i]]
    BY ListFacts
<1>2. /\ Len(more) \in Nat /\ DOMAIN more = 1 .. Len(more)
      /\ more = [i \in 1 .. Len(more) |-> more[i]]
    BY ListFacts
<1>3. (\A i \in 1 .. Len(list) : list[i] \in S) /\ (\A i \in 1 .. Len(more) : more[i] \in S)
    BY <1>1, <1>2
<1> HIDE DEF S
<1>4. list \in [1 .. Len(list) -> S] /\ more \in [1 .. Len(more) -> S]
    BY <1>1, <1>2, <1>3
<1>5. list \in Seq(S) /\ more \in Seq(S)
    BY <1>1, <1>2, <1>4
<1>6. /\ both \in Seq(S) /\ Len(both) = Len(list) + Len(more)
      /\ DOMAIN both = 1 .. Len(list) + Len(more)
      /\ \A k \in 1 .. Len(list) + Len(more) :
            both[k] = IF k <= Len(list) THEN list[k] ELSE more[k - Len(list)]
    BY <1>5
<1> HIDE DEF both
<1>7. both = [k \in 1 .. Len(both) |-> both[k]] /\ Len(both) \in Nat
    BY <1>6
<1>8. K!IsList(both)
    BY <1>7, ListOf
<1>9. ASSUME NEW x
      PROVE  (\E k \in DOMAIN both : both[k] = x)
                <=> (\E k \in DOMAIN list : list[k] = x) \/ (\E k \in DOMAIN more : more[k] = x)
    <2>1. ASSUME NEW k \in DOMAIN both, both[k] = x
          PROVE  (\E j \in DOMAIN list : list[j] = x) \/ (\E j \in DOMAIN more : more[j] = x)
        <3>1. CASE k <= Len(list)
            BY <1>1, <1>6, <2>1, <3>1
        <3>2. CASE ~(k <= Len(list))
            <4>1. k - Len(list) \in DOMAIN more /\ more[k - Len(list)] = x
                BY <1>1, <1>2, <1>6, <2>1, <3>2
            <4> QED BY <4>1
        <3> QED BY <3>1, <3>2
    <2>2. ASSUME NEW k \in DOMAIN list, list[k] = x PROVE \E j \in DOMAIN both : both[j] = x
        <3>1. k \in DOMAIN both /\ both[k] = x
            BY <1>1, <1>2, <1>6, <2>2
        <3> QED BY <3>1
    <2>3. ASSUME NEW k \in DOMAIN more, more[k] = x PROVE \E j \in DOMAIN both : both[j] = x
        <3>1. /\ k + Len(list) \in DOMAIN both /\ ~(k + Len(list) <= Len(list))
              /\ (k + Len(list)) - Len(list) = k
            BY <1>1, <1>2, <1>6
        <3>2. both[k + Len(list)] = x
            BY <1>6, <2>3, <3>1
        <3> QED BY <3>1, <3>2
    <2> QED BY <2>1, <2>2, <2>3
<1>10. Elements(both) = Elements(list) \cup Elements(more)
    BY <1>9 DEF Elements
<1> QED BY <1>8, <1>10 DEF both

\* What is known while the search goes on.
LEMMA ReachingFacts ==
    ASSUME GraphInv, phase = "reach"
    PROVE  /\ GraphChecked /\ Grounded(K!Indices) /\ OrderSound /\ TypesSound /\ K!IsProfile(definition)
           /\ (order # << >> => K!OrderIsStable) /\ K!Listed(Len(order)) = K!Indices /\ ReachSound
           /\ DOMAIN resolved = K!Indices
<1>1. phase \in Sorting /\ phase \in Typing /\ phase \in Reaching
    BY DEF Sorting, Typing, Reaching, Accepting
<1> QED BY <1>1, SortingFacts DEF GraphInv

LEMMA ReachNextStep == GraphInv /\ K!ReachNext => GraphInv'
<1> SUFFICES ASSUME GraphInv, K!ReachNext PROVE GraphInv'
    OBVIOUS
<1> DEFINE index == queue[Len(queue)]
           rest == SubSeq(queue, 1, Len(queue) - 1)
           next == IF index \in reachable THEN rest ELSE rest \o K!dependencies(index)
           left == {rest[k] : k \in DOMAIN rest}
<1>1. /\ phase = "reach" /\ queue # << >> /\ queue' = next
      /\ reachable' = reachable \cup {index}
      /\ UNCHANGED <<definition, phase, order, resolved, verdict>>
    BY DEF K!ReachNext, K!search, K!sort
<1>2. /\ GraphChecked /\ Grounded(K!Indices) /\ OrderSound /\ TypesSound /\ K!IsProfile(definition)
      /\ (order # << >> => K!OrderIsStable) /\ K!Listed(Len(order)) = K!Indices /\ ReachSound
      /\ DOMAIN resolved = K!Indices
    BY <1>1, ReachingFacts
<1>3. /\ K!IsList(rest) /\ Len(queue) \in Nat \ {0} /\ DOMAIN queue = 1 .. Len(queue)
      /\ DOMAIN rest = 1 .. Len(queue) - 1
      /\ \A k \in 1 .. Len(queue) - 1 : rest[k] = queue[k]
    BY <1>1, <1>2, ListFront DEF ReachSound
<1> HIDE DEF rest
<1>4. WaitingNodes = left \cup {index}
    <2>1. \A k : k \in DOMAIN queue <=> k \in DOMAIN rest \/ k = Len(queue)
        BY <1>3
    <2> QED BY <1>3, <2>1 DEF WaitingNodes
<1>5. index \in K!Indices
    BY <1>2, <1>4 DEF ReachSound
<1>6. K!IsList(K!dependencies(index)) /\ K!Reads(index) = {K!dependencies(index)[p] : p \in DOMAIN K!dependencies(index)}
    BY <1>2, <1>5, DependencyList
<1>7. /\ K!IsList(next)
      /\ {next[k] : k \in DOMAIN next} = IF index \in reachable THEN left ELSE left \cup K!Reads(index)
    <2>1. CASE index \in reachable
        BY <1>3, <2>1
    <2>2. CASE index \notin reachable
        <3> DEFINE more == K!dependencies(index)
                   both == rest \o more
        <3>1. next = both
            BY <2>2
        <3>4. K!IsList(more) /\ K!Reads(index) = {more[p] : p \in DOMAIN more}
            BY <1>6
        <3> HIDE DEF more
        <3>5. K!IsList(rest)
            BY <1>3
        <3>2. K!IsList(both) /\ Elements(both) = Elements(rest) \cup Elements(more)
            BY <3>4, <3>5, ListConcat
        <3> HIDE DEF both
        <3>3. {both[k] : k \in DOMAIN both} = left \cup {more[p] : p \in DOMAIN more}
            BY <3>2 DEF Elements
        <3> HIDE DEF next, left
        <3> QED BY <2>2, <3>1, <3>2, <3>3, <3>4
    <2> QED BY <2>1, <2>2
<1> HIDE DEF next, index, left
<1>8. WaitingNodes' = IF index \in reachable THEN left ELSE left \cup K!Reads(index)
    BY <1>1, <1>7 DEF WaitingNodes
<1>9. K!Reads(index) \subseteq K!Indices
    BY <1>2, <1>5 DEF GraphChecked, OperandsKnown, K!Reads
<1>10. WaitingNodes \cup reachable \subseteq WaitingNodes' \cup reachable'
    BY <1>1, <1>4, <1>8
<1>11. \A i \in reachable' : K!Reads(i) \subseteq WaitingNodes' \cup reachable'
    BY <1>1, <1>2, <1>8, <1>10 DEF ReachSound
<1>12. \A S \in K!Contributing : WaitingNodes' \cup reachable' \subseteq S
    <2> SUFFICES ASSUME NEW S \in K!Contributing PROVE WaitingNodes' \cup reachable' \subseteq S
        OBVIOUS
    <2>1. WaitingNodes \cup reachable \subseteq S
        BY <1>2 DEF ReachSound
    <2>2. K!Reads(index) \subseteq S
        BY <1>4, <2>1, ContributingIs
    <2> QED BY <1>1, <1>4, <1>8, <2>1, <2>2
<1>13. ReachSound'
    <2>1. WaitingNodes' \cup reachable' \subseteq K!Indices
        BY <1>1, <1>2, <1>4, <1>8, <1>9 DEF ReachSound
    <2>2. \A o \in DOMAIN definition'.outputs :
              K!node_index(definition.outputs[o])' \in WaitingNodes' \cup reachable'
        BY <1>1, <1>2, <1>10, SameGraph DEF ReachSound
    <2>3. K!Contributing' = K!Contributing
        BY <1>1, SameContributing
    <2>4. K!IsList(queue')
        BY <1>1, <1>7
    <2> QED BY <1>1, <1>11, <1>12, <2>1, <2>2, <2>3, <2>4, SameGraph DEF ReachSound
<1>14. /\ OrderSound' /\ TypesSound' /\ (order' # << >> => K!OrderIsStable')
       /\ K!Listed(Len(order))' = K!Indices' /\ DOMAIN resolved' = K!Indices'
    BY <1>1, <1>2, TypesKept, SameGraph
<1>15. /\ verdict'.error = "Cycle" => K!CycleIsReal'
       /\ verdict'.error = "UnreachableNode" =>
             \E S \in K!Contributing' : K!node_index(verdict.id)' \notin S
    BY <1>1, SameVerdict
<1> QED BY <1>1, <1>2, <1>13, <1>14, <1>15, GroundedStep
        DEF GraphChecked, Sorting, Typing, Reaching, Accepting

LEMMA FinishValidationStep == GraphInv /\ K!FinishValidation => GraphInv'
<1> SUFFICES ASSUME GraphInv, K!FinishValidation PROVE GraphInv'
    OBVIOUS
<1> DEFINE all == [i \in K!Indices |->
               IF i \in reachable THEN K!None ELSE K!Defect("UnreachableNode", K!Nodes[i].id, << >>)]
           defect == K!FirstOf(all)
<1>1. /\ phase = "reach" /\ queue = << >> /\ K!Conclude(defect, "accepted")
      /\ UNCHANGED <<definition, order, resolved>>
    BY DEF K!FinishValidation, K!search, K!sort, K!reach
<1>2. /\ GraphChecked /\ Grounded(K!Indices) /\ OrderSound /\ TypesSound /\ K!IsProfile(definition)
      /\ (order # << >> => K!OrderIsStable) /\ K!Listed(Len(order)) = K!Indices /\ ReachSound
      /\ DOMAIN resolved = K!Indices /\ K!Indices \subseteq Nat
    BY <1>1, ReachingFacts, GraphShape
<1>3. reachable \in K!Contributing /\ \A S \in K!Contributing : reachable \subseteq S
    <2>1. WaitingNodes = {}
        BY <1>1 DEF WaitingNodes
    <2> QED BY <1>2, <2>1, ContributingIs DEF ReachSound
<1>4. DOMAIN all = K!Indices /\ \A i \in K!Indices :
          all[i] = IF i \in reachable THEN K!None ELSE K!Defect("UnreachableNode", K!Nodes[i].id, << >>)
    OBVIOUS
<1> HIDE DEF all
<1>5. /\ defect = K!None => \A i \in K!Indices : all[i] = K!None
      /\ defect # K!None => \E i \in K!Indices : defect = all[i]
    BY <1>2, <1>4, FirstDefect
<1> HIDE DEF defect
<1>6. K!Contributing' = K!Contributing
    BY <1>1, SameContributing
<1>7. CASE defect # K!None
    <2>1. PICK i \in K!Indices : defect = K!Defect("UnreachableNode", K!Nodes[i].id, << >>) /\ i \notin reachable
        BY <1>4, <1>5, <1>7
    <2>2. phase' = "rejected" /\ verdict' = defect
        BY <1>1, <1>7 DEF K!Conclude
    <2>3. verdict'.error = "UnreachableNode" /\ verdict'.id = K!Nodes[i].id
        BY <2>1, <2>2 DEF K!Defect
    <2>4. K!node_index(K!Nodes[i].id) = i
        BY <1>2 DEF GraphChecked, IdsUnique, K!node_index
    <2>5. K!node_index(verdict.id)' \notin reachable
        <3>1. K!node_index(verdict.id)' = K!node_index(verdict'.id)
            BY <1>1, SameGraph DEF K!node_index
        <3> QED BY <2>1, <2>3, <2>4, <3>1
    <2>6. \E S \in K!Contributing' : K!node_index(verdict.id)' \notin S
        BY <1>3, <1>6, <2>5
    <2> QED BY <1>1, <2>2, <2>3, <2>6, RejectStep
<1>8. CASE defect = K!None
    <2>1. phase' = "accepted" /\ verdict' = K!None
        BY <1>1, <1>8 DEF K!Conclude
    <2>2. \A i \in K!Indices : i \in reachable
        BY <1>4, <1>5, <1>8, DefectsDiffer
    <2>6. \A S \in K!Contributing : S = K!Indices
        BY <1>3, <2>2, ContributingIs
    <2>3. \A S \in K!Contributing' : S = K!Indices'
        BY <1>1, <1>6, <2>6, SameGraph
    <2>4. /\ OrderSound' /\ TypesSound' /\ (order' # << >> => K!OrderIsStable')
          /\ K!Listed(Len(order))' = K!Indices' /\ DOMAIN resolved' = K!Indices'
        BY <1>1, <1>2, TypesKept, SameGraph
    <2>5. verdict'.error = "none"
        BY <2>1 DEF K!None, K!Defect
    <2> QED BY <1>1, <1>2, <2>1, <2>3, <2>4, <2>5, GroundedStep
            DEF GraphChecked, Sorting, Typing, Reaching, Accepting
<1> QED BY <1>7, <1>8

-----------------------------------------------------------------------------

LEMMA InitGraph ==
    ASSUME NEW profile, K!IsProfile(profile), K!Init(profile)
    PROVE  GraphInv
<1>1. /\ definition = profile /\ phase = "assemble" /\ states = [i \in K!Indices |-> "Unvisited"]
      /\ stack = << >> /\ order = << >> /\ resolved = << >> /\ reachable = {} /\ verdict = K!None
    BY DEF K!Init
<1>2. verdict.error = "none"
    BY <1>1 DEF K!None, K!Defect
<1>3. /\ phase \in Passes /\ phase \notin Naming /\ phase \notin Binding /\ phase \notin Searching
      /\ phase \notin Sorting /\ phase \notin Typing /\ phase \notin Reaching
      /\ phase \notin {"acyclic", "sort", "reach", "accepted"}
    BY <1>1 DEF Passes, Indexing, Naming, Binding, Searching, Sorting, Typing, Reaching, Accepting
<1>4. ReferencesSound /\ Untouched
    BY <1>1, <1>3 DEF ReferencesSound, Untouched
<1> QED BY <1>1, <1>2, <1>3, <1>4 DEF GraphInv

LEMMA GraphStutters == GraphInv /\ UNCHANGED K!vars => GraphInv'
<1> SUFFICES ASSUME GraphInv, UNCHANGED K!vars PROVE GraphInv'
    OBVIOUS
<1>1. UNCHANGED <<definition, phase, states, stack, degree, ready, order, resolved, queue,
                  reachable, verdict>>
    BY DEF K!vars
<1>2. CASE phase \in BeforeSearch
    <2>1. GraphChecked' \/ TRUE
        OBVIOUS
    <2>2. /\ verdict'.error = "Cycle" => K!CycleIsReal'
          /\ verdict'.error = "UnreachableNode" =>
                \E S \in K!Contributing' : K!node_index(verdict.id)' \notin S
        BY <1>1, SameVerdict
    <2>3. K!IsProfile(definition)' /\ phase' \in Passes
        BY <1>1 DEF GraphInv
    <2>4. ReferencesSound'
        <3>1. IdsUnique => IdsUnique'
            BY <1>1, SameGraph DEF IdsUnique
        <3>2. OutputsKnown => OutputsKnown'
            BY <1>1, SameGraph DEF OutputsKnown
        <3>3. OperandsKnown => OperandsKnown'
            BY <1>1, SameGraph DEF OperandsKnown
        <3> QED BY <1>1, <3>1, <3>2, <3>3 DEF GraphInv, ReferencesSound
    <2>5. Untouched'
        BY <1>1, SameGraph DEF GraphInv, Untouched
    <2>6. /\ phase' \notin Sorting /\ phase' \notin Typing /\ phase' \notin Reaching
          /\ phase' \notin {"acyclic", "sort", "reach", "accepted"}
        BY <1>1, <1>2 DEF BeforeSearch, Sorting, Typing, Reaching, Accepting
    <2>7. order' # << >> => K!OrderIsStable'
        BY <1>1, SameOrder DEF GraphInv
    <2> QED BY <2>2, <2>3, <2>4, <2>5, <2>6, <2>7 DEF GraphInv
<1>3. CASE phase = "acyclic"
    BY <1>1, <1>3, SearchStep DEF GraphInv
<1>4. CASE phase = "rejected"
    <2>1. /\ verdict'.error = "Cycle" => K!CycleIsReal'
          /\ verdict'.error = "UnreachableNode" =>
                \E S \in K!Contributing' : K!node_index(verdict.id)' \notin S
        BY <1>1, SameVerdict
    <2> QED BY <1>1, <1>4, <2>1, RejectStep
<1>5. CASE phase \in Sorting
    <2>1. /\ verdict'.error = "Cycle" => K!CycleIsReal'
          /\ verdict'.error = "UnreachableNode" =>
                \E S \in K!Contributing' : K!node_index(verdict.id)' \notin S
        BY <1>1, SameVerdict
    <2>2. GraphChecked /\ Grounded(K!Indices) /\ OrderSound /\ (order # << >> => K!OrderIsStable)
        BY <1>5, SortingFacts DEF GraphInv
    <2>3. OrderSound' /\ (order' # << >> => K!OrderIsStable') /\ \A n : K!Listed(n)' = K!Listed(n)
        BY <1>1, <2>2, SameOrderSound, SameOrder
    <2>4. ASSUME phase = "sort" PROVE SortSound' /\ resolved' = << >>
        <3>1. K!Listed(Len(order))' = K!Listed(Len(order))
            BY <1>1 DEF K!Listed
        <3>2. Frontier' = Frontier
            BY <1>1, <3>1, SameOpen DEF Frontier
        <3>3. \A i : OpenOperands(i)' = OpenOperands(i)
            BY <1>1, <3>1, SameOpen DEF OpenOperands
        <3>4. SortSound
            BY <2>4 DEF GraphInv
        <3>5. resolved = << >>
            BY <2>4 DEF GraphInv, Untouched, Typing, Reaching, Accepting
        <3> QED BY <1>1, <3>2, <3>3, <3>4, <3>5, SameGraph DEF SortSound
    <2>5. ASSUME phase \in Typing PROVE K!Listed(Len(order))' = K!Indices' /\ TypesSound'
        <3>1. K!Listed(Len(order)) = K!Indices /\ TypesSound
            BY <2>5 DEF GraphInv
        <3> QED BY <1>1, <2>2, <3>1, TypesKept
    <2>6. phase \in Reaching => DOMAIN resolved' = K!Indices'
        BY <1>1, SameGraph DEF GraphInv
    <2>7. phase \notin Reaching => reachable' = {}
        <3>1. phase # "rejected"
            BY <1>5 DEF Sorting, Typing, Reaching, Accepting
        <3> QED BY <1>1, <3>1 DEF GraphInv, Untouched
    <2>8. ASSUME phase = "reach" PROVE ReachSound'
        <3>1. WaitingNodes' = WaitingNodes /\ K!Contributing' = K!Contributing
            BY <1>1, SameContributing DEF WaitingNodes
        <3>2. ReachSound
            BY <2>8 DEF GraphInv
        <3> QED BY <1>1, <3>1, <3>2, SameGraph DEF ReachSound
    <2>9. phase = "accepted" => \A S \in K!Contributing' : S = K!Indices'
        BY <1>1, SameGraph, SameContributing DEF GraphInv
    <2> QED BY <1>1, <1>5, <2>1, <2>2, <2>3, <2>4, <2>5, <2>6, <2>7, <2>8, <2>9, GroundedStep
            DEF GraphChecked
<1>6. phase \in BeforeSearch \/ phase = "acyclic" \/ phase = "rejected" \/ phase \in Sorting
    BY DEF GraphInv, Passes, Indexing, Naming, Binding, Searching, BeforeSearch
<1> QED BY <1>2, <1>3, <1>4, <1>5, <1>6

\* The validation of definitions of any size keeps what it has established.
THEOREM CalculationInvariant ==
    ASSUME NEW profiles, \A profile \in profiles : K!IsProfile(profile)
    PROVE  K!Spec(profiles) => []GraphInv
<1>1. (\E profile \in profiles : K!Init(profile)) => GraphInv
    BY InitGraph
<1>2. GraphInv /\ [K!Next]_K!vars => GraphInv'
    BY GraphStutters, AssembleStep, LocalStep, IndexStep, OutputsStep, OperandsStep, VisitRootStep,
       VisitDependencyStep, SkipVisitedStep, ReportCycleStep, FinishVisitStep, StartSortStep,
       SortNextStep, FinishSortStep, ResolveNextStep, SettingKeysStep, ReachNextStep,
       FinishValidationStep DEF K!Next
<1> QED BY <1>1, <1>2, PTL DEF K!Spec

\* What has been established makes every verdict right.
LEMMA VerdictFollows == GraphInv => K!VerdictIsRight
<1> SUFFICES ASSUME GraphInv PROVE K!VerdictIsRight
    OBVIOUS
<1>1. ASSUME phase = "accepted" PROVE K!Accepted
    <2>1. phase \in Sorting /\ phase \in Typing /\ phase \in Reaching
        BY <1>1 DEF Sorting, Typing, Reaching, Accepting
    <2>2. /\ Grounded(K!Indices) /\ K!Listed(Len(order)) = K!Indices /\ TypesSound
          /\ DOMAIN resolved = K!Indices /\ \A S \in K!Contributing : S = K!Indices
        BY <1>1, <2>1 DEF GraphInv
    <2>3. ~K!Cyclic
        BY <2>2 DEF Grounded, K!Cyclic
    <2> QED BY <2>2, <2>3 DEF K!Accepted, TypesSound, TypesOf
<1> QED BY <1>1 DEF GraphInv, K!VerdictIsRight

\* Whatever the size and shape of a definition, it is accepted only when it can
\* be evaluated, an error about a cycle or an unreachable node is true, and the
\* order is the stable topological one.
THEOREM VerdictAlwaysRight ==
    ASSUME NEW profiles, \A profile \in profiles : K!IsProfile(profile)
    PROVE  K!Spec(profiles) => []VerdictIsRight
BY CalculationInvariant, VerdictFollows, PTL DEF VerdictIsRight
=============================================================================
