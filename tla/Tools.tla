------------------------------- MODULE Tools -------------------------------
(***************************************************************************)
(* The repository's command-line tools that talk to GitHub: the            *)
(* publication of a ticket plan (Publication), the requests for a hosted   *)
(* review (HostedReview) and the verification of a merge                   *)
(* (MergeVerification), with what holds of each of them.  They share no    *)
(* file and no variable.                                                   *)
(***************************************************************************)
EXTENDS Integers, Sequences, FiniteSets

CONSTANTS
    Plan, Existing, Children, MaxChildren, Triage,      \* Publication
    MaxRetries, MaxEdits, MaxTrouble,
    Timeout, Scenarios, LastTime, MaxComments,          \* HostedReview
    Heads, Paths, Documentation, Base, Tree(_), Combined, Builds, Demanded,
    Inputs, MaxMoves, MaxRuns                           \* and MergeVerification

VARIABLES issues, others, inflight, sent, allowed, disk, exported, run, report,
          edits, trouble,
          clock, pull, provider, ci, comments, sending, state, wake, reviewer,
          told, missed, scenario, changes, faults,
          request, main, merge, build, hosted, decision, threads, receipts,
          command, vouched, moves, runs

T == INSTANCE Publication WITH External <- Existing

H == INSTANCE HostedReview WITH
        inflight <- sending, disk <- state, run <- reviewer, edits <- changes,
        trouble <- faults

M == INSTANCE MergeVerification WITH pull <- request, Required <- Demanded

\* A plan is a list of tickets, and whichever of them have their issues, one of
\* the others can have its own: no ticket waits for itself (plan.rs).
ASSUME ExistingAssumption == Existing \in Nat
ASSUME PlanAssumption ==
    /\ Plan \in Seq({Plan[ticket] : ticket \in T!Tickets})
    /\ \A created \in SUBSET T!Tickets : created # T!Tickets =>
          \E ticket \in T!Tickets \ created : Plan[ticket].tickets \subseteq created

\* A pull request is at some commit.
ASSUME HeadsAssumption == Heads # {}

\* A review is waited for a number of seconds.
ASSUME TimeoutAssumption == Timeout \in Nat

publicationVars == <<issues, others, inflight, sent, allowed, disk, exported,
                     run, report, edits, trouble>>
reviewVars == <<clock, pull, provider, ci, comments, sending, state, wake,
                reviewer, told, missed, scenario, changes, faults>>
mergeVars == <<request, main, merge, build, hosted, decision, threads, receipts,
               command, vouched, moves, runs>>

(* A ticket gets a second issue only by an operator's word (Publication, *)
(* publish.rs and recovery.rs).                                          *)
NoUnauthorizedDuplicates == T!NoUnauthorizedDuplicates

(* What a publication reports agrees with what it left behind and has read *)
(* back (Publication, publish.rs, graph.rs and labels.rs).                 *)
OutcomeIsHonest == [][T!OutcomeIsHonest]_publicationVars

(* Requests for one head are a timeout apart (HostedReview, main.rs). *)
RequestsSpaced == H!RequestsSpaced

(* A wake notifies exactly when its observation changed (HostedReview, *)
(* wake.rs).                                                           *)
WakesTellTransitions == [][H!WakesTellTransitions]_reviewVars

(* An accepted merge is of a head that passed every gate, and brought what *)
(* was reviewed (MergeVerification, verify.rs).                            *)
MergedIsReviewed == M!MergedIsReviewed
=============================================================================
