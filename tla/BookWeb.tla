------------------------------ MODULE BookWeb -------------------------------
(***************************************************************************)
(* The parts of the Book Smartz web process that share no table, lock or   *)
(* variable: saving a profile (Profile), asking Open Library (Catalog) and *)
(* delivering diagnostics (Diagnostics), with what holds of each of them.  *)
(***************************************************************************)
EXTENDS Profile, Integers

CONSTANTS
    Works, Fields, InFlight,                 \* Catalog: works, fields, requests
    GateInterval, Window, ReaderLimit,       \* its limits,
    FreshFor, CacheLimit, LastTime, MaxRequests, MaxOutages,
    Capacity, MaxRecords, MaxFailures        \* and Diagnostics

VARIABLES now, gate, admissions, admitted, dispatched, cache, used, requests,
          asked, outages,
          queue, accepting, running, worker, counters, reported, summed,
          readiness, discard, deadline, process, barrier, offered, fate, broken

C == INSTANCE Catalog WITH
        Slots <- InFlight, MaxTrouble <- MaxOutages, trouble <- outages

D == INSTANCE Diagnostics

\* What the limits of the code satisfy: whole seconds, and a queue with room
\* for the first record.
ASSUME InFlightAssumption == IsFiniteSet(InFlight)
ASSUME WorksAssumption == C!NoWork \notin Works
ASSUME LimitsAssumption ==
    GateInterval \in Nat \ {0} /\ Window \in Nat /\ ReaderLimit \in Nat
ASSUME CacheAssumption == FreshFor \in Nat /\ CacheLimit \in Nat
ASSUME CapacityAssumption == Capacity \in Nat \ {0}

catalogVars == <<now, gate, admissions, admitted, dispatched, cache, used,
                 requests, asked, outages>>
diagnosticsVars == <<queue, accepting, running, worker, counters, reported,
                     summed, readiness, discard, deadline, process, barrier,
                     offered, fate, broken>>

(* Requests to Open Library stay within the deployment's and the reader's *)
(* limits (Catalog, admission.rs admit).                                  *)
AdmissionsWithinLimits == C!AdmissionsWithinLimits

(* Metadata that is known of a work is not lost to an answer that lacks it *)
(* (Catalog, cache.rs retain_with_fallback and lookup).                    *)
MetadataSurvives == [][C!MetadataKept]_catalogVars

(* Every diagnostic record is accounted for, no loss is told twice, and a *)
(* shutdown reported as Completed drained the handlers' records           *)
(* (Diagnostics, diagnostics.rs deliver and finish_shutdown).             *)
RecordsAccountedFor == D!RecordsAccountedFor
=============================================================================
