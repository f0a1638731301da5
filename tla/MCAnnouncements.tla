-------------------------- MODULE MCAnnouncements --------------------------
(***************************************************************************)
(* Announcements for TLC.  A behaviour belongs to one of two scenarios:    *)
(*   busy    two guilds that compete for a batch of one, the first with a  *)
(*           second row, under a fault and a clock that is set back;       *)
(*   moving  one guild whose destination moves, is disabled or confirmed   *)
(*           while requests fail, are aborted or arrive late.              *)
(***************************************************************************)
EXTENDS Announcements

VARIABLE scenario

mcVars == <<scenario, vars>>

\* The inputs of a scenario: they bound events, configuration changes, faults
\* and setbacks, never a step of the worker.
Within ==
    \/ /\ scenario = "busy"
       /\ faults' <= 1
       /\ revision'[1] <= 2 /\ revision'[2] <= 1
       /\ \A g \in Guilds : settings'[g].version <= 1 /\ settings'[g].channel \in {0, 7}
    \/ /\ scenario = "moving"
       /\ setbacks' = 0
       /\ revision'[2] = 0 /\ settings'[2].version = 0

MCInit == Init /\ scenario \in {"busy", "moving"}

MCNext == Next /\ Within /\ UNCHANGED scenario

MCSpec == MCInit /\ [][MCNext]_mcVars /\ Fairness
=============================================================================
