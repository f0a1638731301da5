--------------------------- MODULE MCStoreRefines ---------------------------
(***************************************************************************)
(* Two scenarios in which the store is compared with Economy, chosen at    *)
(* the start.                                                              *)
(***************************************************************************)
EXTENDS MCEventStore

VARIABLE scenario

\* A process that dies may be followed by one with another policy.
EitherPolicy == OnePoint \cup TwoPoints

\* Either members spend the same points twice while the database fails, or a
\* market of two members is settled by resolvers that come and go.
Scenarios ==
    [spend |-> [requests |-> SpendRequests, members |-> {}, policies |-> EitherPolicy,
                ticks |-> 0, faults |-> 1],
     settle |-> [requests |-> SettleRequests, members |-> {1, 2}, policies |-> RareGrants,
                 ticks |-> 1, faults |-> 0]]

AllRequests == SpendRequests \cup SettleRequests
AllPolicies == EitherPolicy \cup RareGrants

ScenarioInit ==
    /\ scenario \in DOMAIN Scenarios
    /\ Init
    /\ defaults \in Scenarios[scenario].policies

ScenarioNext ==
    /\ UNCHANGED scenario
    /\ \/ \E t \in Tasks, request \in Scenarios[scenario].requests :
            /\ \/ request.command.op = "Join"
               \/ Scenarios[scenario].members \subseteq DOMAIN guild.state.accounts
            /\ Deliver(t, request)
       \/ Internal
    /\ ticks' <= Scenarios[scenario].ticks /\ faults' <= Scenarios[scenario].faults
    /\ defaults' \in Scenarios[scenario].policies

ScenarioSpec == ScenarioInit /\ [][ScenarioNext]_<<scenario, vars>>
=============================================================================
