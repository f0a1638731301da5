------------------------------ MODULE MCGuild ------------------------------
(***************************************************************************)
(* Small guilds of the prediction bot for TLC.  A behaviour belongs to one *)
(* of three scenarios, chosen at the start, each with the inputs its       *)
(* properties need:                                                        *)
(*   market    a market with every command, members that leave, and points *)
(*             up to the limit of the integers;                            *)
(*   grants    schedules over a long time and restarts with another policy;*)
(*   pool      stakes of three members whose shares do not divide evenly.  *)
(***************************************************************************)
EXTENDS Economy

VARIABLE scenario

Member(u) == [user |-> u, moderator |-> FALSE, bot |-> FALSE]
Moderator(u) == [user |-> u, moderator |-> TRUE, bot |-> FALSE]
Bot(u) == [user |-> u, moderator |-> TRUE, bot |-> TRUE]

\* Two members, the second of whom may act as a moderator, and a bot.
SmallGuild == {Member(1), Member(2), Moderator(2), Bot(2)}

PresentMembers == {[kind |-> "Present", user |-> u, bot |-> FALSE] : u \in {1, 2}}
\* A lookup may find the second member as a bot, gone, or not answer.
SomeEvidence ==
    PresentMembers \cup {[kind |-> "Present", user |-> 2, bot |-> TRUE],
                         [kind |-> "Absent", user |-> 2, bot |-> FALSE],
                         [kind |-> "Unavailable", user |-> 2, bot |-> FALSE]}

\* Two grants of half of all representable points.
OnePolicy == {[amount |-> 6, interval |-> 4]}

LongTimes == {0, 1, 2, 4, 7}
TwoPolicies == {[amount |-> 2, interval |-> 1], [amount |-> 1, interval |-> 2]}

FourPoints == [amount |-> 4, interval |-> 12]

guildVars == <<scenario, vars>>

MCInit ==
    /\ scenario \in {"market", "grants", "pool"}
    /\ state = EmptyState
    /\ now = 0
    /\ enrolled_at = [u \in Users |-> 0]
    /\ granted = [u \in Users |-> 0]

\* Members join, also processes with another policy, and are granted points.
GrantsNext ==
    \E time \in LongTimes, user \in {1, 2} :
        \/ Grant(user, time)
        \/ \E policy \in TwoPolicies : Join(Member(user), policy, time)

\* Members join and stake on a market.
PoolNext ==
    \E time \in {0, 1}, user \in Users, id \in Markets :
        \/ Join(Member(user), FourPoints, time)
        \/ Create(Member(user), id, 2, 1, time)
        \/ \E outcome \in {0, 1}, amount \in {1, 3} :
                Bet(Member(user), id, outcome, amount, time)

MCNext ==
    /\ UNCHANGED scenario
    /\ \/ scenario = "market" /\ Next
       \/ scenario = "grants" /\ GrantsNext
       \/ scenario = "pool" /\ PoolNext

MCSpec == MCInit /\ [][MCNext]_guildVars
=============================================================================
