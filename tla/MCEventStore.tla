---------------------------- MODULE MCEventStore ----------------------------
(***************************************************************************)
(* Small instances of the event store for TLC.                             *)
(***************************************************************************)
EXTENDS EventStore

Member(u) == [user |-> u, moderator |-> FALSE, bot |-> FALSE]
Moderator(u) == [user |-> u, moderator |-> TRUE, bot |-> FALSE]
Interaction(n, actor, command) ==
    [key |-> <<"discord", n>>, actor |-> actor, command |-> command]

JoinOne == Interaction(1, Member(1), [op |-> "Join"])
JoinTwo == Interaction(2, Member(2), [op |-> "Join"])
CreateMarket(m) == Interaction(3, Member(1),
    [op |-> "Create", id |-> m, options |-> 2, closes_at |-> 1])
BetAll(n, m) == Interaction(n, Member(1),
    [op |-> "Bet", id |-> m, outcome |-> 0, amount |-> 2])
Announce(n, destination) == Interaction(n, Moderator(2),
    [op |-> "Announce", channel |-> destination])
\* The key of the first join sent by somebody else.
Impostor == Interaction(1, Member(2), [op |-> "Join"])

CONSTANT m1
TaskSymmetry == Permutations(Tasks)

\* Commands and announcement changes race; a key may be sent by somebody else.
MixedRequests == {JoinOne, Impostor, CreateMarket(m1), Announce(6, 7), Announce(7, 0)}
\* Two submissions of a bet for all the points of the member.
SpendRequests == {JoinOne, CreateMarket(m1), BetAll(4, m1), BetAll(5, m1)}
\* A resolver is added, settles and is removed.
SettleRequests == {JoinOne, JoinTwo, CreateMarket(m1),
    Interaction(8, Member(1), [op |-> "AddResolver", id |-> m1, user |-> 2]),
    Interaction(9, Member(1), [op |-> "RemoveResolver", id |-> m1, user |-> 2]),
    Interaction(10, Member(2), [op |-> "Resolve", id |-> m1, outcome |-> 0])}
JoinRequests == {JoinOne}

\* The second member is found on the server, or has left it.
MemberTwo == {[kind |-> "Present", user |-> 2, bot |-> FALSE],
              [kind |-> "Absent", user |-> 2, bot |-> FALSE]}

OnePoint == {[amount |-> 1, interval |-> 1]}
RareGrants == {[amount |-> 1, interval |-> 5]}
TwoPoints == {[amount |-> 2, interval |-> 1]}
=============================================================================
