--------------------------- MODULE MCInteractions ---------------------------
(***************************************************************************)
(* Small guilds and scenarios for TLC: member 1 created the markets, member *)
(* 2 moderates, member 3 is not enrolled.                                  *)
(***************************************************************************)
EXTENDS Interactions

Joined(u, first) ==
    (IF first THEN <<[type |-> "GuildEconomyInitialized",
                      policy |-> [amount |-> 2, interval |-> 9]]>> ELSE << >>)
    \o <<[type |-> "MemberEnrolled", user |-> u, enrolled_at |-> 0],
         [type |-> "PointsGranted", user |-> u, reason |-> "Initial", amount |-> 2,
          from_due |-> 0, through_due |-> 0, next_grant |-> 9]>>
Created(m, closes) ==
    [type |-> "MarketCreated", id |-> m, creator |-> 1, options |-> 2,
     created_at |-> 0, closes_at |-> closes]
Assigned(m, u) ==
    [type |-> "MarketResolverAdded", id |-> m, user |-> u, by |-> 1, at |-> 0]

Members == Joined(1, TRUE) \o Joined(2, FALSE)
TwoMarkets == Members \o <<Created(1, 2), Created(2, 1)>>
Staked1 == TwoMarkets \o <<[type |-> "BetPlaced", id |-> 2, user |-> 1, outcome |-> 0,
                            amount |-> 1, accepted_at |-> 0],
                           [type |-> "BetPlaced", id |-> 2, user |-> 2, outcome |-> 1,
                            amount |-> 1, accepted_at |-> 0]>>
Settled == Staked1 \o <<[type |-> "MarketResolved", id |-> 2, outcome |-> 0, resolver |-> 1,
                         settled_at |-> 1, payouts |-> [u \in Users |-> IF u = 1 THEN 2 ELSE 0],
                         refunded |-> FALSE]>>

Histories ==
    [ bet |-> Members \o <<Created(1, 1)>>,
      browse |-> TwoMarkets,
      resolve |-> Staked1 \o <<Assigned(2, 2)>>,
      add |-> TwoMarkets,
      remove |-> TwoMarkets \o <<Assigned(1, 1), Assigned(1, 2)>>,
      inspect |-> Settled \o <<Assigned(1, 1), Assigned(1, 2)>>,
      create |-> Members \o <<Created(1, 2)>> ]
StartingGuilds ==
    [s \in DOMAIN Histories |->
        [state |-> Replay(Histories[s]), now |-> IF s = "resolve" THEN 1 ELSE 0]]
Limits == [bet |-> 6, browse |-> 3, resolve |-> 4, add |-> 4, remove |-> 4,
           inspect |-> 3, create |-> 4]

Troubles == [s \in DOMAIN Histories |-> IF s \in {"resolve", "browse"} THEN 2 ELSE 1]

By(u, request) == [user |-> u, request |-> request]
StartingCommands ==
    [ bet |-> By(1, <<"open", "bet">>),
      browse |-> By(2, <<"open", "bet">>),
      resolve |-> By(2, <<"open", "resolve">>),
      add |-> By(1, <<"open", "add", 0, 0>>),
      remove |-> By(2, <<"open", "remove", 0, 0>>),
      inspect |-> By(2, <<"open", "assignments">>),
      create |-> By(1, <<"open", "create">>) ]
OtherCommands ==
    [ bet |-> {},
      browse |-> {By(2, <<"write", "cancel", 1>>)},
      resolve |-> {By(1, <<"write", "resolve", 2, 0>>)},
      add |-> {By(1, <<"open", "add", 1, 2>>)},
      remove |-> {By(1, <<"open", "remove", 1, 0>>)},
      inspect |-> {By(1, <<"open", "positions", 0>>), By(3, <<"open", "positions", 2>>),
                   By(1, <<"open", "list">>)},
      create |-> {By(3, <<"write", "join">>), By(2, <<"write", "bet", 1, 0, 1>>)} ]
PressedOperations ==
    [ bet |-> {"market", "outcome", "confirm"},
      browse |-> {"market", "outcome", "page", "cancel"},
      resolve |-> {"market", "outcome", "confirm", "page"},
      add |-> {"market", "user", "confirm", "page", "people", "back"},
      remove |-> {"market", "user", "confirm", "page", "around", "assignments", "back"},
      inspect |-> {"market", "page", "list"},
      create |-> {"preset"} ]
MemberLookups ==
    {[kind |-> "Present", user |-> u, bot |-> FALSE] : u \in Users}
    \cup {[kind |-> "Absent", user |-> 2, bot |-> FALSE]}
=============================================================================
