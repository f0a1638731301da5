--------------------------- MODULE MCHearthstone ---------------------------
(***************************************************************************)
(* Fixture games for TLC: each pair of decks brings together cards whose   *)
(* effects meet in the engine (deaths and auras, weapons and failures,     *)
(* choices inside plays, copies and full boards, copies whose source has   *)
(* moved, turns and keywords).                                             *)
(***************************************************************************)
EXTENDS Hearthstone, HsCards

Ping == Targeted([BlankCard("HeroPower") EXCEPT !.def = "Ping", !.cost = 1,
                    !.effects = <<Deal(Sel("DeclaredTarget"), 1)>>], "Character")
Rest == [BlankCard("HeroPower") EXCEPT !.def = "Rest", !.cost = 9]

Game(one, two) == [One |-> one, Two |-> two, dominant |-> "One"]

----------------------------------------------------------------------------
(* Deaths, deathrattles and auras.                                         *)

Token == Minion("Token", 1, 1)
Lord == [Minion("Lord", 1, 1) EXCEPT
           !.auras = <<Aura("OtherFriendly", "Minions", "Health", 1),
                       Aura("OtherFriendly", "Minions", "Attack", 1)>>]
Bomber == [Minion("Bomber", 1, 1) EXCEPT
             !.triggers = <<Deathrattle(<<Deal(Group("All", "Minions"), 1)>>)>>]
Egg == [Minion("Egg", 0, 1) EXCEPT !.triggers = <<Deathrattle(<<Summon(Token)>>)>>]
Deaths == Game(Side(Ping, <<>>, <<Lord, Bomber, Egg>>), Side(Ping, <<>>, <<>>))

(* Weapons: a replacement, a hero swap, and a loop that exhausts a budget. *)
Blade == Weapon("Blade", 1, 1)
Axe == [Weapon("Axe", 1, 2) EXCEPT !.effects = <<Deal(Group("Enemy", "Characters"), 1)>>,
          !.triggers = <<Deathrattle(<<Heal(Group("Friendly", "Characters"), 1)>>)>>]
Grudge == [Minion("Grudge", 1, 3) EXCEPT
             !.triggers = <<On("Damage", "Always", <<Deal(Group("Enemy", "Characters"), 1)>>)>>]
Jaraxxus == Spell("Jaraxxus", <<[e |-> "ReplaceHero", player |-> "Controller",
              rep |-> Replacement([BlankCard("Hero") EXCEPT !.def = "Demon", !.health = 2],
                                  Rest, 1, Blade)],
              Deal(Group("Enemy", "Characters"), 1)>>)
Weapons == Game(Side(Rest, <<>>, <<Axe, Jaraxxus, Grudge>>), Side(Rest, <<>>, <<Grudge>>))

(* Choices suspended inside plays, self transformation, draws. *)
Shaper == [Minion("Shaper", 1, 1) EXCEPT !.effects =
             <<Choice(<<Option(1, <<Draw("Controller", 2)>>),
                        Option(2, <<Deal(Random("Enemy", "Characters"), 1)>>)>>),
               [e |-> "Transform", targets |-> Sel("Source"), card |-> Lord, kind |-> "PlayedSelf"]>>,
             !.triggers = <<On("AfterPlay", "EventTargetsSelf", <<Draw("Controller", 1)>>)>>]
Greeter == [Minion("Greeter", 1, 2) EXCEPT
              !.triggers = <<On("Summoned", "Always", <<Choice(<<
                 Option(1, <<Deal(Sel("DeclaredTarget"), 1)>>),
                 Option(2, <<AttachCost(Sel("DeclaredTarget"), 1)>>)>>)>>)>>]
Scry == Spell("Scry", <<[e |-> "DrawThen", player |-> "Controller", policy |-> "RunWithoutCard",
                         effects |-> <<AttachCost(Sel("DrawnCard"), -1)>>]>>)
Suspended == Game(Side(Rest, <<Token>>, <<Greeter, Shaper, Scry>>), Side(Rest, <<>>, <<>>))

(* Full zones: copies and summons beyond the board, cards taken and lost. *)
Mirror == Spell("Mirror", <<CopyOf(Group("Friendly", "Minions"))>>)
Steal == Targeted(Spell("Steal", <<Move(Sel("DeclaredTarget"), "Controller", "Play")>>), "Minion")
Recall == Targeted(Spell("Recall", <<Move(Sel("DeclaredTarget"), "Controller", "Hand")>>), "Minion")
Limits == Game(Side(Rest, <<>>, <<Egg, Mirror, Mirror>>), Side(Rest, <<>>, <<Recall, Steal>>))

(* Copies whose source has moved by the time they are made: when a copy fills the *)
(* board, the herald goes back to the hand and suspends the copies that remain.   *)
Herald == [Minion("Herald", 1, 1) EXCEPT
             !.triggers = <<[On("Summoned", "Always", <<Move(Sel("Source"), "Controller", "Hand"),
                                                       Choice(<<Option(1, <<>>)>>)>>)
                               EXCEPT !.conds = <<[t |-> "QueueTime", c |-> "MinimumEntityCount",
                                                   sel |-> Group("Friendly", "Minions"), n |-> 3]>>]>>]
Copies == Game(Side(Rest, <<>>, <<Token, Herald, Mirror>>), Side(Rest, <<>>, <<>>))

(* Keywords, expiry and extra turns. *)
Guard == [Minion("Guard", 1, 2) EXCEPT !.keywords = {"Taunt", "DivineShield", "Charge"}]
Freeze == Targeted(Spell("Freeze", <<AttachKw(Sel("DeclaredTarget"), "Frozen", Permanent),
                                     AttachStat(Sel("DeclaredTarget"), 1, 1, Turn("EndOfTurn", "One"))>>),
                   "Minion")
Hush == Targeted(Spell("Hush", <<[e |-> "Silence", targets |-> Sel("DeclaredTarget")]>>), "Minion")
Warp == Spell("Warp", <<[e |-> "ScheduleExtraTurns", player |-> "Controller", n |-> 1,
                         timing |-> "AfterCurrentTurn"]>>)
Turns == Game(Side(Ping, <<Token>>, <<Guard, Freeze>>), Side(Ping, <<Token>>, <<Warp, Hush>>))

MCGames == {Deaths, Weapons, Suspended, Limits, Copies, Turns}

\* The game of the divergence run.
ShieldGames == {Game(Side(Ping, <<>>, <<Guard, Freeze>>), Side(Rest, <<>>, <<>>))}

NoNatives == [x \in {} |-> <<>>]
=============================================================================
