-------------------------- MODULE MCBookSmartz --------------------------
(***************************************************************************)
(* The ranking actions of two readers on a small instance: one has ranked  *)
(* two books and is placing a third, the other starts with nothing.        *)
(***************************************************************************)
EXTENDS RankingActions

MCWorks == {"w1", "w2", "w3", "w4"}
MCBooks == {"b1", "b2", "b3", "b4", "b5", "b6"}
MCReaders == {"r", "q"}
MCSlots == {1, 2}
MCStartBooks == [w \in MCWorks |-> CASE w = "w1" -> "b1" [] w = "w2" -> "b2" [] w = "w3" -> "b3" [] OTHER -> "NoBook"]

Doc(r, n, candidate, kind, opponent, choice) ==
    encode_event(r, Event(100 + n, n, candidate, kind, opponent, choice), 0, 0)

TwoRanked(r) == <<Doc(r, 1, "b1", "started", NoBook, "none"),
                  Doc(r, 2, "b2", "started", NoBook, "none"),
                  Doc(r, 3, "b2", "answered", "b1", "prefer_candidate")>>
Comparing(r) == Append(TwoRanked(r), Doc(r, 4, "b3", "started", NoBook, "none"))
MCStarts == {[x \in MCReaders |-> IF x = "r" THEN Comparing("r") ELSE <<>>],
             [x \in MCReaders |-> <<>>]}
=============================================================================
