------------------------- MODULE MCFollowerAppend -------------------------
EXTENDS FollowerAppend, TLC

Symmetry == Permutations(Handler)

(* Entry 1 is committed; entry 2 differs between the leaders. *)
MCLeaderLog == [t \in 1..2 |-> IF t = 1 THEN <<1, 1>> ELSE <<1, 2, 2>>]
MCLeaderCommit == [t \in 1..2 |-> t]
============================================================================
