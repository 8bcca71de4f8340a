------------------------- MODULE MCRoomConnection -------------------------
(* Member queries, an AI read and an administrator in one room.            *)
EXTENDS RoomConnection

CONSTANTS q1, q2, r1, a1, p1, p2

Scenario(n, m) == [ops |-> n, cuts |-> m]

\* Two changes, or one and a request that is dropped.
Mixed == {Scenario(2, 0), Scenario(1, 1)}

OneChange == {Scenario(1, 0)}
=============================================================================
