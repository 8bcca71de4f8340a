---------------------------- MODULE MCRoomSync ----------------------------
(* Two replicas of one document and a few connections.                      *)
EXTENDS RoomSync, TLC

CONSTANTS a, b, k1, k2, k3

Scenario(m, n, d, r, l) ==
  [edits |-> a :> m @@ b :> n, drops |-> d, restarts |-> r, limited |-> l]

OneDrop == {Scenario(2, 0, 1, 0, 0)}

\* Concurrent edits without a failure and with a drop; one user's with a refusal, and with
\* a refusal and a restart.
Mixed == {Scenario(2, 1, 0, 0, 0), Scenario(1, 1, 1, 0, 0), Scenario(2, 0, 0, 0, 1),
          Scenario(1, 0, 0, 1, 1)}
=============================================================================
