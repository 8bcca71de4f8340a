-------------------------- MODULE MCDocumentActor --------------------------
(* Two room updates of which the second depends on the first, a catch-up    *)
(* update that carries both, so that updates overlap, and a replacement     *)
(* authored by the server.  Two tasks; three allocation identities, so that *)
(* a reloaded actor can differ from one a task still holds.                 *)
EXTENDS DocumentActor, TLC

CONSTANTS o1, o2, o3, u1, u2, u12, r1, i1, i2, i3, i4

MCOps == {o1, o2, o3}
MCDeps == o1 :> {} @@ o2 :> {o1} @@ o3 :> {}
MCUpdates == {u1, u2, u12, r1}
MCOpsOf == u1 :> {o1} @@ u2 :> {o2} @@ u12 :> {o1, o2} @@ r1 :> {o3}
MCIds == {i1, i2, i3, i4}
MCIdOf == u1 :> i1 @@ u2 :> i2 @@ u12 :> i3 @@ r1 :> i4

\* A RoomReplica built again from its persisted peer id and snapshot counts
\* its update ids from one again (room_replica.rs:167-170): its next edit
\* comes under the id of its first.
ReusedIdOf == [MCIdOf EXCEPT ![u2] = i1]

Symmetry == Permutations(Workers) \cup Permutations(Actors)
=============================================================================
