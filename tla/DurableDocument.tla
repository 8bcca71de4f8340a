-------------------------- MODULE DurableDocument --------------------------
(***************************************************************************)
(* What the server promises about one collaborative document, seen from    *)
(* outside (crates/server/src/document_actor.rs:91-94): content is a set    *)
(* of CRDT operations that only grows while the document exists, and every  *)
(* operation a client has been shown as committed - by an ACK, a sync       *)
(* answer or a broadcast - is part of it.                                   *)
(***************************************************************************)
CONSTANT Ops   \* identities of CRDT operations

VARIABLES
  live,     \* the document exists
  content,  \* operations a reconstruction would yield
  seen      \* operations shown to some client as committed

vars == <<live, content, seen>>

Init ==
  /\ live = TRUE
  /\ content \in SUBSET Ops
  /\ seen = {}

(* An update becomes durable.                                               *)
Commit ==
  /\ live
  /\ content' \in SUBSET Ops
  /\ content \subseteq content'
  /\ UNCHANGED <<live, seen>>

(* Clients are shown durable operations, and only those.                    *)
Show ==
  /\ live
  /\ seen' \in SUBSET content
  /\ seen \subseteq seen'
  /\ UNCHANGED <<live, content>>

(* Deletion ends the promise; nothing recreates the document.               *)
Delete ==
  /\ live
  /\ live' = FALSE
  /\ content' = {}
  /\ UNCHANGED seen

Next == Commit \/ Show \/ Delete

Spec == Init /\ [][Next]_vars
=============================================================================
