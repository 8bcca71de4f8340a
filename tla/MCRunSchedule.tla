--------------------------- MODULE MCRunSchedule ---------------------------
(* Model values for RunSchedule: the three concurrency policies, and what the environment *)
(* does together.                                                                        *)
EXTENDS RunSchedule

Forbid   == [kind |-> "forbid", max |-> 1]
QueueOne == [kind |-> "queue_one", max |-> 1]
Parallel == [kind |-> "parallel", max |-> 2]
AllPolicies  == {Forbid, QueueOne, Parallel}

Nothing == [e \in Events |-> 0]

\* Two fires with a crash, a resume and a cancellation; a foreground run beside a fire and
\* a crash; an edit or deletion, a revocation and a crash around a fire.
Fires      == [Nothing EXCEPT !["minute"] = 2, !["crash"] = 1, !["resume"] = 1, !["cancel"] = 1]
Foreground == [Nothing EXCEPT !["minute"] = 1, !["crash"] = 1, !["resume"] = 1, !["foreground"] = 1]
Edits      == [Nothing EXCEPT !["minute"] = 1, !["crash"] = 1, !["resume"] = 1, !["edit"] = 1,
                              !["revoke"] = 1]
AllScenarios == {Fires, Foreground, Edits}
=============================================================================
