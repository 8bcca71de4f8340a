--------------------------- MODULE RoomConnection ---------------------------
(***************************************************************************)
(* The server-owned connection of one room (crates/server/src/session.rs): *)
(* a map entry with an async mutex around the cached connection, the       *)
(* member queries and the AI reads that share it, the handlers that bind,  *)
(* unbind, publish, revoke, edit a profile or leave the room and then tear *)
(* it down, and the revocation that takes connections away from below.     *)
(*                                                                         *)
(* A slot is one allocation of the mutex: an entry that is removed while   *)
(* tasks wait on it lives on beside its successor.  A hidden session holds *)
(* one connection.  A member makes at most one request, so that the slot   *)
(* and the session it creates bear its name.  A profile's configuration    *)
(* and credentials are a revision; an edit is taken to change the digest a *)
(* grant pins for good.  A dropped request ends at an await and releases   *)
(* its guard; a statement is sent by a task of its own and goes on, on the *)
(* connection the next request may use (the driver queues or refuses the   *)
(* second statement).                                                      *)
(***************************************************************************)
EXTENDS Naturals, Sequences, FiniteSets

CONSTANTS
    Queries,    \* execute requests of members, one each
    Readers,    \* AI tool calls of room-public runs, one each
    Admins,     \* handlers and sockets that change the room or its profiles
    Profiles,   \* connection profiles
    Bound,      \* the profile the room is bound to at first
    None,       \* no profile, no task
    Scenarios   \* changes by the admins, and requests whose client goes away,
                \* in a behaviour (bounds)

Bounds == [ops : Nat, cuts : Nat]

Members == Queries \cup Readers
Tasks   == Members \cup Admins

ASSUME RoomAssumption ==
    /\ Queries \cap Readers = {} /\ Members \cap Admins = {}
    /\ Bound \in Profiles /\ None \notin Profiles \cup Tasks
    /\ Scenarios \subseteq Bounds

VARIABLES
    room,     \* the room's row: bound profile, and the grant not yet revoked
    grants,   \* ai_room_publication rows: the profile and revision each pins
    rev,      \* rev[p]: revision of the profile
    active,   \* the room has a live subscription
    entry,    \* the room's slot in room_connections
    slots,    \* slots[s]: the holder of the mutex and the RoomConn in it
    sess,     \* hidden sessions: state "empty" until the connection is in it,
              \* "bare" when a cancellation has taken it out again, "cut" if a
              \* revocation or the owner closed it; stray is history: no
              \* teardown will find the session
    adrift,   \* adrift[m]: the session on which m's statement runs on after
              \* its request was dropped or timed out
    task,     \* the tasks
    left      \* what is left of the bounds

vars == <<room, grants, rev, active, entry, slots, sess, adrift, task, left>>
meta == <<room, grants, rev, active>>
pool == <<entry, slots, sess, adrift>>

EmptySlot(h) == [holder |-> h, conn |-> None, pub |-> 0]
Gone(state)  == [profile |-> None, rev |-> 0, state |-> state, stray |-> FALSE]
FreeSlot  == EmptySlot(None)
NoSession == Gone("closed")

\* A request without a slot.
Off(pc, pub, read, then) ==
    [pc |-> pc, profile |-> None, pub |-> pub, slot |-> None, sess |-> None,
     read |-> read, todo |-> {}, then |-> then]
Resting == Off("idle", 0, None, "idle")

Init ==
    /\ room = [profile |-> Bound, pub |-> 1]
    /\ grants = <<[profile |-> Bound, rev |-> 0]>>
    /\ rev = [p \in Profiles |-> 0]
    /\ active = TRUE
    /\ entry = None
    /\ slots = [m \in Members |-> FreeSlot]
    /\ sess = [m \in Members |-> NoSession]
    /\ adrift = [m \in Members |-> None]
    /\ task = [t \in Tasks |-> Resting]
    /\ left \in Scenarios

-----------------------------------------------------------------------------
At(t, pc) == task[t].pc = pc
Goto(t, pc) == task' = [task EXCEPT ![t].pc = pc]

\* The request is answered; an admin goes on to its next one.
Ended(t) ==
    task' = [task EXCEPT ![t] =
                Off(IF t \in Admins THEN "idle" ELSE "done", 0, None, "idle")]

\* Where a member goes with its guard released: the execute handler still
\* looks whether the room is deserted, an AI tool call is over.
Past(t) ==
    IF t \in Readers THEN Ended(t)
    ELSE task' = [task EXCEPT ![t] = Off("after", 0, None, task[t].then)]

\* close_session; there may be no such session any more.
Closed(i) == [m \in Members |-> IF m = i THEN NoSession ELSE sess[m]]

\* The states of a session that is there, with its connection or without.
Open == {"empty", "up", "bare"}

\* Sessions closed from outside.
CutOff(ids) ==
    [m \in Members |-> IF m \in ids THEN Gone("cut") ELSE sess[m]]

\* cancel_unchecked for the drivers that give up a connection they interrupt:
\* the session stays, without its connection.
Bared(i) == [m \in Members |-> IF m = i /\ sess[m].state = "up"
                               THEN [sess[m] EXCEPT !.state = "bare"] ELSE sess[m]]

\* ai_room_publication: grant g is not revoked, and the room's binding and
\* the profile are still what it pins.
Valid(g) ==
    /\ g # 0 /\ room.pub = g
    /\ room.profile = grants[g].profile
    /\ rev[room.profile] = grants[g].rev

Waiting(s) == \E t \in Tasks : At(t, "close_wait") /\ task[t].slot = s

-----------------------------------------------------------------------------
(* Members: execute_room_query and with_ai_room_connection.                *)

\* The execute handler authorizes the member and copies the binding; it also
\* notes whether the room is deserted (then).
Route(q) ==
    /\ At(q, "idle") /\ room.profile # None
    /\ task' = [task EXCEPT
          ![q].pc = "routed", ![q].profile = room.profile,
          ![q].then = IF active THEN "done" ELSE "closing"]
    /\ UNCHANGED <<meta, pool, left>>

\* authorized_publication, before the tool call.
RouteReader(r) ==
    /\ At(r, "idle") /\ Valid(room.pub)
    /\ task' = [task EXCEPT ![r].pc = "routed", ![r].pub = room.pub,
                            ![r].profile = room.profile]
    /\ UNCHANGED <<meta, pool, left>>

\* entry(room).or_default().clone()
Enter(t) ==
    /\ At(t, "routed")
    /\ entry' = IF entry = None THEN t ELSE entry
    /\ task' = [task EXCEPT ![t].pc = "queued", ![t].slot = entry']
    /\ UNCHANGED <<meta, adrift, slots, sess, left>>

\* As Reusable, for AI reads too.
ReusableByAnyone(t, s) == s.conn # None /\ sess[s.conn].state = "up"

\* room_connection_is_live; an AI read also wants its own grant's connection.
\* Nothing compares the connection with the profile the member was routed to.
Reusable(t, s) ==
    /\ s.conn # None /\ sess[s.conn].state = "up"
    /\ t \in Readers => s.pub = task[t].pub

\* As Lock, forgetting the connection it replaces.
LockForgetsStale(t) ==
    LET s == task[t].slot IN
    /\ At(t, "queued") /\ slots[s].holder = None
    /\ IF Reusable(t, slots[s])
       THEN /\ slots' = [slots EXCEPT ![s].holder = t]
            /\ task' = [task EXCEPT ![t].pc = "execute", ![t].sess = slots[s].conn]
       ELSE /\ slots' = [slots EXCEPT ![s] = EmptySlot(t)]
            /\ Goto(t, "resolve")
    /\ UNCHANGED <<meta, adrift, entry, sess, left>>

\* slot.lock() is acquired: reuse the connection, or close what is left of it.
Lock(t) ==
    LET s == task[t].slot IN
    /\ At(t, "queued") /\ slots[s].holder = None
    /\ IF Reusable(t, slots[s])
       THEN /\ slots' = [slots EXCEPT ![s].holder = t]
            /\ task' = [task EXCEPT ![t].pc = "execute", ![t].sess = slots[s].conn]
            /\ UNCHANGED sess
       ELSE /\ slots' = [slots EXCEPT ![s] = EmptySlot(t)]
            /\ sess' = Closed(slots[s].conn)
            /\ Goto(t, "resolve")
    /\ UNCHANGED <<meta, adrift, entry, left>>

\* The guard is dropped and the member is past the room connection.
Unlock(t) == slots' = [slots EXCEPT ![task[t].slot].holder = None]

\* open_room_connection: the profile is read as it is now, then the hidden
\* session is opened.
Resolve(t) ==
    /\ At(t, "resolve")
    /\ sess' = [sess EXCEPT ![t] = [profile |-> task[t].profile, stray |-> FALSE,
                                    rev |-> rev[task[t].profile], state |-> "empty"]]
    /\ task' = [task EXCEPT ![t].pc = "opening", ![t].sess = t]
    /\ UNCHANGED <<meta, adrift, entry, slots, left>>

\* The profile is gone, its secret is missing or a quota is used up.
ResolveFails(t) ==
    /\ At(t, "resolve")
    /\ Unlock(t) /\ Past(t)
    /\ UNCHANGED <<meta, adrift, entry, sess, left>>

\* The driver has connected; the session may be gone by now.
Opened(t) ==
    /\ At(t, "opening")
    /\ IF sess[t].state = "empty"
       THEN /\ sess' = [sess EXCEPT ![t].state = "up"]
            /\ Goto(t, "register") /\ UNCHANGED slots
       ELSE /\ Unlock(t) /\ Past(t) /\ UNCHANGED sess
    /\ UNCHANGED <<meta, adrift, entry, left>>

\* As OpenFails, with the guard kept.
OpenFailsLocked(t) ==
    /\ At(t, "opening")
    /\ sess' = Closed(task[t].sess)
    /\ Past(t)
    /\ UNCHANGED <<meta, adrift, entry, slots, left>>

\* The driver could not connect in time: close the session.
OpenFails(t) ==
    /\ At(t, "opening")
    /\ sess' = Closed(task[t].sess)
    /\ Unlock(t) /\ Past(t)
    /\ UNCHANGED <<meta, adrift, entry, left>>

\* The connection enters managed_connections, then the slot.
Register(t) ==
    LET s == task[t].slot IN
    /\ At(t, "register")
    /\ slots' = [slots EXCEPT ![s].conn = t, ![s].pub = task[t].pub]
    /\ sess' = [sess EXCEPT ![t].stray =
                   sess[t].state \in Open /\ s # entry /\ ~Waiting(s)]
    /\ Goto(t, "execute")
    /\ UNCHANGED <<meta, adrift, entry, left>>

\* execute_stream, or dispatch with the grant checked again behind the queue:
\* either starts a statement on a connection that is still there, or ends.
Execute(t) ==
    /\ At(t, "execute")
    /\ \/ /\ sess[task[t].sess].state = "up"
          /\ t \in Readers => Valid(task[t].pub)
          /\ task' = [task EXCEPT ![t].pc = "running", ![t].read =
                         IF t \in Queries THEN None
                         ELSE [profile |-> sess[task[t].sess].profile,
                               rev |-> sess[task[t].sess].rev]]
          /\ UNCHANGED slots
       \/ Unlock(t) /\ Past(t)
    /\ UNCHANGED <<meta, adrift, entry, sess, left>>

\* The statement ends, well or not.  An AI read checks its grant once more
\* before it lets go of the connection.
Finish(t) ==
    /\ At(t, "running")
    /\ Unlock(t)
    /\ \/ Past(t)
       \/ /\ t \in Readers /\ Valid(task[t].pub)
          /\ task' = [task EXCEPT ![t] = Off("deliver", task[t].pub, task[t].read, "idle")]
    /\ UNCHANGED <<meta, adrift, entry, sess, left>>

\* request_timeout: the task that waits for the driver is aborted, or its cursor
\* cancelled, and the guard dropped.  Nothing stops a statement that has no
\* cursor yet, or whose cancellation fails; its connection is kept.
TimesOut(t) ==
    /\ At(t, "running")
    /\ Unlock(t) /\ Past(t)
    /\ \/ adrift' = [adrift EXCEPT ![t] = task[t].sess] /\ UNCHANGED sess
       \/ sess' = Bared(task[t].sess) /\ UNCHANGED adrift
    /\ UNCHANGED <<meta, entry, left>>

\* A statement without a request ends by itself; that of an AI read also by
\* QueryTaskGuard's cancellation, which runs in a task of its own.
StatementEnds(t) ==
    /\ adrift[t] # None
    /\ adrift' = [adrift EXCEPT ![t] = None]
    /\ \/ UNCHANGED sess
       \/ t \in Readers /\ sess' = Bared(adrift[t])
    /\ UNCHANGED <<meta, entry, slots, task, left>>

\* A query whose connection failed takes it out of the slot and closes it.
ConnectionFailed(q) ==
    /\ At(q, "running")
    /\ slots' = [slots EXCEPT ![task[q].slot] = FreeSlot]
    /\ sess' = Closed(task[q].sess)
    /\ Past(q)
    /\ UNCHANGED <<meta, adrift, entry, left>>

\* "No bytes reach the CLI until authority is checked again."
Deliver(r) ==
    /\ At(r, "deliver")
    /\ IF Valid(task[r].pub) THEN Goto(r, "served") ELSE Ended(r)
    /\ UNCHANGED <<meta, pool, left>>

\* A query in a room that was deserted and still is closes the connection.
After(q) ==
    /\ At(q, "after")
    /\ IF active \/ task[q].then = "done" THEN Ended(q) ELSE Goto(q, "closing")
    /\ UNCHANGED <<meta, pool, left>>

-----------------------------------------------------------------------------
(* close_room_connection, by an admin or at the end of a query.            *)

RemoveEntry(t) ==
    /\ At(t, "closing")
    /\ IF entry = None THEN Ended(t)
       ELSE task' = [task EXCEPT ![t].pc = "close_wait", ![t].slot = entry]
    /\ entry' = None
    /\ UNCHANGED <<meta, adrift, slots, sess, left>>

\* As CloseLocked, without waiting for the mutex.
CloseAtOnce(t) ==
    LET s == task[t].slot IN
    /\ At(t, "close_wait")
    /\ sess' = Closed(slots[s].conn)
    /\ slots' = [slots EXCEPT ![s].conn = None, ![s].pub = 0]
    /\ Ended(t)
    /\ UNCHANGED <<meta, adrift, entry, left>>

\* The mutex is acquired: take the connection and close its session.
CloseLocked(t) ==
    LET s == task[t].slot IN
    /\ At(t, "close_wait") /\ slots[s].holder = None
    /\ sess' = Closed(slots[s].conn)
    /\ slots' = [slots EXCEPT ![s].conn = None, ![s].pub = 0]
    /\ Ended(t)
    /\ UNCHANGED <<meta, adrift, entry, left>>

-----------------------------------------------------------------------------
(* Admins: a metadata change, then the teardown it calls for.              *)

Change(a) ==
    /\ At(a, "idle") /\ left.ops > 0
    /\ left' = [left EXCEPT !.ops = @ - 1]
    /\ UNCHANGED pool

\* bind_metadata_room_connection
Bind(a, p) ==
    /\ Change(a) /\ Goto(a, "closing")
    /\ room' = [room EXCEPT !.profile = p]
    /\ UNCHANGED <<grants, rev, active>>

\* unbind_metadata_room_connection; delete_metadata_room does the same.
Unbind(a) ==
    /\ Change(a) /\ Goto(a, "closing")
    /\ room' = [room EXCEPT !.profile = None]
    /\ UNCHANGED <<grants, rev, active>>

\* create_ai_publication: the grant before it is revoked.
Publish(a) ==
    /\ Change(a) /\ Goto(a, "closing")
    /\ room.profile # None
    /\ grants' = Append(grants, [profile |-> room.profile, rev |-> rev[room.profile]])
    /\ room' = [room EXCEPT !.pub = Len(grants')]
    /\ UNCHANGED <<rev, active>>

\* revoke_ai_publication
Revoke(a) ==
    /\ Change(a) /\ Goto(a, "closing")
    /\ room' = [room EXCEPT !.pub = 0]
    /\ UNCHANGED <<grants, rev, active>>

\* The upsert of a profile, a vault item's new version or a rotated
\* credential; disconnect_managed_profile follows.  Only the profiles of the
\* binding and of open sessions matter here.
EditProfile(a, p) ==
    /\ Change(a)
    /\ p \in {room.profile} \cup {sess[i].profile : i \in Members}
    /\ task' = [task EXCEPT ![a].pc = "collect", ![a].profile = p]
    /\ rev' = [rev EXCEPT ![p] = @ + 1]
    /\ UNCHANGED <<room, grants, active>>

\* remove_tenant_member, of the binder: the room is unbound, the member's
\* connections are taken away, then the room's is closed.
RemoveBinder(a) ==
    /\ Change(a)
    /\ task' = [task EXCEPT ![a].pc = "collect", ![a].then = "closing"]
    /\ room' = [room EXCEPT !.profile = None]
    /\ UNCHANGED <<grants, rev, active>>

\* The last socket of the room ends.
Leave(a) ==
    /\ Change(a) /\ Goto(a, "leaving")
    /\ active /\ active' = FALSE
    /\ UNCHANGED <<room, grants, rev>>

\* room_ws, after the socket: tear down if the room is still deserted.  The
\* upgraded socket has a task of its own, which no client can drop.
LeaveCheck(a) ==
    /\ At(a, "leaving")
    /\ IF active THEN Ended(a)
       ELSE task' = [task EXCEPT ![a].pc = "closing", ![a].then = "spawned"]
    /\ UNCHANGED <<meta, pool, left>>

\* A member opens a socket.
Join(a) ==
    /\ Change(a) /\ ~active /\ active' = TRUE
    /\ UNCHANGED <<room, grants, rev, task>>

\* The binder closes the hidden session like any other of its sessions.
CloseSession(a) ==
    /\ At(a, "idle") /\ left.ops > 0
    /\ \E i \in Members : sess[i].state \in Open /\ sess' = CutOff({i})
    /\ left' = [left EXCEPT !.ops = @ - 1]
    /\ UNCHANGED <<meta, adrift, entry, slots, task>>

\* disconnect_managed_*: the connections registered now; a cancellation leaves
\* its connection registered.
Collect(a) ==
    /\ At(a, "collect")
    /\ task' = [task EXCEPT ![a].pc = "disconnect", ![a].todo =
          {i \in Members :
              /\ sess[i].state \in {"up", "bare"} /\ ~At(i, "register")
              /\ task[a].profile \in {None, sess[i].profile}}]
    /\ UNCHANGED <<meta, pool, left>>

\* close_connection_unchecked on each, close_empty_sessions at the end.
Disconnect(a) ==
    /\ At(a, "disconnect")
    /\ sess' = CutOff({i \in task[a].todo : sess[i].state \in {"up", "bare"}})
    /\ IF task[a].then = "closing"
       THEN task' = [task EXCEPT ![a] = Off("closing", 0, None, "idle")]
       ELSE Ended(a)
    /\ UNCHANGED <<meta, adrift, entry, slots, left>>

-----------------------------------------------------------------------------
\* The client of a request goes away and its handler is dropped at an await.
\* A statement goes on without it (execute_stream_as keeps no abort guard, and
\* an aborted AI read's driver is not told); a session that is being opened stays
\* behind, and so does a connection only this teardown was to close; a metadata
\* change is done, its teardown is not.
Cut(t) ==
    LET s == task[t].slot
        held == s # None /\ slots[s].holder = t
        lost == (IF At(t, "opening") THEN {t} ELSE {}) \cup
                (IF At(t, "close_wait") THEN {slots[s].conn} ELSE {})
    IN
    /\ left.cuts > 0 /\ task[t].then # "spawned"
    /\ task[t].pc \in {"queued", "resolve", "opening", "execute", "running",
                       "closing", "close_wait", "collect", "disconnect"}
    /\ left' = [left EXCEPT !.cuts = @ - 1]
    /\ IF held THEN Unlock(t) ELSE UNCHANGED slots
    /\ Ended(t)
    /\ sess' = [m \in Members |-> IF m \in lost /\ sess[m].state \in Open
                                  THEN [sess[m] EXCEPT !.stray = TRUE] ELSE sess[m]]
    /\ adrift' = IF At(t, "running") THEN [adrift EXCEPT ![t] = task[t].sess] ELSE adrift
    /\ UNCHANGED <<meta, entry>>

MemberStep(t) ==
    \/ Enter(t) \/ Lock(t) \/ Resolve(t) \/ ResolveFails(t) \/ Opened(t)
    \/ OpenFails(t) \/ Register(t) \/ Execute(t) \/ Finish(t) \/ TimesOut(t)
    \/ t \in Queries /\ (ConnectionFailed(t) \/ After(t))
    \/ t \in Readers /\ Deliver(t)

CloseStep(t) == RemoveEntry(t) \/ CloseLocked(t)

AdminStep(a) == LeaveCheck(a) \/ Collect(a) \/ Disconnect(a)

AdminChange(a) ==
    \/ \E p \in Profiles : Bind(a, p) \/ EditProfile(a, p)
    \/ Unbind(a) \/ Publish(a) \/ Revoke(a) \/ RemoveBinder(a)
    \/ Leave(a) \/ Join(a) \/ CloseSession(a)

Next ==
    \/ \E q \in Queries : Route(q)
    \/ \E r \in Readers : RouteReader(r)
    \/ \E t \in Members : MemberStep(t) \/ StatementEnds(t)
    \/ \E t \in Tasks : CloseStep(t) \/ Cut(t)
    \/ \E a \in Admins : AdminStep(a) \/ AdminChange(a)

\* A request that has begun is polled until it ends: statements, opens and
\* metadata calls have timeouts, and the mutex serves its queue.
Fairness ==
    /\ \A t \in Members : WF_vars(MemberStep(t))
    /\ \A t \in Tasks : WF_vars(CloseStep(t))
    /\ \A a \in Admins : WF_vars(AdminStep(a))

Spec == Init /\ [][Next]_vars /\ Fairness

-----------------------------------------------------------------------------
(* Properties.                                                             *)

MemberPcs == {"routed", "queued", "resolve", "opening", "register", "execute",
              "running", "after", "deliver", "served"}
AdminPcs  == {"leaving", "collect", "disconnect"}

Slots    == [holder : Members \cup {None}, conn : Members \cup {None}, pub : Nat]
Sessions == [profile : Profiles \cup {None}, rev : Nat, state : Open \cup {"cut", "closed"},
             stray : BOOLEAN]
Requests == [pc : {"idle", "closing", "close_wait", "done"} \cup MemberPcs \cup AdminPcs,
             profile : Profiles \cup {None}, pub : Nat, slot : Members \cup {None},
             sess : Members \cup {None},
             read : {None} \cup [profile : Profiles \cup {None}, rev : Nat],
             todo : SUBSET Members, then : {"idle", "done", "closing", "spawned"}]

StateTypes ==
    /\ room \in [profile : Profiles \cup {None}, pub : 0..Len(grants)]
    /\ grants \in Seq([profile : Profiles, rev : Nat])
    /\ rev \in [Profiles -> Nat]
    /\ active \in BOOLEAN /\ entry \in Members \cup {None}
    /\ slots \in [Members -> Slots]
    /\ sess \in [Members -> Sessions]
    /\ task \in [Tasks -> Requests]
    /\ left \in Bounds

\* Type invariant.
TypeOK == StateTypes /\ adrift \in [Members -> Members \cup {None}]

\* execute_room_query "serializes concurrent member queries onto the single
\* connection" as long as requests last: the statement of a request that is
\* still there meets no other such statement on its connection, and neither a
\* teardown, which has taken the slot out of the map before, nor a member who
\* replaces a stale connection closes the session under it.  What it may meet is
\* a statement adrift, and only a revocation, the owner or a late cancellation
\* takes its connection away.  Stated with the type invariant.
ExclusiveUse ==
    /\ TypeOK
    /\ \A t \in Members : At(t, "running") =>
          /\ sess[task[t].sess].state \in {"up", "bare", "cut"}
          /\ \A u \in Members \ {t} : At(u, "running") => task[u].sess # task[t].sess

\* "A replacement cannot silently reuse an older credential session": what an
\* AI read delivers under a grant came from a connection opened with the very
\* profile and revision the grant pins, although binding, profile and grant
\* change while the read waits, opens and runs.
PublicReadsPinned ==
    \A r \in Readers : At(r, "served") =>
        grants[task[r].pub] = task[r].read

\* Nothing outlives the teardown of a room unnoticed: a hidden session that is
\* open is in the map's slot, in a slot somebody is still on his way to, or
\* being opened.  The exceptions are the two the code has: a query that opens
\* on a slot that has left the map, and a request dropped half-way.
NothingLeftBehind ==
    \A i \in Members : sess[i].state \in Open /\ ~sess[i].stray =>
        \/ task[i].pc \in {"opening", "register"}
        \/ \E s \in Members :
              /\ slots[s].conn = i
              /\ s = entry \/ slots[s].holder # None \/ Waiting(s)

\* Everybody gets an answer: no order of queries, reads, teardowns, failures
\* and dropped requests leaves the room's mutex held or its queue stuck.
EveryRequestReturns ==
    \A t \in Tasks :
        task[t].pc # "idle" ~> task[t].pc \in {"idle", "done", "served"}

\* "Drop any existing server-owned connection so the next room query reopens
\* under the newly bound profile": with no handler at work, a query runs on a
\* connection of the profile it was authorized for.
QueriesRunOnBinding ==
    (\A a \in Admins : At(a, "idle")) =>
        \A q \in Queries : At(q, "running") /\ sess[task[q].sess].state = "up" =>
            sess[task[q].sess].profile = task[q].profile

=============================================================================
