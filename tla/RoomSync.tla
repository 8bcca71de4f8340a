------------------------------ MODULE RoomSync ------------------------------
(***************************************************************************)
(* How the replicas of one collaborative document follow its committed      *)
(* content over the room WebSocket: the SDK client                          *)
(* (crates/client-sdk/src/lib.rs, room_replica.rs) as the desktop drives it *)
(* (crates/desktop/src/app.rs, run_room_document), the server's connection  *)
(* task (crates/server/src/http.rs, handle_room_ws) and the room's document *)
(* lane (room_runtime.rs).                                                  *)
(*                                                                          *)
(* The document itself is its content, as DurableDocument promises it.  An  *)
(* operation is <<client, n>>; hist records what its author had seen.  The  *)
(* operations an update carries stand for its update_id.  A writer is       *)
(* always an editor of the room, so role checks never refuse.               *)
(***************************************************************************)
EXTENDS Naturals, Sequences, FiniteSets

CONSTANTS
  Clients,
  Conns,        \* identities of WebSocket connections
  None,
  MaxEdits,     \* the edits one user makes at most
  LaneCap,      \* DOC_CHANNEL_CAPACITY
  Scenarios,    \* bounds on each user's edits, and on network failures, server
                \* restarts and refused messages
  Limited       \* the kinds of message the rate limiter may refuse

ASSUME RoomAssumption ==
  /\ None \notin Clients \cup Conns
  /\ LaneCap \in Nat \ {0}
  /\ MaxEdits \in Nat
  /\ Scenarios \subseteq [edits : [Clients -> 0..MaxEdits],
                          drops : Nat, restarts : Nat, limited : Nat]
  /\ Limited \subseteq {"attach", "sync", "update"}

VARIABLES
  content,  \* committed operations
  hist,     \* operation -> operations its author had applied
  has,      \* client -> operations its replica has imported
  pending,  \* client -> updates awaiting a durable ACK
  await,    \* client -> the update submit_update waits for
  call,     \* client -> the SDK call that runs: connect (or heartbeat), next,
            \* submit, or a submit that has to reconnect before it sends
  st,       \* client -> where in that call it is
  sock,     \* client -> its socket
  conn,     \* connection -> its two ends
  up,       \* connection -> messages to the server
  down,     \* connection -> messages to the client
  missed,   \* history: client -> operations it is excused to lack until it
            \* synchronizes again
  budget    \* the scenario: edits, and the failures still allowed

client == <<has, pending, await, call, st, sock, hist, missed>>
vars == <<content, client, conn, up, down, budget>>

Ops == Clients \X (1..MaxEdits)
Own(c) == {o \in has[c] : o[1] = c}

\* What an imported set shows: an operation waits for its history.
Visible(S) == {o \in S : hist[o] \subseteq S}

States == {"offline", "attaching", "syncing", "catchup", "ready",
           "resyncing", "recatchup", "submitting", "failed"}
Connected == States \ {"offline", "failed"}
Reconnecting == {"attaching", "syncing", "catchup"}
WithSocket == {"ready", "resyncing", "recatchup"}
Submitting == {"catchup", "recatchup", "submitting"}

\* The clients of D, as far as they lack operations of S, are excused for it.
Excused(D, S) == [c \in Clients |-> IF c \in D THEN missed[c] \cup (S \ has[c]) ELSE missed[c]]

NoConn == [peer |-> None, open |-> FALSE, task |-> "ended", ops |-> {}, applied |-> FALSE,
           attached |-> FALSE, writer |-> FALSE, lane |-> <<>>, lagged |-> FALSE]

Msg(t, S) == [type |-> t, ops |-> S]
Kinds == {"attach", "sync", "update", "attached", "data", "synced", "ack",
          "committed", "resync", "limited", "in_use", "missing"}
Messages == [type : Kinds, ops : SUBSET Ops]

Tasks == {"ended", "idle", "acking", "publishing"}
ConnRecs == [peer : Clients \cup {None}, open : BOOLEAN, task : Tasks, ops : SUBSET Ops,
             applied : BOOLEAN, attached : BOOLEAN, writer : BOOLEAN, lane : Seq(SUBSET Ops),
             lagged : BOOLEAN]

StateTypes ==
  /\ content \in SUBSET Ops
  /\ hist \in [Ops -> SUBSET Ops]
  /\ has \in [Clients -> SUBSET Ops]
  /\ pending \in [Clients -> SUBSET (SUBSET Ops)]
  /\ await \in [Clients -> SUBSET Ops]
  /\ call \in [Clients -> {"connect", "next", "submit", "resubmit"}]
  /\ st \in [Clients -> States]
  /\ sock \in [Clients -> Conns \cup {None}]
  /\ conn \in [Conns -> ConnRecs]
  /\ up \in [Conns -> Seq(Messages)]
  /\ down \in [Conns -> Seq(Messages)]
  /\ budget \in [edits : [Clients -> 0..MaxEdits], drops : Nat, restarts : Nat, limited : Nat]

TypeOK == StateTypes /\ missed \in [Clients -> SUBSET Ops]

Init ==
  /\ content = {}
  /\ hist = [o \in Ops |-> {}]
  /\ has = [c \in Clients |-> {}]
  /\ pending = [c \in Clients |-> {}]
  /\ await = [c \in Clients |-> {}]
  /\ call = [c \in Clients |-> "connect"]
  /\ st = [c \in Clients |-> "offline"]
  /\ sock = [c \in Clients |-> None]
  /\ conn = [k \in Conns |-> NoConn]
  /\ up = [k \in Conns |-> <<>>]
  /\ down = [k \in Conns |-> <<>>]
  /\ missed = [c \in Clients |-> {}]
  /\ budget \in Scenarios

-----------------------------------------------------------------------------
(* The two ends of a connection.                                            *)

\* A message sent to a task that has ended is lost.
Sent(k, m) == IF conn[k].task = "ended" THEN up ELSE [up EXCEPT ![k] = Append(@, m)]

\* handle_room_ws returns: the subscription, the attachment and the writer
\* leases are dropped.  What was written to the socket can still be read.
Ended(k) ==
  IF conn[k].open THEN [NoConn EXCEPT !.peer = conn[k].peer, !.open = TRUE] ELSE NoConn

\* The client's end goes away.
Left(k) == IF conn[k].task = "ended" THEN NoConn ELSE [conn[k] EXCEPT !.open = FALSE]

\* What an SDK call does when its socket fails: reconnect loops and submit
\* try again; next hands the error of a resync to its caller, and the
\* desktop's document task ends on it.
AfterLoss(c) == IF st[c] \in {"resyncing", "recatchup"} THEN "failed" ELSE "offline"

-----------------------------------------------------------------------------
(* The client.                                                              *)

\* PersistentRoomClient::reconnect opens a socket and attaches.  The server
\* subscribes the connection to the room before it reads from it.
Connect(c) ==
  /\ st[c] = "offline"
  /\ \E k \in Conns : conn[k] = NoConn
  /\ LET k == CHOOSE j \in Conns : conn[j] = NoConn
     IN /\ sock' = [sock EXCEPT ![c] = k]
        /\ conn' = [conn EXCEPT ![k] = [NoConn EXCEPT !.peer = c, !.open = TRUE, !.task = "idle"]]
        /\ up' = [up EXCEPT ![k] = <<Msg("attach", {})>>]
  /\ st' = [st EXCEPT ![c] = "attaching"]
  /\ UNCHANGED <<content, missed, hist, has, pending, await, call, down, budget>>

\* The message at the head of the socket.
Waiting(c, t) ==
  /\ sock[c] # None /\ down[sock[c]] # <<>>
  /\ Head(down[sock[c]]).type = t

Incoming(c, t) ==
  /\ Waiting(c, t)
  /\ down' = [down EXCEPT ![sock[c]] = Tail(@)]

\* sync_message: the replica's version vector.
SendSync(c) == up' = Sent(sock[c], Msg("sync", Visible(has[c])))

RecvAttached(c) ==
  /\ Incoming(c, "attached") /\ st[c] = "attaching"
  /\ SendSync(c)
  /\ st' = [st EXCEPT ![c] = "syncing"]
  /\ UNCHANGED <<content, missed, hist, has, pending, await, call, sock, conn, budget>>

\* attach discards whatever arrives before Attached.
RecvDiscarded(c) ==
  /\ \E t \in {"committed", "resync", "limited"} : Incoming(c, t)
  /\ st[c] = "attaching"
  /\ UNCHANGED <<content, client, conn, up, budget>>

\* A chunked transfer or a peer's commit is imported.
RecvImport(c) ==
  /\ \E t \in {"data", "committed"} : Incoming(c, t)
  /\ st[c] # "attaching"
  /\ has' = [has EXCEPT ![c] = @ \cup Head(down[sock[c]]).ops]
  /\ UNCHANGED <<content, missed, hist, pending, await, call, st, sock, conn, up, budget>>

\* The SDK call is over and the desktop goes back to next; a submit that found
\* no socket has reconnected and sends its update only now.
Returned(c) ==
  LET last == {<<c, Cardinality(Own(c))>>}
  IN \/ /\ call[c] # "resubmit"
        /\ st' = [st EXCEPT ![c] = "ready"]
        /\ await' = [await EXCEPT ![c] = {}]
        /\ call' = [call EXCEPT ![c] = "next"]
        /\ UNCHANGED up
     \/ /\ call[c] = "resubmit"
        /\ st' = [st EXCEPT ![c] = "submitting"]
        /\ await' = [await EXCEPT ![c] = last]
        /\ call' = [call EXCEPT ![c] = "submit"]
        /\ up' = Sent(sock[c], Msg("update", last))

\* Defect: the server's frontier clears pending, and the divergence is not sent.
CatchUpForgets(c, version) ==
  /\ pending' = [pending EXCEPT ![c] = {}]
  /\ Returned(c)

\* catch_up: pending is replaced by one update with all the server misses.
CatchUp(c, version) ==
  LET lacks == Visible(has[c]) \ version
  IN \/ /\ lacks = {}
        /\ pending' = [pending EXCEPT ![c] = {}]
        /\ Returned(c)
     \/ /\ lacks # {}
        /\ pending' = [pending EXCEPT ![c] = {lacks}]
        /\ await' = [await EXCEPT ![c] = lacks]
        /\ st' = [st EXCEPT ![c] = IF @ = "syncing" THEN "catchup" ELSE "recatchup"]
        /\ up' = Sent(sock[c], Msg("update", lacks))
        /\ UNCHANGED call

\* DocumentSynced ends sync_document; a call that does not wait for it goes on.
RecvSynced(c) ==
  /\ Incoming(c, "synced")
  /\ \/ /\ st[c] \in {"syncing", "resyncing"}
        /\ CatchUp(c, Head(down[sock[c]]).ops)
     \/ /\ st[c] \notin {"syncing", "resyncing"}
        /\ UNCHANGED <<pending, await, call, st, up>>
  /\ missed' = [missed EXCEPT ![c] = @ \ Head(down[sock[c]]).ops]
  /\ UNCHANGED <<content, hist, has, sock, conn, budget>>

\* DocumentUpdateAck: submit_update returns on the one it waits for.
RecvAck(c) ==
  /\ Incoming(c, "ack")
  /\ LET id == Head(down[sock[c]]).ops
     IN /\ pending' = [pending EXCEPT ![c] = @ \ {id}]
        /\ \/ /\ st[c] \in Submitting /\ id = await[c]
              /\ Returned(c)
           \/ /\ st[c] \notin Submitting \/ id # await[c]
              /\ UNCHANGED <<await, call, st, up>>
  /\ UNCHANGED <<content, missed, hist, has, sock, conn, budget>>

\* ResyncRequired: next syncs again; sync_document goes on to an answer that
\* comes later, and submit_update drops it.
RecvResync(c) ==
  /\ Incoming(c, "resync") /\ st[c] # "attaching"
  /\ \/ /\ st[c] = "ready"
        /\ SendSync(c)
        /\ st' = [st EXCEPT ![c] = "resyncing"]
        /\ UNCHANGED missed
     \/ /\ st[c] # "ready"
        /\ missed' = IF st[c] \in Submitting THEN Excused({c}, content) ELSE missed
        /\ UNCHANGED <<st, up>>
  /\ UNCHANGED <<content, hist, has, pending, await, call, sock, conn, budget>>

\* RateLimited is Ingest::Ignored.
RecvLimited(c) ==
  /\ Incoming(c, "limited") /\ st[c] # "attaching"
  /\ UNCHANGED <<content, client, conn, up, budget>>

\* A DocumentError ends every call, and the desktop's document task.
RecvError(c) ==
  /\ \E t \in {"in_use", "missing"} : Waiting(c, t)
  /\ down' = [down EXCEPT ![sock[c]] = <<>>]
  /\ st' = [st EXCEPT ![c] = "failed"]
  /\ conn' = [conn EXCEPT ![sock[c]] = Left(sock[c])]
  /\ sock' = [sock EXCEPT ![c] = None]
  /\ UNCHANGED <<content, missed, hist, has, pending, await, call, up, budget>>

Recv(c) ==
  \/ RecvAttached(c) \/ RecvDiscarded(c) \/ RecvImport(c) \/ RecvSynced(c)
  \/ RecvAck(c) \/ RecvResync(c) \/ RecvLimited(c) \/ RecvError(c)

\* The client reads the end of a socket that the server has left.
Closed(c) ==
  /\ sock[c] # None
  /\ conn[sock[c]].task = "ended" /\ down[sock[c]] = <<>>
  /\ st' = [st EXCEPT ![c] = AfterLoss(c)]
  /\ conn' = [conn EXCEPT ![sock[c]] = NoConn]
  /\ sock' = [sock EXCEPT ![c] = None]
  /\ UNCHANGED <<content, missed, hist, has, pending, await, call, up, down, budget>>

\* A reconnect keeps its socket to itself until it is done, and drops it when
\* the call it runs in is cancelled.
AbandonReconnect(c) ==
  /\ st' = [st EXCEPT ![c] = "offline"]
  /\ sock' = [sock EXCEPT ![c] = None]
  /\ conn' = [conn EXCEPT ![sock[c]] = Left(sock[c])]
  /\ down' = [down EXCEPT ![sock[c]] = <<>>]

\* The user types: the update is imported and submitted.  It cancels next,
\* with a resync in progress on the socket or with a reconnect, whose socket
\* is dropped.
Edit(c) ==
  LET n == Cardinality(Own(c)) + 1
      o == <<c, n>>
      k == sock[c]
  IN /\ n <= budget.edits[c]
     /\ call[c] = "next" /\ st[c] # "failed"
     /\ hist' = [hist EXCEPT ![o] = Visible(has[c])]
     /\ has' = [has EXCEPT ![c] = @ \cup {o}]
     /\ pending' = [pending EXCEPT ![c] = @ \cup {{o}}]
     /\ await' = [await EXCEPT ![c] = {o}]
     /\ call' = [call EXCEPT ![c] = IF st[c] \in WithSocket THEN "submit" ELSE "resubmit"]
     /\ \/ /\ st[c] \in WithSocket
           /\ st' = [st EXCEPT ![c] = "submitting"]
           /\ up' = Sent(k, Msg("update", {o}))
           /\ UNCHANGED <<sock, conn, down>>
        \/ /\ st[c] \in Reconnecting
           /\ AbandonReconnect(c)
           /\ UNCHANGED up
        \/ /\ st[c] = "offline"
           /\ UNCHANGED <<st, up, sock, conn, down>>
     /\ UNCHANGED <<content, missed, budget>>

\* The heartbeat timer cancels next: a resync in progress is left to its
\* answers, a reconnect in progress is started again by heartbeat itself.
Heartbeat(c) ==
  /\ call[c] = "next"
  /\ await' = [await EXCEPT ![c] = {}]
  /\ \/ /\ st[c] \in {"resyncing", "recatchup"}
        /\ st' = [st EXCEPT ![c] = "ready"]
        /\ UNCHANGED <<call, sock, conn, down>>
     \/ /\ st[c] \in Reconnecting
        /\ call' = [call EXCEPT ![c] = "connect"]
        /\ AbandonReconnect(c)
     \/ /\ st[c] = "offline"
        /\ call' = [call EXCEPT ![c] = "connect"]
        /\ UNCHANGED <<st, sock, conn, down>>
  /\ UNCHANGED <<content, missed, hist, has, pending, up, budget>>

-----------------------------------------------------------------------------
(* The server's task of one connection.                                     *)

Take(k, t) ==
  /\ conn[k].task = "idle" /\ up[k] # <<>> /\ Head(up[k]).type = t
  /\ up' = [up EXCEPT ![k] = Tail(@)]

\* What is written to a client that has left is lost.
Answer(k, ms) == down' = IF conn[k].open THEN [down EXCEPT ![k] = @ \o ms] ELSE down

\* The limiter refuses a message before it is looked at; a refused sync is not
\* repeated by a client that is already attached.
Limit(k) ==
  /\ budget.limited > 0
  /\ \E t \in Limited : Take(k, t)
  /\ Answer(k, <<Msg("limited", {})>>)
  /\ budget' = [budget EXCEPT !.limited = @ - 1]
  /\ missed' = IF Head(up[k]).type = "sync" /\ conn[k].open
               THEN Excused({conn[k].peer}, content) ELSE missed
  /\ UNCHANGED <<content, has, pending, await, call, st, sock, hist, conn>>

ServeAttach(k) ==
  /\ Take(k, "attach")
  /\ conn' = [conn EXCEPT ![k].attached = TRUE]
  /\ Answer(k, <<Msg("attached", {})>>)
  /\ UNCHANGED <<content, client, budget>>

\* handle_document_sync: the missing operations, then DocumentSynced.
ServeSync(k) ==
  /\ Take(k, "sync")
  /\ Answer(k, <<Msg("data", content \ Head(up[k]).ops), Msg("synced", content)>>)
  /\ UNCHANGED <<content, client, conn, budget>>

\* Another live connection writes as this replica.
InUse(k) == \E j \in Conns \ {k} : conn[j].writer /\ conn[j].peer = conn[k].peer

\* Defect: the ACK does not wait for the commit.
ServeUpdateUncommitted(k) ==
  LET S == Head(up[k]).ops
  IN /\ Take(k, "update")
     /\ conn' = [conn EXCEPT ![k].writer = TRUE, ![k].task = "acking", ![k].ops = S,
                             ![k].applied = TRUE]
     /\ UNCHANGED <<content, client, down, budget>>

\* Defect: two connections may write as one replica.
ServeUpdateUnleased(k) ==
  LET S == Head(up[k]).ops
  IN /\ Take(k, "update")
     /\ content' = content \cup S
     /\ conn' = [conn EXCEPT ![k].writer = TRUE, ![k].task = "acking", ![k].ops = S,
                             ![k].applied = ~(S \subseteq content)]
     /\ UNCHANGED <<client, down, budget>>

\* handle_document_update up to the end of its blocking task: the writer
\* lease, then apply_update.
ServeUpdate(k) ==
  LET S == Head(up[k]).ops
      missing == ~(\A o \in S : hist[o] \subseteq content \cup S)
  IN /\ Take(k, "update")
     /\ \/ /\ InUse(k) \/ missing
           /\ conn' = [conn EXCEPT ![k].writer = @ \/ ~InUse(k)]
           /\ Answer(k, <<Msg(IF InUse(k) THEN "in_use" ELSE "missing", {})>>)
           /\ UNCHANGED content
        \/ /\ ~InUse(k) /\ ~missing
           /\ content' = content \cup S
           /\ conn' = [conn EXCEPT ![k].writer = TRUE, ![k].task = "acking", ![k].ops = S,
                                   ![k].applied = ~(S \subseteq content)]
           /\ UNCHANGED down
     /\ UNCHANGED <<client, budget>>

\* The ACK is written; an update that was new is still to be published.
Ack(k) ==
  /\ conn[k].task = "acking"
  /\ Answer(k, <<Msg("ack", conn[k].ops)>>)
  /\ conn' = [conn EXCEPT ![k].task = IF conn[k].applied THEN "publishing" ELSE "idle",
                          ![k].ops = IF conn[k].applied THEN @ ELSE {},
                          ![k].applied = FALSE]
  /\ UNCHANGED <<content, client, up, budget>>

\* A broadcast ring drops its oldest message for a receiver that is behind.
Pushed(s, S) ==
  IF s.task = "ended" THEN s
  ELSE IF Len(s.lane) < LaneCap THEN [s EXCEPT !.lane = Append(@, S)]
  ELSE [s EXCEPT !.lane = Append(Tail(@), S), !.lagged = TRUE]

\* publish_doc: to every subscription of the room, the submitter's included.
Publish(k) ==
  /\ conn[k].task = "publishing"
  /\ conn' = [j \in Conns |->
                IF j = k THEN [Pushed(conn[k], conn[k].ops) EXCEPT !.task = "idle", !.ops = {}]
                ELSE Pushed(conn[j], conn[k].ops)]
  /\ UNCHANGED <<content, client, up, down, budget>>

\* Defect: a lagged receiver is served what is left of the ring.
ForwardSkipsLag(k) ==
  /\ conn[k].task = "idle" /\ conn[k].lane # <<>>
  /\ Answer(k, <<Msg("committed", Head(conn[k].lane))>>)
  /\ conn' = [conn EXCEPT ![k].lane = Tail(@), ![k].lagged = FALSE]
  /\ UNCHANGED <<content, client, up, budget>>

\* The document lane: a commit, or ResyncRequired after a lag.
Forward(k) ==
  /\ conn[k].task = "idle" /\ conn[k].lane # <<>>
  /\ \/ /\ conn[k].lagged
        /\ Answer(k, <<Msg("resync", {})>>)
        /\ conn' = [conn EXCEPT ![k].lagged = FALSE]
     \/ /\ ~conn[k].lagged
        /\ Answer(k, <<Msg("committed", Head(conn[k].lane))>>)
        /\ conn' = [conn EXCEPT ![k].lane = Tail(@)]
  /\ UNCHANGED <<content, client, up, budget>>

Quit(k) ==
  /\ conn' = [conn EXCEPT ![k] = Ended(k)]
  /\ up' = [up EXCEPT ![k] = <<>>]
  /\ UNCHANGED <<content, has, pending, await, call, st, sock, hist, down, budget>>

\* The task reads the end of its socket.
SocketClosed(k) ==
  /\ conn[k].task = "idle" /\ ~conn[k].open /\ up[k] = <<>>
  /\ Quit(k) /\ UNCHANGED missed

\* Writing to a client that has left fails, and with it the handler: the ACK, a
\* commit, or what the presence lane, which is not modelled, has to send.  An
\* update whose ACK fails is committed and never published.
SendFails(k) ==
  /\ ~conn[k].open
  /\ \/ /\ conn[k].task = "idle"
        /\ UNCHANGED missed
     \/ /\ conn[k].task = "acking"
        /\ missed' = IF conn[k].applied THEN Excused(Clients, conn[k].ops) ELSE missed
  /\ Quit(k)

\* Defect: the expired attachment is forgotten but its socket stays open.
LeaseExpiresQuietly(k) ==
  /\ conn[k].task = "idle" /\ conn[k].attached /\ conn[k].open
  /\ st[conn[k].peer] \notin WithSocket
  /\ up[k] = <<>> /\ down[k] = <<>> /\ conn[k].lane = <<>>
  /\ conn' = [conn EXCEPT ![k].attached = FALSE]
  /\ UNCHANGED <<content, client, up, down, budget>>

\* lease_tick: an attachment without a heartbeat for PRESENCE_LEASE is closed.
\* A client that reconnects or submits sends none; that silence is assumed to
\* outlast everything in flight.
LeaseExpires(k) ==
  /\ conn[k].task = "idle" /\ conn[k].attached /\ conn[k].open
  /\ st[conn[k].peer] \notin WithSocket
  /\ up[k] = <<>> /\ down[k] = <<>> /\ conn[k].lane = <<>>
  /\ Quit(k) /\ UNCHANGED missed

-----------------------------------------------------------------------------
(* Failures.                                                                *)

\* The network between a client and its connection fails: what the client
\* sent arrives in part, what it was sent is lost.
Drop(c) ==
  LET k == sock[c]
  IN /\ budget.drops > 0 /\ k # None
     /\ budget' = [budget EXCEPT !.drops = @ - 1]
     /\ st' = [st EXCEPT ![c] = AfterLoss(c)]
     /\ sock' = [sock EXCEPT ![c] = None]
     /\ conn' = [conn EXCEPT ![k] = Left(k)]
     /\ \E n \in 0..Len(up[k]) : up' = [up EXCEPT ![k] = SubSeq(@, 1, n)]
     /\ down' = [down EXCEPT ![k] = <<>>]
     /\ UNCHANGED <<content, missed, hist, has, pending, await, call>>

\* The server drains and starts again: every connection task ends where it
\* stands, and the lanes are new.
Restart ==
  /\ budget.restarts > 0
  /\ budget' = [budget EXCEPT !.restarts = @ - 1]
  /\ conn' = [k \in Conns |-> Ended(k)]
  /\ up' = [k \in Conns |-> <<>>]
  /\ UNCHANGED <<content, client, down>>

ClientStep(c) == Connect(c) \/ Recv(c) \/ Closed(c) \/ Edit(c) \/ Heartbeat(c) \/ Drop(c)

ServerStep(k) ==
  \/ ServeAttach(k) \/ ServeSync(k) \/ ServeUpdate(k) \/ Ack(k) \/ Publish(k) \/ Forward(k)
  \/ SocketClosed(k) \/ SendFails(k) \/ LeaseExpires(k) \/ Limit(k)

Next ==
  \/ \E c \in Clients : ClientStep(c)
  \/ \E k \in Conns : ServerStep(k)
  \/ Restart

SafetySpec == Init /\ [][Next]_vars

\* What a call or a task does next, the heartbeat timer and the lane apart:
\* at any time only one of these can be enabled for a client or a connection.
CallGoesOn(c) == Connect(c) \/ Recv(c) \/ Closed(c)
TaskGoesOn(k) ==
  ServeAttach(k) \/ ServeSync(k) \/ ServeUpdate(k) \/ Ack(k) \/ Publish(k)
  \/ SocketClosed(k) \/ LeaseExpires(k)

(* An SDK call goes on while it has something to do; the server's select!   *)
(* picks among ready branches at random, so it neglects none of them.       *)
Fairness ==
  /\ \A c \in Clients : WF_vars(CallGoesOn(c)) /\ WF_vars(Heartbeat(c))
  /\ \A k \in Conns : WF_vars(TaskGoesOn(k)) /\ WF_vars(Forward(k))

Spec == SafetySpec /\ Fairness

-----------------------------------------------------------------------------
(* A live socket joins one client to one connection that serves it, one     *)
(* connection at most writes as a replica, and a task works on an update    *)
(* exactly between its commit and its broadcast.                            *)
WellConnected ==
  /\ TypeOK
  /\ \A c \in Clients :
       /\ sock[c] # None <=> st[c] \in Connected
       /\ sock[c] # None => conn[sock[c]].peer = c /\ conn[sock[c]].open
  /\ \A k \in Conns : conn[k].open => sock[conn[k].peer] = k
  /\ \A j, k \in Conns : conn[j].writer /\ conn[k].writer /\ conn[j].peer = conn[k].peer => j = k
  /\ \A k \in Conns : conn[k].task \in {"acking", "publishing"} => conn[k].ops \subseteq content

(* When a flush finds no update pending, everything this replica wrote is   *)
(* durable, whatever was lost, retried or resynchronized before             *)
(* (app.rs:10017-10025, room_replica.rs:159).                               *)
FlushMeansDurable ==
  \A c \in Clients : call[c] = "next" /\ pending[c] = {} => Own(c) \subseteq content

(* A replica never shows a peer's operation that is not committed           *)
(* (http.rs:11566-11568: commit, then ACK and broadcast).                   *)
PeersSeeOnlyDurable ==
  \A c \in Clients : has[c] \ Own(c) \subseteq content

(* A client of the SDK is never refused for missing dependencies: its       *)
(* updates and catch-ups carry or follow all they need                      *)
(* (room_replica.rs:226-228).                                               *)
NoMissingDependencies ==
  \A k \in Conns : \A i \in DOMAIN down[k] : down[k][i].type # "missing"

(* No edit is lost silently: in the end all that was written is durable, or  *)
(* its client has reported an error (client-sdk lib.rs:871-873).            *)
EditsBecomeDurable == <>[](\A c \in Clients : st[c] = "failed" \/ Own(c) \subseteq content)

(* All replicas end up connected and have the committed content, except for *)
(* what they missed since they last synchronized: an update whose ACK could *)
(* not be written (http.rs:11701), what a lag had cost when submit_update    *)
(* dropped ResyncRequired (client-sdk lib.rs:1125; against                  *)
(* room_runtime.rs:45-46), or when the limiter refused a resync.            *)
Converges ==
  <>[](\A c \in Clients :
         st[c] = "failed" \/ (st[c] = "ready" /\ content \ missed[c] \subseteq has[c]))
=============================================================================
