--------------------------- MODULE RoomSyncProofs ---------------------------
(***************************************************************************)
(* The safety properties of RoomSync, proved for any clients, connections, *)
(* edits, lane capacity, failures and refused messages.  IInv says which   *)
(* operations messages, lanes and replicas hold, and what is durable at    *)
(* each point of an SDK call.                                              *)
(***************************************************************************)
EXTENDS RoomSync, FiniteSetTheorems, TLAPS

Budgets == [edits : [Clients -> 0..MaxEdits], drops : Nat, restarts : Nat, limited : Nat]

\* The operations that exist: their author has made them.
Created == {o \in Ops : o \in has[o[1]]}

\* A document with content C can apply S, where H gives the histories.
Supported(S, H, C) == \A o \in S : H[o] \subseteq C \cup S

\* What the server tells is durable; what a client sends exists and can be applied.
Told(s, C) == \A i \in 1..Len(s) : s[i].ops \subseteq C /\ s[i].type # "missing"
Fit(m, M, H, C) == m.ops \subseteq M /\ (m.type = "update" => Supported(m.ops, H, C))
Offered(s, M, H, C) == \A i \in 1..Len(s) : Fit(s[i], M, H, C)
Durable(s, C) ==
  /\ s.task \in {"acking", "publishing"} => s.ops \subseteq C
  /\ \A i \in 1..Len(s.lane) : s.lane[i] \subseteq C
WireInv ==
  \A k \in Conns :
     Told(down[k], content) /\ Offered(up[k], Created, hist, content) /\ Durable(conn[k], content)

\* A socket joins a client to one connection.
Linked(c) ==
  /\ sock[c] # None <=> st[c] \in Connected
  /\ sock[c] # None => conn[sock[c]].peer = c /\ conn[sock[c]].open
LinkInv ==
  /\ \A c \in Clients : Linked(c)
  /\ \A k \in Conns : conn[k].open => conn[k].peer \in Clients /\ sock[conn[k].peer] = k

\* One connection at most writes as a replica.
LeaseInv ==
  \A j, k \in Conns : conn[j].writer /\ conn[k].writer /\ conn[j].peer = conn[k].peer => j = k

\* A replica has what it wrote, without a gap and with its history, and of its peers only what
\* is durable.
Replica(c) ==
  /\ IsFiniteSet(Own(c)) /\ Own(c) = {<<c, i>> : i \in 1..Cardinality(Own(c))}
  /\ \A o \in Own(c) : hist[o] \subseteq has[c]
  /\ has[c] \ Own(c) \subseteq content
ReplicaInv == content \subseteq Created /\ \A c \in Clients : Replica(c)

\* Outside of a submit everything a replica wrote is durable; while it waits for an ACK, all
\* but the update it waits for.  W is what it wrote, C the content.
Settled(cl, s, w, W, C) ==
  /\ cl \in {"next", "connect"} => W \subseteq C
  /\ cl \in {"submit", "resubmit"} => W # {}
  /\ s \in WithSocket => cl = "next"
  /\ s = "submitting" => cl = "submit"
  /\ s \in {"catchup", "submitting"} => W \subseteq C \cup w
SettledInv == \A c \in Clients : Settled(call[c], st[c], await[c], Own(c), content)

IInv == StateTypes /\ LinkInv /\ LeaseInv /\ WireInv /\ ReplicaInv /\ SettledInv

-----------------------------------------------------------------------------
(* Messages and records. *)

(* What was told stays durable, what was offered can still be applied. *)
LEMMA Grown ==
  ASSUME NEW s, NEW C, NEW D, C \subseteq D, NEW M, NEW N, M \subseteq N,
         NEW H, NEW G, \A o \in M : G[o] = H[o]
  PROVE  /\ Told(s, C) => Told(s, D)
         /\ Offered(s, M, H, C) => Offered(s, N, G, D)
         /\ Durable(s, C) => Durable(s, D)
<1>1. Told(s, C) => Told(s, D)
  BY DEF Told
<1>2. ASSUME NEW m, Fit(m, M, H, C) PROVE Fit(m, N, G, D)
  BY <1>2 DEF Fit, Supported
<1>3. Offered(s, M, H, C) => Offered(s, N, G, D)
  BY <1>2 DEF Offered
<1>4. Durable(s, C) => Durable(s, D)
  BY DEF Durable
<1> QED
  BY <1>1, <1>3, <1>4

LEMMA Taken ==
  ASSUME NEW s \in Seq(Messages), s # <<>>, NEW C, NEW M, NEW H
  PROVE  /\ Tail(s) \in Seq(Messages) /\ Head(s) \in Messages
         /\ Told(s, C) => Told(Tail(s), C) /\ Head(s).ops \subseteq C /\ Head(s).type # "missing"
         /\ Offered(s, M, H, C) => Offered(Tail(s), M, H, C) /\ Fit(Head(s), M, H, C)
<1>1. /\ Tail(s) \in Seq(Messages) /\ Head(s) \in Messages /\ Head(s) = s[1] /\ 1 \in 1..Len(s)
      /\ \A i \in 1..Len(Tail(s)) : Tail(s)[i] = s[i + 1] /\ i + 1 \in 1..Len(s)
  OBVIOUS
<1>2. Told(s, C) => Told(Tail(s), C) /\ Head(s).ops \subseteq C /\ Head(s).type # "missing"
  BY <1>1, Zenon DEF Told
<1>3. Offered(s, M, H, C) => Offered(Tail(s), M, H, C) /\ Fit(Head(s), M, H, C)
  BY <1>1, Zenon DEF Offered
<1> QED
  BY <1>1, <1>2, <1>3

LEMMA Added ==
  ASSUME NEW s \in Seq(Messages), NEW m \in Messages, NEW C, NEW M, NEW H
  PROVE  /\ Append(s, m) \in Seq(Messages)
         /\ Offered(s, M, H, C) /\ Fit(m, M, H, C) => Offered(Append(s, m), M, H, C)
<1>1. /\ Append(s, m) \in Seq(Messages)
      /\ \A i \in 1..Len(Append(s, m)) :
            Append(s, m)[i] = m \/ (i \in 1..Len(s) /\ Append(s, m)[i] = s[i])
  OBVIOUS
<1> QED
  BY <1>1, Zenon DEF Offered

LEMMA Joined ==
  ASSUME NEW s \in Seq(Messages), NEW z \in Seq(Messages), NEW C
  PROVE  /\ s \o z \in Seq(Messages)
         /\ Told(s, C) /\ Told(z, C) => Told(s \o z, C)
<1>1. /\ s \o z \in Seq(Messages)
      /\ \A i \in 1..Len(s \o z) :
            \/ i \in 1..Len(s) /\ (s \o z)[i] = s[i]
            \/ i - Len(s) \in 1..Len(z) /\ (s \o z)[i] = z[i - Len(s)]
  OBVIOUS
<1> QED
  BY <1>1, Zenon DEF Told

LEMMA Cut ==
  ASSUME NEW s \in Seq(Messages), NEW n \in 0..Len(s), NEW C, NEW M, NEW H
  PROVE  /\ SubSeq(s, 1, n) \in Seq(Messages)
         /\ Offered(s, M, H, C) => Offered(SubSeq(s, 1, n), M, H, C)
<1>1. /\ SubSeq(s, 1, n) \in Seq(Messages)
      /\ \A i \in 1..Len(SubSeq(s, 1, n)) : i \in 1..Len(s) /\ SubSeq(s, 1, n)[i] = s[i]
  OBVIOUS
<1> QED
  BY <1>1, Zenon DEF Offered

LEMMA NothingSaid ==
  ASSUME NEW C, NEW M, NEW H
  PROVE  <<>> \in Seq(Messages) /\ Told(<<>>, C) /\ Offered(<<>>, M, H, C)
  BY DEF Told, Offered

LEMMA MsgFields ==
  ASSUME NEW t, NEW S
  PROVE  Msg(t, S).type = t /\ Msg(t, S).ops = S
         /\ (t \in Kinds /\ S \in SUBSET Ops => Msg(t, S) \in Messages)
  BY DEF Msg, Messages

(* One message, or two. *)
LEMMA Saying ==
  ASSUME NEW m \in Messages, NEW z \in Messages, NEW C, m.ops \subseteq C, z.ops \subseteq C,
         m.type # "missing", z.type # "missing"
  PROVE  /\ <<m>> \in Seq(Messages) /\ Told(<<m>>, C)
         /\ <<m, z>> \in Seq(Messages) /\ Told(<<m, z>>, C)
<1>1. /\ <<m>> \in Seq(Messages) /\ Len(<<m>>) = 1 /\ <<m>>[1] = m
      /\ <<m, z>> \in Seq(Messages) /\ Len(<<m, z>>) = 2 /\ <<m, z>>[1] = m /\ <<m, z>>[2] = z
  OBVIOUS
<1>2. 1..1 = {1} /\ 1..2 = {1, 2}
  OBVIOUS
<1> QED
  BY <1>1, <1>2 DEF Told

(* NoConn, and what is left of a connection that one end leaves. *)
LEMMA NoConnFields ==
  /\ NoConn \in ConnRecs /\ NoConn.peer = None /\ NoConn.open = FALSE /\ NoConn.task = "ended"
  /\ NoConn.writer = FALSE /\ NoConn.lane = <<>>
<1>1. {} \in SUBSET Ops /\ <<>> \in Seq(SUBSET Ops)
  OBVIOUS
<1> QED
  BY <1>1 DEF NoConn, ConnRecs, Tasks

LEMMA ConnFields ==
  ASSUME NEW x \in ConnRecs
  PROVE  /\ x.peer \in Clients \cup {None} /\ x.open \in BOOLEAN /\ x.task \in Tasks
         /\ x.ops \in SUBSET Ops /\ x.applied \in BOOLEAN /\ x.attached \in BOOLEAN
         /\ x.writer \in BOOLEAN /\ x.lane \in Seq(SUBSET Ops) /\ x.lagged \in BOOLEAN
  BY DEF ConnRecs

LEMMA LeftFields ==
  ASSUME NEW k \in Conns, conn[k] \in ConnRecs
  PROVE  /\ Left(k) \in ConnRecs /\ Left(k).open = FALSE
         /\ Left(k).writer => conn[k].writer /\ Left(k).peer = conn[k].peer
         /\ \A C : Durable(conn[k], C) => Durable(Left(k), C)
<1>1. CASE conn[k].task = "ended"
  <2>1. Left(k) = NoConn
    BY <1>1 DEF Left
  <2>2. \A C : Durable(NoConn, C)
    BY NoConnFields DEF Durable
  <2> QED
    BY <2>1, <2>2, NoConnFields
<1>2. CASE conn[k].task # "ended"
  <2>1. Left(k) = [conn[k] EXCEPT !.open = FALSE]
    BY <1>2 DEF Left
  <2>2. /\ Left(k) \in ConnRecs /\ Left(k).open = FALSE /\ Left(k).writer = conn[k].writer
        /\ Left(k).peer = conn[k].peer /\ Left(k).task = conn[k].task /\ Left(k).ops = conn[k].ops
        /\ Left(k).lane = conn[k].lane
    BY <2>1 DEF ConnRecs
  <2> QED
    BY <2>2 DEF Durable
<1> QED
  BY <1>1, <1>2

LEMMA EndedFields ==
  ASSUME NEW k \in Conns, conn[k] \in ConnRecs
  PROVE  /\ Ended(k) \in ConnRecs /\ Ended(k).open = conn[k].open /\ Ended(k).writer = FALSE
         /\ conn[k].open => Ended(k).peer = conn[k].peer
         /\ \A C : Durable(Ended(k), C)
<1>1. CASE conn[k].open
  <2>1. Ended(k) = [NoConn EXCEPT !.peer = conn[k].peer, !.open = TRUE]
    BY <1>1 DEF Ended
  <2>2. /\ Ended(k) \in ConnRecs /\ Ended(k).open = TRUE /\ Ended(k).writer = FALSE
        /\ Ended(k).peer = conn[k].peer /\ Ended(k).task = "ended" /\ Ended(k).lane = <<>>
    BY <2>1, NoConnFields DEF ConnRecs
  <2>3. conn[k].open = TRUE
    BY <1>1, ConnFields
  <2>4. \A C : Durable(Ended(k), C)
    BY <2>2 DEF Durable
  <2> QED
    BY <2>2, <2>3, <2>4
<1>2. CASE ~conn[k].open
  <2>1. Ended(k) = NoConn /\ conn[k].open = FALSE
    BY <1>2, ConnFields DEF Ended
  <2>2. \A C : Durable(NoConn, C)
    BY NoConnFields DEF Durable
  <2> QED
    BY <1>2, <2>1, <2>2, NoConnFields
<1> QED
  BY <1>1, <1>2

(* A broadcast ring. *)
LEMMA PushedFields ==
  ASSUME NEW x \in ConnRecs, NEW S \in SUBSET Ops
  PROVE  LET y == Pushed(x, S) IN
         /\ y \in ConnRecs /\ y.peer = x.peer /\ y.open = x.open /\ y.task = x.task /\ y.ops = x.ops
         /\ y.writer = x.writer
         /\ \A C : Durable(x, C) /\ S \subseteq C => Durable(y, C)
<1> DEFINE y == Pushed(x, S)
<1>1. CASE x.task = "ended"
  BY <1>1 DEF Pushed
<1>2. CASE x.task # "ended" /\ Len(x.lane) < LaneCap
  <2>1. y = [x EXCEPT !.lane = Append(@, S)]
    BY <1>2 DEF Pushed
  <2>2. /\ Append(x.lane, S) \in Seq(SUBSET Ops)
        /\ \A i \in 1..Len(Append(x.lane, S)) :
              Append(x.lane, S)[i] = S \/ (i \in 1..Len(x.lane) /\ Append(x.lane, S)[i] = x.lane[i])
    BY ConnFields
  <2>3. /\ y \in ConnRecs /\ y.peer = x.peer /\ y.open = x.open /\ y.task = x.task /\ y.ops = x.ops
        /\ y.writer = x.writer /\ y.lane = Append(x.lane, S)
    BY <2>1, <2>2 DEF ConnRecs
  <2> QED
    BY <2>2, <2>3, Zenon DEF Durable
<1>3. CASE x.task # "ended" /\ ~(Len(x.lane) < LaneCap)
  <2>1. y = [x EXCEPT !.lane = Append(Tail(@), S), !.lagged = TRUE]
    BY <1>3 DEF Pushed
  <2>2. x.lane # <<>>
    BY <1>3, RoomAssumption
  <2>3. /\ Append(Tail(x.lane), S) \in Seq(SUBSET Ops)
        /\ \A i \in 1..Len(Append(Tail(x.lane), S)) :
              \/ Append(Tail(x.lane), S)[i] = S
              \/ i + 1 \in 1..Len(x.lane) /\ Append(Tail(x.lane), S)[i] = x.lane[i + 1]
    BY <2>2, ConnFields
  <2>4. /\ y \in ConnRecs /\ y.peer = x.peer /\ y.open = x.open /\ y.task = x.task /\ y.ops = x.ops
        /\ y.writer = x.writer /\ y.lane = Append(Tail(x.lane), S)
    BY <2>1, <2>3 DEF ConnRecs
  <2> QED
    BY <2>3, <2>4, Zenon DEF Durable
<1> QED
  BY <1>1, <1>2, <1>3

-----------------------------------------------------------------------------
(* Frames. *)

LEMMA ReplicasKept ==
  ASSUME ReplicaInv, has' = has, hist' = hist, content \subseteq content', content' \subseteq Created
  PROVE  ReplicaInv' /\ Created' = Created /\ \A c \in Clients : Own(c)' = Own(c)
<1>1. Created' = Created /\ \A c \in Clients : Own(c)' = Own(c)
  BY DEF Created, Own
<1>2. ASSUME NEW c \in Clients PROVE Replica(c)'
  BY <1>1, <1>2 DEF ReplicaInv, Replica
<1> QED
  BY <1>1, <1>2 DEF ReplicaInv

LEMMA SettledGrows ==
  ASSUME NEW cl, NEW s, NEW w, NEW W, NEW C, NEW D, C \subseteq D, Settled(cl, s, w, W, C)
  PROVE  Settled(cl, s, w, W, D)
  BY DEF Settled

(* A step of the server: clients keep what they have and where they are, and only one
   connection may become a writer. *)
LEMMA ServerFrame ==
  ASSUME IInv, NEW k,
         has' = has, hist' = hist, pending' = pending, await' = await, call' = call, st' = st,
         sock' = sock,
         content \subseteq content', content' \subseteq Created,
         conn' \in [Conns -> ConnRecs], up' \in [Conns -> Seq(Messages)],
         down' \in [Conns -> Seq(Messages)],
         budget' \in Budgets,
         \A j \in Conns :
            /\ conn'[j].open = conn[j].open
            /\ conn[j].open => conn'[j].peer = conn[j].peer
            /\ conn'[j].writer => conn'[j].peer = conn[j].peer
            /\ conn'[j].writer => conn[j].writer \/ (j = k /\ ~InUse(j)),
         \A j \in Conns :
            /\ Durable(conn'[j], content') /\ Told(down'[j], content')
            /\ Offered(up'[j], Created, hist, content')
  PROVE  IInv'
<1>1. /\ ReplicaInv' /\ Created' = Created /\ \A c \in Clients : Own(c)' = Own(c)
  BY ReplicasKept DEF IInv
<1>2. StateTypes'
  BY DEF IInv, StateTypes, Created, Budgets
<1>3. LinkInv'
  <2>0. sock \in [Clients -> Conns \cup {None}]
    BY DEF IInv, StateTypes
  <2>1. ASSUME NEW c \in Clients PROVE Linked(c)'
    <3>1. Linked(c) /\ sock'[c] = sock[c] /\ st'[c] = st[c] /\ sock[c] \in Conns \cup {None}
      BY <2>0 DEF IInv, LinkInv
    <3>2. CASE sock[c] = None
      BY <3>1, <3>2 DEF Linked
    <3>3. CASE sock[c] \in Conns
      BY <3>1, <3>3 DEF Linked
    <3> QED
      BY <3>1, <3>2, <3>3
  <2>2. ASSUME NEW j \in Conns, conn'[j].open PROVE conn'[j].peer \in Clients /\ sock'[conn'[j].peer] = j
    BY <2>2 DEF IInv, LinkInv
  <2> QED
    BY <2>1, <2>2 DEF LinkInv
<1>4. LeaseInv'
  <2>1. ASSUME NEW i \in Conns, NEW j \in Conns, conn'[i].writer, conn'[j].writer,
               conn'[i].peer = conn'[j].peer, i # j
        PROVE  FALSE
    <3>1. conn[i].peer = conn[j].peer
      BY <2>1
    <3>2. CASE conn[i].writer /\ conn[j].writer
      BY <2>1, <3>1, <3>2 DEF IInv, LeaseInv
    <3>3. CASE conn[i].writer /\ j = k /\ ~InUse(j)
      BY <2>1, <3>1, <3>3 DEF InUse
    <3>4. CASE conn[j].writer /\ i = k /\ ~InUse(i)
      BY <2>1, <3>1, <3>4 DEF InUse
    <3> QED
      BY <2>1, <3>2, <3>3, <3>4
  <2> QED
    BY <2>1 DEF LeaseInv
<1>5. WireInv'
  BY <1>1 DEF WireInv
<1>6. SettledInv'
  <2>1. ASSUME NEW c \in Clients PROVE Settled(call[c], st[c], await[c], Own(c), content')
    BY SettledGrows DEF IInv, SettledInv
  <2> QED
    BY <1>1, <2>1 DEF SettledInv
<1> QED
  BY <1>1, <1>2, <1>3, <1>4, <1>5, <1>6 DEF IInv

LEMMA WireKept ==
  ASSUME IInv, NEW D, content \subseteq D
  PROVE  \A j \in Conns : Told(down[j], D) /\ Offered(up[j], Created, hist, D) /\ Durable(conn[j], D)
  BY Grown DEF IInv, WireInv

LEMMA WireTypes ==
  ASSUME IInv
  PROVE  /\ conn \in [Conns -> ConnRecs] /\ up \in [Conns -> Seq(Messages)]
         /\ down \in [Conns -> Seq(Messages)] /\ content \in SUBSET Ops /\ hist \in [Ops -> SUBSET Ops]
         /\ budget \in Budgets
         /\ Created \subseteq Ops /\ content \subseteq Created
  BY DEF IInv, StateTypes, Created, ReplicaInv, Budgets

LEMMA TakeKeeps ==
  ASSUME IInv, NEW k \in Conns, NEW t, Take(k, t), NEW D, content \subseteq D
  PROVE  /\ conn[k].task = "idle" /\ Head(up[k]) \in Messages /\ Head(up[k]).type = t
         /\ Fit(Head(up[k]), Created, hist, content)
         /\ up' \in [Conns -> Seq(Messages)]
         /\ \A j \in Conns : Offered(up'[j], Created, hist, D)
<1>1. up[k] \in Seq(Messages) /\ up[k] # <<>> /\ conn[k].task = "idle" /\ Head(up[k]).type = t
  BY WireTypes DEF Take
<1>2. Offered(up[k], Created, hist, D) /\ Offered(up[k], Created, hist, content)
  BY WireKept
<1>3. Tail(up[k]) \in Seq(Messages) /\ Head(up[k]) \in Messages
      /\ Offered(Tail(up[k]), Created, hist, D) /\ Fit(Head(up[k]), Created, hist, content)
  BY <1>1, <1>2, Taken
<1>4. up' = [up EXCEPT ![k] = Tail(up[k])]
  BY DEF Take
<1>5. up'[k] = Tail(up[k]) /\ \A j \in Conns : j # k => up'[j] = up[j]
  BY <1>4, WireTypes
<1>6. up' \in [Conns -> Seq(Messages)]
  BY <1>3, <1>4, WireTypes
<1> QED
  BY <1>1, <1>3, <1>5, <1>6, WireKept

LEMMA AnswerKeeps ==
  ASSUME IInv, NEW k \in Conns, NEW ms \in Seq(Messages), Answer(k, ms), NEW D, content \subseteq D,
         Told(ms, D)
  PROVE  down' \in [Conns -> Seq(Messages)] /\ \A j \in Conns : Told(down'[j], D)
<1>1. CASE conn[k].open
  <2>1. down' = [down EXCEPT ![k] = down[k] \o ms]
    BY <1>1 DEF Answer
  <2>2. down[k] \in Seq(Messages) /\ Told(down[k], D)
    BY WireKept, WireTypes
  <2>3. down[k] \o ms \in Seq(Messages) /\ Told(down[k] \o ms, D)
    BY <2>2, Joined
  <2>4. down'[k] = down[k] \o ms /\ \A j \in Conns : j # k => down'[j] = down[j]
    BY <2>1, WireTypes
  <2>5. down' \in [Conns -> Seq(Messages)]
    BY <2>1, <2>3, WireTypes
  <2> QED
    BY <2>3, <2>4, <2>5, WireKept
<1>2. CASE ~conn[k].open
  <2>1. down' = down
    BY <1>2 DEF Answer
  <2> QED
    BY <2>1, WireKept, WireTypes
<1> QED
  BY <1>1, <1>2

\* What the frame asks of one connection.
SameEnds(x, y) ==
  y.open = x.open /\ y.peer = x.peer /\ (y.writer => x.writer)

(* A step of the server on one connection. *)
LEMMA ServerMoves ==
  ASSUME IInv, NEW k \in Conns,
         has' = has, hist' = hist, pending' = pending, await' = await, call' = call, st' = st,
         sock' = sock, content \subseteq content', content' \subseteq Created, budget' = budget,
         NEW x \in ConnRecs, conn' = [conn EXCEPT ![k] = x],
         x.open = conn[k].open, x.peer = conn[k].peer, x.writer => conn[k].writer \/ ~InUse(k),
         Durable(x, content'),
         up' \in [Conns -> Seq(Messages)], down' \in [Conns -> Seq(Messages)],
         \A j \in Conns : Told(down'[j], content') /\ Offered(up'[j], Created, hist, content')
  PROVE  IInv'
<1>1. conn'[k] = x /\ (\A j \in Conns : j # k => conn'[j] = conn[j]) /\ conn' \in [Conns -> ConnRecs]
  BY WireTypes
<1>2. \A j \in Conns : Durable(conn'[j], content')
  BY <1>1, WireKept
<1>3. \A j \in Conns :
         /\ conn'[j].open = conn[j].open
         /\ conn[j].open => conn'[j].peer = conn[j].peer
         /\ conn'[j].writer => conn'[j].peer = conn[j].peer
         /\ conn'[j].writer => conn[j].writer \/ (j = k /\ ~InUse(j))
  BY <1>1
<1> QED
  BY <1>1, <1>2, <1>3, WireTypes, ServerFrame

-----------------------------------------------------------------------------
(* The server. *)

LEMMA LimitKeeps ==
  ASSUME IInv, NEW k \in Conns, Limit(k)
  PROVE  IInv'
<1>1. PICK t \in Limited : Take(k, t)
  BY DEF Limit
<1>2. /\ has' = has /\ hist' = hist /\ pending' = pending /\ await' = await /\ call' = call /\ st' = st
      /\ sock' = sock /\ content' = content /\ conn' = conn
      /\ budget' = [budget EXCEPT !.limited = @ - 1] /\ budget.limited > 0
      /\ Answer(k, <<Msg("limited", {})>>)
  BY DEF Limit, client
<1>3. Msg("limited", {}) \in Messages /\ Msg("limited", {}).ops = {} /\ Msg("limited", {}).type = "limited"
  BY MsgFields DEF Kinds
<1>4. <<Msg("limited", {})>> \in Seq(Messages) /\ Told(<<Msg("limited", {})>>, content)
  BY <1>3, Saying
<1>5. down' \in [Conns -> Seq(Messages)] /\ \A j \in Conns : Told(down'[j], content)
  BY <1>2, <1>4, AnswerKeeps
<1>6. up' \in [Conns -> Seq(Messages)] /\ \A j \in Conns : Offered(up'[j], Created, hist, content)
  BY <1>1, TakeKeeps
<1>7. budget' \in Budgets
  <2>1. budget.limited - 1 \in Nat
    BY <1>2, WireTypes DEF Budgets
  <2> QED
    BY <1>2, <2>1, WireTypes DEF Budgets
<1> QED
  BY <1>2, <1>5, <1>6, <1>7, WireKept, WireTypes, ServerFrame

LEMMA ServeAttachKeeps ==
  ASSUME IInv, NEW k \in Conns, ServeAttach(k)
  PROVE  IInv'
<1>1. /\ has' = has /\ hist' = hist /\ pending' = pending /\ await' = await /\ call' = call /\ st' = st
      /\ sock' = sock /\ content' = content /\ budget' = budget /\ Take(k, "attach")
      /\ Answer(k, <<Msg("attached", {})>>) /\ conn' = [conn EXCEPT ![k].attached = TRUE]
  BY DEF ServeAttach, client
<1>2. Msg("attached", {}) \in Messages /\ Msg("attached", {}).ops = {} /\ Msg("attached", {}).type = "attached"
  BY MsgFields DEF Kinds
<1>3. <<Msg("attached", {})>> \in Seq(Messages) /\ Told(<<Msg("attached", {})>>, content)
  BY <1>2, Saying
<1>4. down' \in [Conns -> Seq(Messages)] /\ \A j \in Conns : Told(down'[j], content)
  BY <1>1, <1>3, AnswerKeeps
<1>5. up' \in [Conns -> Seq(Messages)] /\ \A j \in Conns : Offered(up'[j], Created, hist, content)
  BY <1>1, TakeKeeps
<1>6. conn' = [conn EXCEPT ![k] = [conn[k] EXCEPT !.attached = TRUE]] /\ conn[k] \in ConnRecs
  BY <1>1, WireTypes
<1>7. /\ [conn[k] EXCEPT !.attached = TRUE] \in ConnRecs
      /\ SameEnds(conn[k], [conn[k] EXCEPT !.attached = TRUE])
      /\ \A C : Durable(conn[k], C) => Durable([conn[k] EXCEPT !.attached = TRUE], C)
  BY <1>6 DEF ConnRecs, SameEnds, Durable
<1>8. Durable([conn[k] EXCEPT !.attached = TRUE], content)
  BY <1>7, WireKept
<1> QED
  BY <1>1, <1>4, <1>5, <1>6, <1>7, <1>8, WireTypes, ServerMoves DEF SameEnds

LEMMA ServeSyncKeeps ==
  ASSUME IInv, NEW k \in Conns, ServeSync(k)
  PROVE  IInv'
<1> DEFINE d == Msg("data", content \ Head(up[k]).ops)
           z == Msg("synced", content)
<1>1. /\ has' = has /\ hist' = hist /\ pending' = pending /\ await' = await /\ call' = call /\ st' = st
      /\ sock' = sock /\ content' = content /\ budget' = budget /\ conn' = conn /\ Take(k, "sync")
      /\ Answer(k, <<d, z>>)
  BY DEF ServeSync, client
<1>2. /\ d \in Messages /\ d.ops \subseteq content /\ d.type = "data"
      /\ z \in Messages /\ z.ops \subseteq content /\ z.type = "synced"
  <2>1. content \in SUBSET Ops /\ content \ Head(up[k]).ops \in SUBSET Ops
        /\ content \ Head(up[k]).ops \subseteq content
    BY WireTypes
  <2> QED
    BY <2>1, MsgFields DEF Kinds
<1> HIDE DEF d, z
<1>3. <<d, z>> \in Seq(Messages) /\ Told(<<d, z>>, content)
  BY <1>2, Saying
<1>4. down' \in [Conns -> Seq(Messages)] /\ \A j \in Conns : Told(down'[j], content)
  BY <1>1, <1>3, AnswerKeeps
<1>5. up' \in [Conns -> Seq(Messages)] /\ \A j \in Conns : Offered(up'[j], Created, hist, content)
  BY <1>1, TakeKeeps
<1> QED
  BY <1>1, <1>4, <1>5, WireKept, WireTypes, ServerFrame

(* An update that a client sends is never refused for its dependencies. *)
LEMMA ServeUpdateKeeps ==
  ASSUME IInv, NEW k \in Conns, ServeUpdate(k)
  PROVE  IInv'
<1> DEFINE S == Head(up[k]).ops
           y == [conn[k] EXCEPT !.writer = conn[k].writer \/ ~InUse(k)]
           x == [conn[k] EXCEPT !.writer = TRUE, !.task = "acking", !.ops = S,
                                !.applied = ~(S \subseteq content)]
<1>1. /\ has' = has /\ hist' = hist /\ pending' = pending /\ await' = await /\ call' = call /\ st' = st
      /\ sock' = sock /\ budget' = budget /\ Take(k, "update")
  BY DEF ServeUpdate, client
<1>2. conn[k] \in ConnRecs
  BY WireTypes
<1>3. S \in SUBSET Ops /\ S \subseteq Created /\ Supported(S, hist, content)
  BY <1>1, TakeKeeps DEF Fit, Messages
<1>4. \A o \in S : hist[o] \subseteq content \cup S
  BY <1>3 DEF Supported
<1>5. CASE InUse(k)
  <2>1. /\ content' = content /\ conn' = [conn EXCEPT ![k] = y] /\ Answer(k, <<Msg("in_use", {})>>)
    BY <1>2, <1>4, <1>5 DEF ServeUpdate
  <2>2. Msg("in_use", {}) \in Messages /\ Msg("in_use", {}).ops = {} /\ Msg("in_use", {}).type = "in_use"
    BY MsgFields DEF Kinds
  <2>3. <<Msg("in_use", {})>> \in Seq(Messages) /\ Told(<<Msg("in_use", {})>>, content)
    BY <2>2, Saying
  <2>4. down' \in [Conns -> Seq(Messages)] /\ \A j \in Conns : Told(down'[j], content)
    BY <2>1, <2>3, AnswerKeeps
  <2>5. up' \in [Conns -> Seq(Messages)] /\ \A j \in Conns : Offered(up'[j], Created, hist, content)
    BY <1>1, TakeKeeps
  <2>6. (conn[k].writer \/ ~InUse(k)) = conn[k].writer
    BY <1>2, <1>5 DEF ConnRecs
  <2>7. y = conn[k]
    BY <1>2, <2>6 DEF ConnRecs
  <2> HIDE DEF y
  <2> QED
    BY <1>1, <1>2, <2>1, <2>4, <2>5, <2>7, WireKept, WireTypes, ServerMoves
<1>6. CASE ~InUse(k)
  <2>1. /\ content' = content \cup S /\ conn' = [conn EXCEPT ![k] = x] /\ down' = down
    BY <1>4, <1>6 DEF ServeUpdate
  <2>2. (S \subseteq content) \in BOOLEAN
    OBVIOUS
  <2>3. /\ x \in ConnRecs /\ x.open = conn[k].open /\ x.peer = conn[k].peer
        /\ x.ops = S /\ x.lane = conn[k].lane
    BY <1>2, <1>3, <2>2 DEF ConnRecs, Tasks
  <2>4. content \subseteq content' /\ content' \subseteq Created /\ S \subseteq content'
    BY <1>3, <2>1, WireTypes
  <2>5. Durable(x, content')
    BY <2>3, <2>4, WireKept DEF Durable
  <2>6. /\ up' \in [Conns -> Seq(Messages)]
        /\ \A j \in Conns : Told(down'[j], content') /\ Offered(up'[j], Created, hist, content')
    BY <1>1, <2>1, <2>4, TakeKeeps, WireKept
  <2> HIDE DEF x, S
  <2> QED
    BY <1>1, <1>6, <2>1, <2>3, <2>4, <2>5, <2>6, WireTypes, ServerMoves
<1> QED
  BY <1>5, <1>6

LEMMA AckKeeps ==
  ASSUME IInv, NEW k \in Conns, Ack(k)
  PROVE  IInv'
<1> DEFINE x == [conn[k] EXCEPT !.task = IF conn[k].applied THEN "publishing" ELSE "idle",
                                !.ops = IF conn[k].applied THEN conn[k].ops ELSE {},
                                !.applied = FALSE]
           m == Msg("ack", conn[k].ops)
<1>1. /\ has' = has /\ hist' = hist /\ pending' = pending /\ await' = await /\ call' = call /\ st' = st
      /\ sock' = sock /\ budget' = budget /\ content' = content /\ up' = up
      /\ conn[k].task = "acking" /\ Answer(k, <<m>>)
  BY DEF Ack, client
<1>2. conn[k] \in ConnRecs /\ Durable(conn[k], content)
  BY WireTypes, WireKept
<1>3. conn' = [conn EXCEPT ![k] = x]
  BY <1>2, WireTypes DEF Ack
<1>4. conn[k].ops \in SUBSET Ops /\ conn[k].ops \subseteq content
  BY <1>1, <1>2 DEF ConnRecs, Durable
<1>5. m \in Messages /\ m.ops \subseteq content /\ m.type = "ack"
  BY <1>4, MsgFields DEF Kinds
<1>6. <<m>> \in Seq(Messages) /\ Told(<<m>>, content)
  BY <1>5, Saying
<1>7. down' \in [Conns -> Seq(Messages)] /\ \A j \in Conns : Told(down'[j], content)
  BY <1>1, <1>6, AnswerKeeps
<1>8. /\ x \in ConnRecs /\ x.open = conn[k].open /\ x.peer = conn[k].peer /\ x.writer = conn[k].writer
      /\ x.ops \subseteq content /\ x.lane = conn[k].lane
  BY <1>2, <1>4 DEF ConnRecs, Tasks
<1>9. Durable(x, content)
  BY <1>2, <1>8 DEF Durable
<1> HIDE DEF x, m
<1> QED
  BY <1>1, <1>3, <1>7, <1>8, <1>9, WireKept, WireTypes, ServerMoves

LEMMA PublishKeeps ==
  ASSUME IInv, NEW k \in Conns, Publish(k)
  PROVE  IInv'
<1> DEFINE S == conn[k].ops
           x == [Pushed(conn[k], S) EXCEPT !.task = "idle", !.ops = {}]
<1>1. /\ has' = has /\ hist' = hist /\ pending' = pending /\ await' = await /\ call' = call /\ st' = st
      /\ sock' = sock /\ budget' = budget /\ content' = content /\ up' = up /\ down' = down
      /\ conn[k].task = "publishing"
      /\ conn' = [j \in Conns |-> IF j = k THEN x ELSE Pushed(conn[j], S)]
  BY DEF Publish, client
<1>2. \A j \in Conns : conn[j] \in ConnRecs /\ Durable(conn[j], content)
  BY WireTypes, WireKept
<1>3. S \in SUBSET Ops /\ S \subseteq content
  BY <1>1, <1>2 DEF ConnRecs, Durable
<1>4. ASSUME NEW j \in Conns
      PROVE  LET p == Pushed(conn[j], S) IN
             /\ p \in ConnRecs /\ p.peer = conn[j].peer /\ p.open = conn[j].open
             /\ p.writer = conn[j].writer /\ Durable(p, content)
  BY <1>2, <1>3, PushedFields
<1>5. /\ x \in ConnRecs /\ x.peer = conn[k].peer /\ x.open = conn[k].open
      /\ x.writer = conn[k].writer /\ Durable(x, content)
  <2> DEFINE p == Pushed(conn[k], S)
  <2>1. /\ p \in ConnRecs /\ p.peer = conn[k].peer /\ p.open = conn[k].open
        /\ p.writer = conn[k].writer /\ Durable(p, content)
    BY <1>4
  <2>2. x = [p EXCEPT !.task = "idle", !.ops = {}]
    OBVIOUS
  <2> HIDE DEF p, x, S
  <2>3. /\ x \in ConnRecs /\ x.peer = p.peer /\ x.open = p.open /\ x.writer = p.writer
        /\ x.task = "idle" /\ x.lane = p.lane
    BY <2>1, <2>2 DEF ConnRecs, Tasks
  <2>4. Durable(x, content)
    BY <2>1, <2>3 DEF Durable
  <2> QED
    BY <2>1, <2>3, <2>4
<1> HIDE DEF x, S
<1>6. ASSUME NEW j \in Conns
      PROVE  /\ conn'[j] \in ConnRecs /\ conn'[j].peer = conn[j].peer /\ conn'[j].open = conn[j].open
             /\ conn'[j].writer = conn[j].writer /\ Durable(conn'[j], content)
  BY <1>1, <1>4, <1>5
<1>7. conn' \in [Conns -> ConnRecs]
  BY <1>1, <1>6
<1> QED
  BY <1>1, <1>6, <1>7, WireKept, WireTypes, ServerFrame

LEMMA ForwardKeeps ==
  ASSUME IInv, NEW k \in Conns, Forward(k)
  PROVE  IInv'
<1>1. /\ has' = has /\ hist' = hist /\ pending' = pending /\ await' = await /\ call' = call /\ st' = st
      /\ sock' = sock /\ budget' = budget /\ content' = content /\ up' = up /\ conn[k].lane # <<>>
  BY DEF Forward, client
<1>2. conn[k] \in ConnRecs /\ Durable(conn[k], content)
  BY WireTypes, WireKept
<1>3. CASE conn[k].lagged
  <2> DEFINE x == [conn[k] EXCEPT !.lagged = FALSE]
  <2>1. conn' = [conn EXCEPT ![k] = x] /\ Answer(k, <<Msg("resync", {})>>)
    BY <1>2, <1>3 DEF Forward
  <2>2. Msg("resync", {}) \in Messages /\ Msg("resync", {}).ops = {} /\ Msg("resync", {}).type = "resync"
    BY MsgFields DEF Kinds
  <2>3. <<Msg("resync", {})>> \in Seq(Messages) /\ Told(<<Msg("resync", {})>>, content)
    BY <2>2, Saying
  <2>4. down' \in [Conns -> Seq(Messages)] /\ \A j \in Conns : Told(down'[j], content)
    BY <2>1, <2>3, AnswerKeeps
  <2>5. /\ x \in ConnRecs /\ x.open = conn[k].open /\ x.peer = conn[k].peer /\ x.writer = conn[k].writer
        /\ x.ops = conn[k].ops /\ x.lane = conn[k].lane /\ x.task = conn[k].task
    BY <1>2 DEF ConnRecs
  <2>6. Durable(x, content)
    BY <1>2, <2>5 DEF Durable
  <2> HIDE DEF x
  <2> QED
    BY <1>1, <2>1, <2>4, <2>5, <2>6, WireKept, WireTypes, ServerMoves
<1>4. CASE ~conn[k].lagged
  <2> DEFINE x == [conn[k] EXCEPT !.lane = Tail(conn[k].lane)]
             m == Msg("committed", Head(conn[k].lane))
  <2>1. conn' = [conn EXCEPT ![k] = x] /\ Answer(k, <<m>>)
    BY <1>2, <1>4 DEF Forward
  <2>2. /\ conn[k].lane \in Seq(SUBSET Ops) /\ Tail(conn[k].lane) \in Seq(SUBSET Ops)
        /\ Head(conn[k].lane) \in SUBSET Ops /\ Head(conn[k].lane) = conn[k].lane[1]
        /\ 1 \in 1..Len(conn[k].lane)
        /\ \A i \in 1..Len(Tail(conn[k].lane)) :
              Tail(conn[k].lane)[i] = conn[k].lane[i + 1] /\ i + 1 \in 1..Len(conn[k].lane)
    BY <1>1, <1>2, ConnFields
  <2>3. Head(conn[k].lane) \subseteq content
    BY <1>2, <2>2 DEF Durable
  <2>4. m \in Messages /\ m.ops \subseteq content /\ m.type = "committed"
    BY <2>2, <2>3, MsgFields DEF Kinds
  <2>5. /\ x \in ConnRecs /\ x.open = conn[k].open /\ x.peer = conn[k].peer /\ x.writer = conn[k].writer
        /\ x.ops = conn[k].ops /\ x.lane = Tail(conn[k].lane) /\ x.task = conn[k].task
    BY <1>2, <2>2 DEF ConnRecs
  <2>6. Durable(x, content)
    <3> HIDE DEF x
    <3> QED
      BY <1>2, <2>2, <2>5, Zenon DEF Durable
  <2> HIDE DEF x, m
  <2>7. <<m>> \in Seq(Messages) /\ Told(<<m>>, content)
    BY <2>4, Saying
  <2>8. down' \in [Conns -> Seq(Messages)] /\ \A j \in Conns : Told(down'[j], content)
    BY <2>1, <2>7, AnswerKeeps
  <2> QED
    BY <1>1, <2>1, <2>5, <2>6, <2>8, WireKept, WireTypes, ServerMoves
<1> QED
  BY <1>3, <1>4

LEMMA QuitKeeps ==
  ASSUME IInv, NEW k \in Conns, Quit(k)
  PROVE  IInv'
<1>1. /\ has' = has /\ hist' = hist /\ pending' = pending /\ await' = await /\ call' = call /\ st' = st
      /\ sock' = sock /\ budget' = budget /\ content' = content /\ down' = down
      /\ conn' = [conn EXCEPT ![k] = Ended(k)] /\ up' = [up EXCEPT ![k] = <<>>]
  BY DEF Quit, client
<1>2. conn[k] \in ConnRecs
  BY WireTypes
<1>3. /\ conn'[k] = Ended(k) /\ (\A j \in Conns : j # k => conn'[j] = conn[j] /\ up'[j] = up[j])
      /\ up'[k] = <<>> /\ conn' \in [Conns -> ConnRecs]
  BY <1>1, <1>2, EndedFields, WireTypes
<1>4. /\ up' \in [Conns -> Seq(Messages)]
      /\ \A j \in Conns : Offered(up'[j], Created, hist, content)
  BY <1>1, <1>3, NothingSaid, WireKept, WireTypes
<1>5. \A j \in Conns :
         /\ conn'[j].open = conn[j].open /\ (conn[j].open => conn'[j].peer = conn[j].peer)
         /\ (conn'[j].writer => conn[j].writer /\ conn'[j].peer = conn[j].peer)
         /\ Durable(conn'[j], content)
  BY <1>2, <1>3, EndedFields, WireKept
<1> QED
  BY <1>1, <1>3, <1>4, <1>5, WireKept, WireTypes, ServerFrame

LEMMA RestartKeeps ==
  ASSUME IInv, Restart
  PROVE  IInv'
<1>1. /\ has' = has /\ hist' = hist /\ pending' = pending /\ await' = await /\ call' = call /\ st' = st
      /\ sock' = sock /\ content' = content /\ down' = down
      /\ conn' = [k \in Conns |-> Ended(k)] /\ up' = [k \in Conns |-> <<>>]
      /\ budget' = [budget EXCEPT !.restarts = @ - 1] /\ budget.restarts > 0
  BY DEF Restart, client
<1>2. ASSUME NEW j \in Conns
      PROVE  /\ conn'[j] \in ConnRecs /\ conn'[j].open = conn[j].open
             /\ (conn[j].open => conn'[j].peer = conn[j].peer) /\ conn'[j].writer = FALSE
             /\ Durable(conn'[j], content)
  <2>1. conn[j] \in ConnRecs /\ conn'[j] = Ended(j)
    BY <1>1, WireTypes
  <2> QED
    BY <2>1, EndedFields
<1>3. conn' \in [Conns -> ConnRecs]
  BY <1>1, <1>2
<1>4. up' \in [Conns -> Seq(Messages)] /\ \A j \in Conns : Offered(up'[j], Created, hist, content)
  BY <1>1, NothingSaid
<1>5. budget' \in Budgets
  <2>1. budget.restarts - 1 \in Nat
    BY <1>1, WireTypes DEF Budgets
  <2> QED
    BY <1>1, <2>1, WireTypes DEF Budgets
<1> QED
  BY <1>1, <1>2, <1>3, <1>4, <1>5, WireKept, WireTypes, ServerFrame

LEMMA ServerStepKeeps ==
  ASSUME IInv, NEW k \in Conns, ServerStep(k)
  PROVE  IInv'
  BY LimitKeeps, ServeAttachKeeps, ServeSyncKeeps, ServeUpdateKeeps, AckKeeps, PublishKeeps, ForwardKeeps,
     QuitKeeps DEF ServerStep, SocketClosed, SendFails, LeaseExpires

-----------------------------------------------------------------------------
(* The client reads from its socket. *)

(* An operation of one's own that comes back is already there. *)
LEMMA ImportKeeps ==
  ASSUME IInv, NEW c \in Clients, NEW S \in SUBSET content, has' = [has EXCEPT ![c] = @ \cup S],
         hist' = hist, content' = content
  PROVE  /\ ReplicaInv' /\ has' \in [Clients -> SUBSET Ops]
         /\ Created' = Created /\ \A d \in Clients : Own(d)' = Own(d)
<1>1. /\ has \in [Clients -> SUBSET Ops] /\ content \subseteq Created /\ Created \subseteq Ops
      /\ \A d \in Clients : Replica(d)
  BY DEF IInv, StateTypes, ReplicaInv, Created
<1>2. has'[c] = has[c] \cup S /\ (\A d \in Clients : d # c => has'[d] = has[d])
      /\ has' \in [Clients -> SUBSET Ops]
  BY <1>1
<1>3. \A o \in S : o \in has[o[1]] /\ o \in Ops
  BY <1>1 DEF Created
<1>4. \A d \in Clients : Own(d)' = Own(d)
  BY <1>2, <1>3 DEF Own
<1>5. \A o \in Ops : o[1] \in Clients
  BY DEF Ops
<1>6. Created' = Created
  BY <1>2, <1>3, <1>5 DEF Created
<1>7. ASSUME NEW d \in Clients PROVE Replica(d)'
  BY <1>1, <1>2, <1>4, <1>7 DEF Replica
<1> QED
  BY <1>1, <1>2, <1>4, <1>6, <1>7 DEF ReplicaInv

(* A call goes on, on the same socket. *)
LEMMA ReadFrame ==
  ASSUME IInv, NEW c \in Clients, sock[c] # None,
         ReplicaInv', has' \in [Clients -> SUBSET Ops], hist' = hist, content' = content,
         Created' = Created, \A d \in Clients : Own(d)' = Own(d),
         sock' = sock, conn' = conn, budget' = budget,
         NEW t, Incoming(c, t),
         up' \in [Conns -> Seq(Messages)], \A j \in Conns : Offered(up'[j], Created, hist, content),
         pending' \in [Clients -> SUBSET (SUBSET Ops)], await' \in [Clients -> SUBSET Ops],
         call' \in [Clients -> {"connect", "next", "submit", "resubmit"}], st' \in [Clients -> States],
         \A d \in Clients : d # c => await'[d] = await[d] /\ call'[d] = call[d] /\ st'[d] = st[d],
         st'[c] \in Connected, Settled(call'[c], st'[c], await'[c], Own(c), content)
  PROVE  IInv'
<1>1. sock[c] \in Conns
  BY DEF IInv, StateTypes
<1>2. /\ down[sock[c]] # <<>> /\ down' = [down EXCEPT ![sock[c]] = Tail(down[sock[c]])]
  BY DEF Incoming, Waiting
<1>3. /\ down[sock[c]] \in Seq(Messages) /\ Told(down[sock[c]], content)
  BY <1>1, WireKept, WireTypes
<1>4. Tail(down[sock[c]]) \in Seq(Messages) /\ Told(Tail(down[sock[c]]), content)
  BY <1>2, <1>3, Taken
<1>5. down' \in [Conns -> Seq(Messages)] /\ \A j \in Conns : Told(down'[j], content)
  BY <1>1, <1>2, <1>4, WireKept, WireTypes
<1>6. StateTypes'
  BY <1>5 DEF IInv, StateTypes
<1>7. LinkInv' /\ LeaseInv'
  <2>1. ASSUME NEW d \in Clients PROVE Linked(d)'
    <3>1. Linked(d)
      BY DEF IInv, LinkInv
    <3> QED
      BY <3>1 DEF Linked
  <2> QED
    BY <2>1 DEF IInv, LinkInv, LeaseInv
<1>8. WireInv'
  BY <1>5, WireKept DEF WireInv
<1>9. SettledInv'
  BY DEF IInv, SettledInv
<1> QED
  BY <1>6, <1>7, <1>8, <1>9 DEF IInv

LEMMA SentKeeps ==
  ASSUME IInv, NEW k \in Conns, NEW m \in Messages, Fit(m, Created, hist, content), up' = Sent(k, m)
  PROVE  up' \in [Conns -> Seq(Messages)] /\ \A j \in Conns : Offered(up'[j], Created, hist, content)
<1>1. CASE conn[k].task = "ended"
  BY <1>1, WireKept, WireTypes DEF Sent
<1>2. CASE conn[k].task # "ended"
  <2>1. up' = [up EXCEPT ![k] = Append(up[k], m)]
    BY <1>2 DEF Sent
  <2>2. up[k] \in Seq(Messages) /\ Offered(up[k], Created, hist, content)
    BY WireKept, WireTypes
  <2>3. Append(up[k], m) \in Seq(Messages) /\ Offered(Append(up[k], m), Created, hist, content)
    BY <2>2, Added
  <2> QED
    BY <2>1, <2>3, WireKept, WireTypes
<1> QED
  BY <1>1, <1>2

LEMMA HeardDurable ==
  ASSUME IInv, NEW c \in Clients, NEW t, Waiting(c, t)
  PROVE  /\ sock[c] \in Conns /\ sock[c] # None /\ st[c] \in Connected
         /\ Head(down[sock[c]]) \in Messages /\ Head(down[sock[c]]).type = t
         /\ Head(down[sock[c]]).ops \subseteq content /\ t # "missing"
<1>1. sock[c] \in Conns /\ sock[c] # None /\ down[sock[c]] # <<>> /\ Head(down[sock[c]]).type = t
  BY DEF Waiting, IInv, StateTypes
<1>2. down[sock[c]] \in Seq(Messages) /\ Told(down[sock[c]], content)
  BY <1>1, WireKept, WireTypes
<1>3. st[c] \in Connected
  BY <1>1 DEF IInv, LinkInv, Linked
<1> QED
  BY <1>1, <1>2, <1>3, Taken

(* What a replica shows: all it wrote, and otherwise only what is durable. *)
LEMMA Shows ==
  ASSUME IInv, NEW c \in Clients
  PROVE  /\ Own(c) \subseteq Visible(has[c]) /\ Visible(has[c]) \subseteq has[c]
         /\ has[c] \subseteq Own(c) \cup content /\ has[c] \subseteq Created /\ has[c] \in SUBSET Ops
         /\ Own(c) \subseteq has[c]
<1>1. Replica(c) /\ content \subseteq Created /\ has[c] \in SUBSET Ops
  BY DEF IInv, ReplicaInv, StateTypes
<1>2. Own(c) \subseteq Visible(has[c]) /\ Visible(has[c]) \subseteq has[c] /\ Own(c) \subseteq has[c]
  BY <1>1 DEF Replica, Own, Visible
<1>3. has[c] \subseteq Own(c) \cup content
  BY <1>1 DEF Replica
<1>4. Own(c) \subseteq Created
  BY <1>1 DEF Own, Created
<1> QED
  BY <1>1, <1>2, <1>3, <1>4

(* A sync carries what exists. *)
LEMMA SyncSent ==
  ASSUME IInv, NEW c \in Clients, sock[c] \in Conns, SendSync(c)
  PROVE  up' \in [Conns -> Seq(Messages)] /\ \A j \in Conns : Offered(up'[j], Created, hist, content)
<1> DEFINE m == Msg("sync", Visible(has[c]))
<1>1. Visible(has[c]) \in SUBSET Ops /\ Visible(has[c]) \subseteq Created
  BY Shows
<1>2. m \in Messages /\ m.type = "sync" /\ m.ops = Visible(has[c])
  BY <1>1, MsgFields DEF Kinds
<1>3. Fit(m, Created, hist, content)
  BY <1>1, <1>2 DEF Fit
<1>4. up' = Sent(sock[c], m)
  BY DEF SendSync
<1> HIDE DEF m
<1> QED
  BY <1>2, <1>3, <1>4, SentKeeps

(* An update that a client with history H may send. *)
LEMMA UpdateSent ==
  ASSUME IInv, NEW k \in Conns, NEW S \in SUBSET Ops, S \subseteq Created,
         Supported(S, hist, content), up' = Sent(k, Msg("update", S))
  PROVE  up' \in [Conns -> Seq(Messages)] /\ \A j \in Conns : Offered(up'[j], Created, hist, content)
<1> DEFINE m == Msg("update", S)
<1>1. m \in Messages /\ m.type = "update" /\ m.ops = S
  BY MsgFields DEF Kinds
<1>2. Fit(m, Created, hist, content)
  BY <1>1 DEF Fit
<1>3. up' = Sent(k, m)
  OBVIOUS
<1> HIDE DEF m
<1> QED
  BY <1>1, <1>2, <1>3, SentKeeps

LEMMA LastOwn ==
  ASSUME IInv, NEW c \in Clients, Own(c) # {}
  PROVE  <<c, Cardinality(Own(c))>> \in Own(c)
<1>1. IsFiniteSet(Own(c)) /\ Own(c) = {<<c, i>> : i \in 1..Cardinality(Own(c))}
  BY DEF IInv, ReplicaInv, Replica
<1>2. Cardinality(Own(c)) \in Nat
  BY <1>1, FS_CardinalityType
<1>3. 1..Cardinality(Own(c)) # {}
  BY <1>1
<1>4. Cardinality(Own(c)) \in 1..Cardinality(Own(c))
  BY <1>2, <1>3
<1> QED
  BY <1>1, <1>4

(* The end of a call, once everything is durable. *)
LEMMA ReturnedKeeps ==
  ASSUME IInv, NEW c \in Clients, sock[c] \in Conns, Own(c) \subseteq content, Returned(c)
  PROVE  /\ up' \in [Conns -> Seq(Messages)]
         /\ \A j \in Conns : Offered(up'[j], Created, hist, content)
         /\ await' \in [Clients -> SUBSET Ops]
         /\ call' \in [Clients -> {"connect", "next", "submit", "resubmit"}]
         /\ st' \in [Clients -> States] /\ st'[c] \in Connected
         /\ \A d \in Clients : d # c => await'[d] = await[d] /\ call'[d] = call[d] /\ st'[d] = st[d]
         /\ Settled(call'[c], st'[c], await'[c], Own(c), content)
<1>1. /\ await \in [Clients -> SUBSET Ops] /\ st \in [Clients -> States]
      /\ call \in [Clients -> {"connect", "next", "submit", "resubmit"}]
  BY DEF IInv, StateTypes
<1>2. CASE call[c] # "resubmit"
  <2>1. /\ st' = [st EXCEPT ![c] = "ready"] /\ await' = [await EXCEPT ![c] = {}]
        /\ call' = [call EXCEPT ![c] = "next"] /\ up' = up
    BY <1>2 DEF Returned
  <2>2. "ready" \in States /\ "ready" \in Connected
    BY DEF States, Connected
  <2>3. st'[c] = "ready" /\ call'[c] = "next"
    BY <1>1, <2>1
  <2>4. Settled(call'[c], st'[c], await'[c], Own(c), content)
    BY <2>3 DEF Settled
  <2> QED
    BY <1>1, <2>1, <2>2, <2>4, WireKept, WireTypes
<1>3. CASE call[c] = "resubmit"
  <2> DEFINE last == {<<c, Cardinality(Own(c))>>}
  <2>1. /\ st' = [st EXCEPT ![c] = "submitting"] /\ await' = [await EXCEPT ![c] = last]
        /\ call' = [call EXCEPT ![c] = "submit"] /\ up' = Sent(sock[c], Msg("update", last))
    BY <1>3 DEF Returned
  <2>2. Own(c) # {}
    BY <1>3 DEF IInv, SettledInv, Settled
  <2>3. last \subseteq Own(c)
    BY <2>2, LastOwn
  <2>4. last \in SUBSET Ops /\ last \subseteq Created
    BY <2>3, Shows
  <2> HIDE DEF last
  <2>5. \A o \in Own(c) : hist[o] \subseteq has[c]
    BY DEF IInv, ReplicaInv, Replica
  <2>6. Supported(last, hist, content)
    BY <2>3, <2>5, Shows DEF Supported
  <2>7. "submitting" \in States /\ "submitting" \in Connected /\ "submitting" \notin WithSocket
    BY DEF States, Connected, WithSocket
  <2>8. st'[c] = "submitting" /\ call'[c] = "submit"
    BY <1>1, <2>1
  <2>9. Settled(call'[c], st'[c], await'[c], Own(c), content)
    BY <2>2, <2>7, <2>8 DEF Settled
  <2>10. /\ up' \in [Conns -> Seq(Messages)]
         /\ \A j \in Conns : Offered(up'[j], Created, hist, content)
    BY <2>1, <2>4, <2>6, UpdateSent
  <2> QED
    BY <1>1, <2>1, <2>4, <2>7, <2>9, <2>10
<1> QED
  BY <1>2, <1>3

(* Steps that leave the replica alone. *)
LEMMA Unread ==
  ASSUME IInv, has' = has, hist' = hist, content' = content
  PROVE  /\ ReplicaInv' /\ has' \in [Clients -> SUBSET Ops] /\ Created' = Created
         /\ \A d \in Clients : Own(d)' = Own(d)
  BY ReplicasKept DEF IInv, StateTypes, ReplicaInv

LEMMA CallTypes ==
  ASSUME IInv
  PROVE  /\ pending \in [Clients -> SUBSET (SUBSET Ops)] /\ await \in [Clients -> SUBSET Ops]
         /\ call \in [Clients -> {"connect", "next", "submit", "resubmit"}] /\ st \in [Clients -> States]
         /\ has \in [Clients -> SUBSET Ops] /\ sock \in [Clients -> Conns \cup {None}]
         /\ \A c \in Clients : Settled(call[c], st[c], await[c], Own(c), content)
  BY DEF IInv, StateTypes, SettledInv

LEMMA RecvAttachedKeeps ==
  ASSUME IInv, NEW c \in Clients, RecvAttached(c)
  PROVE  IInv'
<1>1. /\ Incoming(c, "attached") /\ st[c] = "attaching" /\ SendSync(c) /\ st' = [st EXCEPT ![c] = "syncing"]
      /\ content' = content /\ hist' = hist /\ has' = has /\ pending' = pending /\ await' = await
      /\ call' = call /\ sock' = sock /\ conn' = conn /\ budget' = budget
  BY DEF RecvAttached
<1>2. sock[c] \in Conns /\ sock[c] # None
  BY <1>1, HeardDurable DEF Incoming
<1>3. up' \in [Conns -> Seq(Messages)] /\ \A j \in Conns : Offered(up'[j], Created, hist, content)
  BY <1>1, <1>2, SyncSent
<1>4. "syncing" \in States /\ "syncing" \in Connected /\ "syncing" \notin WithSocket
  BY DEF States, Connected, WithSocket
<1>5. st' \in [Clients -> States] /\ st'[c] = "syncing" /\ \A d \in Clients : d # c => st'[d] = st[d]
  BY <1>1, <1>4, CallTypes
<1>6. Settled(call'[c], st'[c], await'[c], Own(c), content)
  BY <1>1, <1>4, <1>5, CallTypes DEF Settled
<1> QED
  BY <1>1, <1>2, <1>3, <1>4, <1>5, <1>6, CallTypes, Unread, ReadFrame

(* A message that is passed over. *)
LEMMA IgnoredKeeps ==
  ASSUME IInv, NEW c \in Clients, NEW t, Incoming(c, t), content' = content, hist' = hist, has' = has,
         pending' \in [Clients -> SUBSET (SUBSET Ops)], await' = await, call' = call, st' = st,
         sock' = sock, conn' = conn, up' = up, budget' = budget
  PROVE  IInv'
<1>1. sock[c] \in Conns /\ sock[c] # None /\ st'[c] \in Connected
  BY HeardDurable DEF Incoming
<1>2. Settled(call'[c], st'[c], await'[c], Own(c), content)
  BY CallTypes
<1> QED
  BY <1>1, <1>2, CallTypes, Unread, WireKept, WireTypes, ReadFrame

LEMMA RecvImportKeeps ==
  ASSUME IInv, NEW c \in Clients, RecvImport(c)
  PROVE  IInv'
<1>1. PICK t : Incoming(c, t)
  BY DEF RecvImport
<1> DEFINE S == Head(down[sock[c]]).ops
<1>2. /\ has' = [has EXCEPT ![c] = @ \cup S] /\ content' = content /\ hist' = hist
      /\ pending' = pending /\ await' = await /\ st' = st
      /\ call' = call /\ sock' = sock /\ conn' = conn /\ up' = up /\ budget' = budget
  BY DEF RecvImport
<1>3. sock[c] \in Conns /\ sock[c] # None /\ st'[c] \in Connected /\ S \subseteq content
  BY <1>1, <1>2, HeardDurable DEF Incoming
<1> HIDE DEF S
<1>4. /\ ReplicaInv' /\ has' \in [Clients -> SUBSET Ops]
      /\ Created' = Created /\ \A d \in Clients : Own(d)' = Own(d)
  BY <1>2, <1>3, ImportKeeps
<1>5. Settled(call'[c], st'[c], await'[c], Own(c), content)
  BY <1>2, CallTypes
<1> QED
  BY <1>1, <1>2, <1>3, <1>4, <1>5, CallTypes, WireKept, WireTypes, ReadFrame

(* catch_up: what the server lacks can be applied there, or everything is durable. *)
LEMMA RecvSyncedKeeps ==
  ASSUME IInv, NEW c \in Clients, RecvSynced(c)
  PROVE  IInv'
<1> DEFINE version == Head(down[sock[c]]).ops
           lacks == Visible(has[c]) \ version
<1>1. /\ Incoming(c, "synced") /\ content' = content /\ hist' = hist /\ has' = has
      /\ sock' = sock /\ conn' = conn /\ budget' = budget
  BY DEF RecvSynced
<1>2. sock[c] \in Conns /\ sock[c] # None /\ version \subseteq content
  BY <1>1, HeardDurable DEF Incoming
<1>3. Own(c) \subseteq lacks \cup content /\ lacks \in SUBSET Ops /\ lacks \subseteq Created
      /\ lacks \subseteq Visible(has[c]) /\ Visible(has[c]) \subseteq lacks \cup content
  BY <1>2, Shows
<1>4. CASE st[c] \notin {"syncing", "resyncing"}
  BY <1>1, <1>4, CallTypes, IgnoredKeeps DEF RecvSynced
<1>5. CASE st[c] \in {"syncing", "resyncing"} /\ lacks = {}
  <2>1. pending' = [pending EXCEPT ![c] = {}] /\ Returned(c)
    BY <1>5 DEF RecvSynced, CatchUp
  <2>2. Own(c) \subseteq content
    BY <1>3, <1>5
  <2>3. pending' \in [Clients -> SUBSET (SUBSET Ops)]
    BY <2>1, CallTypes
  <2> QED
    BY <1>1, <1>2, <2>1, <2>2, <2>3, ReturnedKeeps, Unread, ReadFrame
<1>6. CASE st[c] \in {"syncing", "resyncing"} /\ lacks # {}
  <2>1. /\ pending' = [pending EXCEPT ![c] = {lacks}] /\ await' = [await EXCEPT ![c] = lacks]
        /\ st' = [st EXCEPT ![c] = IF @ = "syncing" THEN "catchup" ELSE "recatchup"]
        /\ up' = Sent(sock[c], Msg("update", lacks)) /\ call' = call
    BY <1>6 DEF RecvSynced, CatchUp
  <2>2. Supported(lacks, hist, content)
    <3>1. ASSUME NEW o \in lacks PROVE hist[o] \subseteq content \cup lacks
      <4>1. hist[o] \subseteq has[c]
        BY <1>3, <3>1 DEF Visible
      <4> HIDE DEF lacks
      <4> QED
        BY <1>3, <4>1, Shows
    <3> QED
      BY <3>1 DEF Supported
  <2> HIDE DEF lacks
  <2>3. up' \in [Conns -> Seq(Messages)] /\ \A j \in Conns : Offered(up'[j], Created, hist, content)
    BY <1>2, <1>3, <2>1, <2>2, UpdateSent
  <2>4. pending' \in [Clients -> SUBSET (SUBSET Ops)] /\ await' \in [Clients -> SUBSET Ops]
        /\ await'[c] = lacks /\ \A d \in Clients : d # c => await'[d] = await[d]
    BY <1>3, <2>1, CallTypes
  <2>5. /\ {"catchup", "recatchup"} \subseteq States /\ {"catchup", "recatchup"} \subseteq Connected
        /\ "resyncing" \in WithSocket /\ "catchup" \notin WithSocket
    BY DEF States, Connected, WithSocket
  <2>6. /\ st' \in [Clients -> States] /\ st'[c] = IF st[c] = "syncing" THEN "catchup" ELSE "recatchup"
        /\ \A d \in Clients : d # c => st'[d] = st[d]
    BY <2>1, <2>5, CallTypes
  <2>7. Settled(call'[c], st'[c], await'[c], Own(c), content)
    <3>1. Settled(call[c], st[c], await[c], Own(c), content)
      BY CallTypes
    <3>2. CASE st[c] = "syncing"
      BY <1>3, <2>1, <2>4, <2>5, <2>6, <3>1, <3>2 DEF Settled
    <3>3. CASE st[c] = "resyncing"
      BY <2>1, <2>5, <2>6, <3>1, <3>3 DEF Settled
    <3> QED
      BY <1>6, <3>2, <3>3
  <2>8. st'[c] \in Connected
    BY <2>5, <2>6
  <2> QED
    BY <1>1, <1>2, <2>1, <2>3, <2>4, <2>6, <2>7, <2>8, CallTypes, Unread, ReadFrame
<1> QED
  BY <1>4, <1>5, <1>6

LEMMA RecvAckKeeps ==
  ASSUME IInv, NEW c \in Clients, RecvAck(c)
  PROVE  IInv'
<1> DEFINE id == Head(down[sock[c]]).ops
           mine == st[c] \in Submitting /\ id = await[c]
<1>1. /\ Incoming(c, "ack") /\ content' = content /\ hist' = hist /\ has' = has
      /\ sock' = sock /\ conn' = conn /\ budget' = budget
      /\ pending' = [pending EXCEPT ![c] = @ \ {id}]
  BY DEF RecvAck
<1>2. sock[c] \in Conns /\ sock[c] # None /\ id \subseteq content
  BY <1>1, HeardDurable DEF Incoming
<1>3. pending' \in [Clients -> SUBSET (SUBSET Ops)]
  BY <1>1, CallTypes
<1>4. CASE mine
  <2>1. Returned(c)
    BY <1>4 DEF RecvAck
  <2>2. Settled(call[c], st[c], await[c], Own(c), content) /\ await[c] \subseteq content
    BY <1>2, <1>4, CallTypes
  <2>3. "recatchup" \in WithSocket
    BY DEF WithSocket
  <2>4. Own(c) \subseteq content
    <3>1. CASE st[c] \in {"catchup", "submitting"}
      BY <2>2, <3>1 DEF Settled
    <3>2. CASE st[c] = "recatchup"
      BY <2>2, <2>3, <3>2 DEF Settled
    <3> QED
      BY <1>4, <3>1, <3>2 DEF Submitting
  <2> QED
    BY <1>1, <1>2, <1>3, <2>1, <2>4, ReturnedKeeps, Unread, ReadFrame
<1>5. CASE ~mine
  <2>1. await' = await /\ call' = call /\ st' = st /\ up' = up
    BY <1>5 DEF RecvAck
  <2> QED
    BY <1>1, <1>3, <2>1, IgnoredKeeps
<1> QED
  BY <1>4, <1>5

LEMMA RecvResyncKeeps ==
  ASSUME IInv, NEW c \in Clients, RecvResync(c)
  PROVE  IInv'
<1>1. /\ Incoming(c, "resync") /\ content' = content /\ hist' = hist /\ has' = has
      /\ pending' = pending /\ await' = await /\ call' = call
      /\ sock' = sock /\ conn' = conn /\ budget' = budget
  BY DEF RecvResync
<1>2. sock[c] \in Conns /\ sock[c] # None
  BY <1>1, HeardDurable DEF Incoming
<1>3. CASE st[c] = "ready"
  <2>1. SendSync(c) /\ st' = [st EXCEPT ![c] = "resyncing"]
    BY <1>3 DEF RecvResync
  <2>2. "resyncing" \in States /\ "resyncing" \in Connected /\ "ready" \in WithSocket
    BY DEF States, Connected, WithSocket
  <2>3. st' \in [Clients -> States] /\ st'[c] = "resyncing" /\ \A d \in Clients : d # c => st'[d] = st[d]
    BY <2>1, <2>2, CallTypes
  <2>4. Settled(call[c], st[c], await[c], Own(c), content)
    BY CallTypes
  <2>5. Settled(call'[c], st'[c], await'[c], Own(c), content)
    BY <1>1, <1>3, <2>2, <2>3, <2>4 DEF Settled
  <2>6. up' \in [Conns -> Seq(Messages)] /\ \A j \in Conns : Offered(up'[j], Created, hist, content)
    BY <1>2, <2>1, SyncSent
  <2> QED
    BY <1>1, <1>2, <2>2, <2>3, <2>5, <2>6, CallTypes, Unread, ReadFrame
<1>4. CASE st[c] # "ready"
  BY <1>1, <1>4, CallTypes, IgnoredKeeps DEF RecvResync
<1> QED
  BY <1>3, <1>4

LEMMA RecvIgnoredKeeps ==
  ASSUME IInv, NEW c \in Clients, RecvDiscarded(c) \/ RecvLimited(c)
  PROVE  IInv'
<1>1. PICK t : Incoming(c, t)
  BY DEF RecvDiscarded, RecvLimited
<1>2. /\ content' = content /\ hist' = hist /\ has' = has /\ pending' = pending /\ await' = await
      /\ call' = call /\ st' = st /\ sock' = sock /\ conn' = conn /\ up' = up /\ budget' = budget
  BY DEF RecvDiscarded, RecvLimited, client
<1> QED
  BY <1>1, <1>2, CallTypes, IgnoredKeeps

-----------------------------------------------------------------------------
(* The client leaves its socket, connects and writes. *)

LEMMA LeaveFrame ==
  ASSUME IInv, NEW c \in Clients, sock[c] # None, sock' = [sock EXCEPT ![c] = None],
         NEW x, x = NoConn \/ x = Left(sock[c]), conn' = [conn EXCEPT ![sock[c]] = x],
         NEW s \in {"offline", "failed"}, st' = [st EXCEPT ![c] = s]
  PROVE  /\ LinkInv' /\ LeaseInv' /\ conn' \in [Conns -> ConnRecs]
         /\ sock' \in [Clients -> Conns \cup {None}] /\ st' \in [Clients -> States]
         /\ st'[c] = s /\ \A d \in Clients : d # c => st'[d] = st[d]
         /\ \A j \in Conns : Durable(conn'[j], content)
<1>1. sock[c] \in Conns /\ conn[sock[c]] \in ConnRecs /\ conn[sock[c]].peer = c /\ Linked(c)
  BY WireTypes DEF IInv, StateTypes, LinkInv, Linked
<1>2. /\ x \in ConnRecs /\ x.open = FALSE
      /\ (x.writer => conn[sock[c]].writer /\ x.peer = conn[sock[c]].peer) /\ Durable(x, content)
  <2>1. CASE x = NoConn
    <3>1. Durable(NoConn, content)
      BY NoConnFields DEF Durable
    <3> QED
      BY <2>1, <3>1, NoConnFields
  <2>2. CASE x = Left(sock[c])
    BY <1>1, <2>2, LeftFields, WireKept
  <2> QED
    BY <2>1, <2>2
<1>3. /\ conn'[sock[c]] = x /\ (\A j \in Conns : j # sock[c] => conn'[j] = conn[j])
      /\ conn' \in [Conns -> ConnRecs]
  BY <1>1, <1>2, WireTypes
<1>4. /\ sock' \in [Clients -> Conns \cup {None}] /\ sock'[c] = None
      /\ (\A d \in Clients : d # c => sock'[d] = sock[d])
  BY CallTypes
<1>5. /\ {"offline", "failed"} \subseteq States /\ "offline" \notin Connected /\ "failed" \notin Connected
  BY DEF States, Connected
<1>6. st' \in [Clients -> States] /\ st'[c] = s /\ \A d \in Clients : d # c => st'[d] = st[d]
  BY <1>5, CallTypes
<1>7. LinkInv'
  <2>1. ASSUME NEW d \in Clients PROVE Linked(d)'
    <3>1. CASE d = c
      BY <1>4, <1>5, <1>6, <3>1 DEF Linked
    <3>2. CASE d # c
      <4>1. Linked(d)
        BY DEF IInv, LinkInv
      <4>2. sock[d] # None => sock[d] # sock[c] /\ sock[d] \in Conns
        BY <1>1, <3>2, <4>1, CallTypes DEF Linked
      <4> QED
        BY <1>3, <1>4, <1>6, <3>2, <4>1, <4>2 DEF Linked
    <3> QED
      BY <3>1, <3>2
  <2>2. ASSUME NEW j \in Conns, conn'[j].open PROVE conn'[j].peer \in Clients /\ sock'[conn'[j].peer] = j
    <3>1. j # sock[c] /\ conn'[j] = conn[j]
      BY <1>2, <1>3, <2>2
    <3>2. conn[j].peer \in Clients /\ sock[conn[j].peer] = j
      BY <2>2, <3>1 DEF IInv, LinkInv
    <3> QED
      BY <1>4, <3>1, <3>2
  <2> QED
    BY <2>1, <2>2 DEF LinkInv
<1>8. LeaseInv'
  <2>1. \A j \in Conns : conn'[j].writer => conn[j].writer /\ conn'[j].peer = conn[j].peer
    BY <1>2, <1>3
  <2> QED
    BY <2>1 DEF IInv, LeaseInv
<1>9. \A j \in Conns : Durable(conn'[j], content)
  BY <1>2, <1>3, WireKept
<1> QED
  BY <1>3, <1>4, <1>6, <1>7, <1>8, <1>9

(* A call loses its socket. *)
LEMMA LossKeeps ==
  ASSUME IInv, NEW c \in Clients, sock[c] # None, sock' = [sock EXCEPT ![c] = None],
         NEW x, x = NoConn \/ x = Left(sock[c]), conn' = [conn EXCEPT ![sock[c]] = x],
         NEW s \in {"offline", "failed"}, st' = [st EXCEPT ![c] = s],
         content' = content, hist' = hist, has' = has, pending' = pending, await' \in [Clients -> SUBSET Ops],
         \A d \in Clients : d # c => await'[d] = await[d] /\ call'[d] = call[d],
         call' \in [Clients -> {"connect", "next", "submit", "resubmit"}],
         call'[c] = call[c] \/ (call[c] = "next" /\ call'[c] = "connect"),
         budget' \in Budgets,
         down' = down \/ down' = [down EXCEPT ![sock[c]] = <<>>],
         up' = up \/ \E n \in 0..Len(up[sock[c]]) : up' = [up EXCEPT ![sock[c]] = SubSeq(@, 1, n)]
  PROVE  IInv'
<1>1. /\ LinkInv' /\ LeaseInv' /\ conn' \in [Conns -> ConnRecs]
      /\ sock' \in [Clients -> Conns \cup {None}] /\ st' \in [Clients -> States]
      /\ st'[c] = s /\ \A d \in Clients : d # c => st'[d] = st[d]
      /\ \A j \in Conns : Durable(conn'[j], content)
  BY LeaveFrame
<1>2. sock[c] \in Conns
  BY CallTypes
<1>3. down' \in [Conns -> Seq(Messages)] /\ \A j \in Conns : Told(down'[j], content)
  <2>1. CASE down' = down
    BY <2>1, WireKept, WireTypes
  <2>2. CASE down' = [down EXCEPT ![sock[c]] = <<>>]
    BY <2>2, NothingSaid, WireKept, WireTypes
  <2> QED
    BY <2>1, <2>2
<1>4. up' \in [Conns -> Seq(Messages)] /\ \A j \in Conns : Offered(up'[j], Created, hist, content)
  <2>1. CASE up' = up
    BY <2>1, WireKept, WireTypes
  <2>2. CASE \E n \in 0..Len(up[sock[c]]) : up' = [up EXCEPT ![sock[c]] = SubSeq(@, 1, n)]
    <3>1. PICK n \in 0..Len(up[sock[c]]) : up' = [up EXCEPT ![sock[c]] = SubSeq(up[sock[c]], 1, n)]
      BY <2>2
    <3>2. up[sock[c]] \in Seq(Messages) /\ Offered(up[sock[c]], Created, hist, content)
      BY <1>2, WireKept, WireTypes
    <3>3. /\ SubSeq(up[sock[c]], 1, n) \in Seq(Messages)
          /\ Offered(SubSeq(up[sock[c]], 1, n), Created, hist, content)
      BY <3>2, Cut
    <3> QED
      BY <3>1, <3>3, WireKept, WireTypes
  <2> QED
    BY <2>1, <2>2
<1>5. ReplicaInv' /\ has' \in [Clients -> SUBSET Ops] /\ Created' = Created
      /\ \A d \in Clients : Own(d)' = Own(d)
  BY Unread
<1>6. StateTypes'
  BY <1>1, <1>3, <1>4, <1>5 DEF IInv, StateTypes, Budgets
<1>7. WireInv'
  BY <1>1, <1>3, <1>4, <1>5 DEF WireInv
<1>8. SettledInv'
  <2>1. Settled(call'[c], st'[c], await'[c], Own(c), content)
    <3>1. Settled(call[c], st[c], await[c], Own(c), content)
      BY CallTypes
    <3>2. s \notin WithSocket /\ s \notin {"submitting", "catchup"}
      BY DEF WithSocket
    <3> QED
      BY <1>1, <3>1, <3>2 DEF Settled
  <2> QED
    BY <1>1, <1>5, <2>1, CallTypes DEF SettledInv
<1> QED
  BY <1>1, <1>5, <1>6, <1>7, <1>8 DEF IInv

LEMMA RecvErrorKeeps ==
  ASSUME IInv, NEW c \in Clients, RecvError(c)
  PROVE  IInv'
<1>1. sock[c] # None
  BY DEF RecvError, Waiting
<1>2. /\ down' = [down EXCEPT ![sock[c]] = <<>>] /\ st' = [st EXCEPT ![c] = "failed"]
      /\ conn' = [conn EXCEPT ![sock[c]] = Left(sock[c])] /\ sock' = [sock EXCEPT ![c] = None]
      /\ content' = content /\ hist' = hist /\ has' = has /\ pending' = pending /\ await' = await
      /\ call' = call /\ up' = up /\ budget' = budget
  BY DEF RecvError
<1> QED
  BY <1>1, <1>2, CallTypes, WireTypes, LossKeeps

LEMMA ClosedKeeps ==
  ASSUME IInv, NEW c \in Clients, Closed(c)
  PROVE  IInv'
<1>1. AfterLoss(c) \in {"offline", "failed"}
  BY DEF AfterLoss
<1>2. /\ sock[c] # None /\ st' = [st EXCEPT ![c] = AfterLoss(c)]
      /\ conn' = [conn EXCEPT ![sock[c]] = NoConn] /\ sock' = [sock EXCEPT ![c] = None]
      /\ content' = content /\ hist' = hist /\ has' = has /\ pending' = pending /\ await' = await
      /\ call' = call /\ up' = up /\ down' = down /\ budget' = budget
  BY DEF Closed
<1> QED
  BY <1>1, <1>2, CallTypes, WireTypes, LossKeeps

LEMMA DropKeeps ==
  ASSUME IInv, NEW c \in Clients, Drop(c)
  PROVE  IInv'
<1>1. AfterLoss(c) \in {"offline", "failed"}
  BY DEF AfterLoss
<1>2. /\ sock[c] # None /\ st' = [st EXCEPT ![c] = AfterLoss(c)]
      /\ conn' = [conn EXCEPT ![sock[c]] = Left(sock[c])] /\ sock' = [sock EXCEPT ![c] = None]
      /\ content' = content /\ hist' = hist /\ has' = has /\ pending' = pending /\ await' = await
      /\ call' = call /\ down' = [down EXCEPT ![sock[c]] = <<>>]
      /\ budget.drops > 0 /\ budget' = [budget EXCEPT !.drops = @ - 1]
      /\ \E n \in 0..Len(up[sock[c]]) : up' = [up EXCEPT ![sock[c]] = SubSeq(@, 1, n)]
  BY DEF Drop
<1>3. budget' \in Budgets
  <2>1. budget.drops - 1 \in Nat
    BY <1>2, WireTypes DEF Budgets
  <2> QED
    BY <1>2, <2>1, WireTypes DEF Budgets
<1> QED
  BY <1>1, <1>2, <1>3, CallTypes, LossKeeps

LEMMA HeartbeatKeeps ==
  ASSUME IInv, NEW c \in Clients, Heartbeat(c)
  PROVE  IInv'
<1>1. /\ call[c] = "next" /\ await' = [await EXCEPT ![c] = {}]
      /\ content' = content /\ hist' = hist /\ has' = has /\ pending' = pending /\ up' = up /\ budget' = budget
  BY DEF Heartbeat
<1>2. await' \in [Clients -> SUBSET Ops] /\ \A d \in Clients : d # c => await'[d] = await[d]
  BY <1>1, CallTypes
<1>3. ReplicaInv' /\ has' \in [Clients -> SUBSET Ops] /\ Created' = Created
      /\ \A d \in Clients : Own(d)' = Own(d)
  BY <1>1, Unread
<1>4. Settled(call[c], st[c], await[c], Own(c), content) /\ Linked(c)
  BY CallTypes DEF IInv, LinkInv
<1>5. CASE st[c] \in Reconnecting
  <2>1. call' = [call EXCEPT ![c] = "connect"] /\ AbandonReconnect(c)
    BY <1>5 DEF Heartbeat, Reconnecting
  <2>2. sock[c] # None
    BY <1>4, <1>5 DEF Linked, Reconnecting, Connected, States
  <2>3. /\ call' \in [Clients -> {"connect", "next", "submit", "resubmit"}] /\ call'[c] = "connect"
        /\ \A d \in Clients : d # c => call'[d] = call[d]
    BY <2>1, CallTypes
  <2> QED
    BY <1>1, <1>2, <2>1, <2>2, <2>3, WireTypes, LossKeeps DEF AbandonReconnect
<1>6. CASE st[c] \notin Reconnecting
  <2>1. /\ sock' = sock /\ conn' = conn /\ down' = down
        /\ \/ st[c] \in {"resyncing", "recatchup"} /\ st' = [st EXCEPT ![c] = "ready"] /\ call' = call
           \/ st[c] = "offline" /\ st' = st /\ call' = [call EXCEPT ![c] = "connect"]
    BY <1>6 DEF Heartbeat
  <2>2. /\ "ready" \in States /\ {"ready", "resyncing", "recatchup"} \subseteq Connected
        /\ "ready" \in WithSocket /\ "offline" \notin WithSocket
    BY DEF States, Connected, WithSocket
  <2>3. /\ st' \in [Clients -> States] /\ call' \in [Clients -> {"connect", "next", "submit", "resubmit"}]
        /\ \A d \in Clients : d # c => st'[d] = st[d] /\ call'[d] = call[d]
        /\ st'[c] \in Connected <=> st[c] \in Connected
        /\ \/ st'[c] = "ready" /\ call'[c] = "next"
           \/ st'[c] = "offline" /\ call'[c] = "connect"
    <3>1. CASE st[c] \in {"resyncing", "recatchup"} /\ st' = [st EXCEPT ![c] = "ready"] /\ call' = call
      BY <1>1, <2>2, <3>1, CallTypes
    <3>2. CASE st[c] = "offline" /\ st' = st /\ call' = [call EXCEPT ![c] = "connect"]
      BY <3>2, CallTypes
    <3> QED
      BY <2>1, <3>1, <3>2
  <2>4. Settled(call'[c], st'[c], await'[c], Own(c), content)
    BY <1>1, <1>4, <2>2, <2>3 DEF Settled
  <2>5. StateTypes'
    BY <1>1, <1>2, <1>3, <2>1, <2>3 DEF IInv, StateTypes
  <2>6. LinkInv' /\ LeaseInv'
    <3>1. ASSUME NEW d \in Clients PROVE Linked(d)'
      <4>1. Linked(d)
        BY DEF IInv, LinkInv
      <4> QED
        BY <2>1, <2>3, <4>1 DEF Linked
    <3> QED
      BY <2>1, <3>1 DEF IInv, LinkInv, LeaseInv
  <2>7. WireInv'
    BY <1>1, <1>3, <2>1, WireKept DEF WireInv
  <2>8. SettledInv'
    BY <1>1, <1>2, <1>3, <2>3, <2>4, CallTypes DEF SettledInv
  <2> QED
    BY <1>3, <2>5, <2>6, <2>7, <2>8 DEF IInv
<1> QED
  BY <1>5, <1>6

LEMMA ConnectKeeps ==
  ASSUME IInv, NEW c \in Clients, Connect(c)
  PROVE  IInv'
<1> DEFINE x == [NoConn EXCEPT !.peer = c, !.open = TRUE, !.task = "idle"]
           m == Msg("attach", {})
<1>1. PICK k \in Conns :
         /\ conn[k] = NoConn /\ sock' = [sock EXCEPT ![c] = k] /\ conn' = [conn EXCEPT ![k] = x]
         /\ up' = [up EXCEPT ![k] = <<m>>]
  BY DEF Connect
<1>2. /\ st[c] = "offline" /\ st' = [st EXCEPT ![c] = "attaching"]
      /\ content' = content /\ hist' = hist /\ has' = has /\ pending' = pending /\ await' = await
      /\ call' = call /\ down' = down /\ budget' = budget
  BY DEF Connect
<1>3. /\ x \in ConnRecs /\ x.peer = c /\ x.open = TRUE /\ x.writer = FALSE /\ x.task = "idle"
      /\ x.lane = <<>>
  <2>1. NoConn \in ConnRecs
    BY NoConnFields
  <2> QED
    BY <2>1, NoConnFields DEF ConnRecs, Tasks
<1>4. m \in Messages /\ m.type = "attach" /\ m.ops = {}
  BY MsgFields DEF Kinds
<1> HIDE DEF x, m
<1>5. Durable(x, content)
  BY <1>3 DEF Durable
<1>6. <<m>> \in Seq(Messages) /\ Offered(<<m>>, Created, hist, content)
  <2>1. <<m>> \in Seq(Messages) /\ Len(<<m>>) = 1 /\ <<m>>[1] = m /\ 1..1 = {1}
    BY <1>4
  <2>2. Fit(m, Created, hist, content)
    BY <1>4 DEF Fit
  <2> QED
    BY <2>1, <2>2 DEF Offered
<1>7. /\ conn'[k] = x /\ (\A j \in Conns : j # k => conn'[j] = conn[j] /\ up'[j] = up[j])
      /\ conn' \in [Conns -> ConnRecs] /\ up' \in [Conns -> Seq(Messages)] /\ up'[k] = <<m>>
  BY <1>1, <1>3, <1>6, WireTypes
<1>8. "attaching" \in States /\ "attaching" \in Connected /\ "attaching" \notin WithSocket
      /\ "offline" \notin Connected
  BY DEF States, Connected, WithSocket
<1>9. /\ st' \in [Clients -> States] /\ sock' \in [Clients -> Conns \cup {None}]
      /\ st'[c] = "attaching" /\ sock'[c] = k
      /\ \A d \in Clients : d # c => st'[d] = st[d] /\ sock'[d] = sock[d]
  BY <1>1, <1>2, <1>8, CallTypes
<1>10. ReplicaInv' /\ has' \in [Clients -> SUBSET Ops] /\ Created' = Created
      /\ \A d \in Clients : Own(d)' = Own(d)
  BY <1>2, Unread
<1>11. StateTypes'
  BY <1>2, <1>7, <1>9 DEF IInv, StateTypes
<1>12. k # None /\ conn[k].open = FALSE /\ conn[k].writer = FALSE
  BY <1>1, NoConnFields, RoomAssumption
<1>13. LinkInv'
  <2>1. ASSUME NEW d \in Clients PROVE Linked(d)'
    <3>1. Linked(d) /\ (sock[d] # None => sock[d] \in Conns)
      BY CallTypes DEF IInv, LinkInv
    <3>2. CASE d = c
      BY <1>3, <1>7, <1>8, <1>9, <1>12, <3>2 DEF Linked
    <3>3. CASE d # c
      <4>1. sock[d] # k
        BY <1>12, <3>1 DEF Linked
      <4> QED
        BY <1>7, <1>9, <3>1, <3>3, <4>1 DEF Linked
    <3> QED
      BY <3>2, <3>3
  <2>2. ASSUME NEW j \in Conns, conn'[j].open PROVE conn'[j].peer \in Clients /\ sock'[conn'[j].peer] = j
    <3>1. CASE j = k
      BY <1>3, <1>7, <1>9, <3>1
    <3>2. CASE j # k
      <4>1. conn[j].peer \in Clients /\ sock[conn[j].peer] = j /\ conn'[j] = conn[j]
        BY <1>7, <2>2, <3>2 DEF IInv, LinkInv
      <4>2. conn[j].peer # c
        <5>1. sock[c] = None
          BY <1>2, <1>8 DEF IInv, LinkInv, Linked
        <5> QED
          BY <4>1, <5>1, RoomAssumption
      <4> QED
        BY <1>9, <4>1, <4>2
    <3> QED
      BY <3>1, <3>2
  <2> QED
    BY <2>1, <2>2 DEF LinkInv
<1>14. LeaseInv'
  <2>1. \A j \in Conns : conn'[j].writer => conn'[j] = conn[j]
    BY <1>3, <1>7
  <2> QED
    BY <2>1 DEF IInv, LeaseInv
<1>15. WireInv'
  BY <1>2, <1>5, <1>6, <1>7, <1>10, WireKept DEF WireInv
<1>16. SettledInv'
  <2>1. Settled(call[c], st[c], await[c], Own(c), content)
    BY CallTypes
  <2>2. Settled(call[c], "attaching", await[c], Own(c), content)
    BY <1>8, <2>1 DEF Settled
  <2> QED
    BY <1>2, <1>9, <1>10, <2>2, CallTypes DEF SettledInv
<1> QED
  BY <1>10, <1>11, <1>13, <1>14, <1>15, <1>16 DEF IInv

(* The effect of the user's writing o: replicas stay sound, the operations there are keep
   their histories, and what o depends on is the author's own or durable. *)
Written(c, o) ==
  /\ ReplicaInv' /\ has' \in [Clients -> SUBSET Ops] /\ hist' \in [Ops -> SUBSET Ops]
  /\ o \in Ops /\ o \in Created' /\ Created \subseteq Created'
  /\ \A p \in Created : hist'[p] = hist[p]
  /\ hist'[o] \subseteq Own(c) \cup content
  /\ Own(c)' = Own(c) \cup {o} /\ \A d \in Clients : d # c => Own(d)' = Own(d)

(* The user writes one more operation, on top of what the replica shows. *)
LEMMA WrittenKeeps ==
  ASSUME IInv, NEW c \in Clients, NEW o, o = <<c, Cardinality(Own(c)) + 1>>,
         Cardinality(Own(c)) + 1 <= budget.edits[c], content' = content,
         hist' = [hist EXCEPT ![o] = Visible(has[c])], has' = [has EXCEPT ![c] = @ \cup {o}]
  PROVE  Written(c, o)
<1> DEFINE n == Cardinality(Own(c))
<1>1. /\ IsFiniteSet(Own(c)) /\ Own(c) = {<<c, i>> : i \in 1..n} /\ has[c] \in SUBSET Ops
      /\ \A p \in Own(c) : hist[p] \subseteq has[c]
  BY Shows DEF IInv, ReplicaInv, Replica
<1>2. n \in Nat /\ n + 1 \in 1..MaxEdits
  <2>1. n \in Nat /\ budget.edits[c] \in 0..MaxEdits /\ MaxEdits \in Nat
    BY <1>1, FS_CardinalityType, WireTypes, RoomAssumption DEF Budgets
  <2> QED
    BY <2>1
<1> HIDE DEF n
<1>3. o = <<c, n + 1>> /\ o[1] = c
  BY DEF n
<1>4. o \in Ops
  BY <1>2, <1>3 DEF Ops
<1>5. o \notin Own(c)
  BY <1>1, <1>2, <1>3
<1>6. o \notin has[c]
  BY <1>3, <1>5 DEF Own
<1>7. /\ has \in [Clients -> SUBSET Ops] /\ hist \in [Ops -> SUBSET Ops]
      /\ Visible(has[c]) \in SUBSET Ops /\ Visible(has[c]) \subseteq has[c]
  BY CallTypes, WireTypes, Shows
<1>8. /\ has'[c] = has[c] \cup {o} /\ (\A d \in Clients : d # c => has'[d] = has[d])
      /\ has' \in [Clients -> SUBSET Ops] /\ hist' \in [Ops -> SUBSET Ops]
      /\ hist'[o] = Visible(has[c]) /\ \A p \in Ops : p # o => hist'[p] = hist[p]
  BY <1>4, <1>7
<1>9. Own(c)' = Own(c) \cup {o} /\ \A d \in Clients : d # c => Own(d)' = Own(d)
  BY <1>3, <1>8 DEF Own
<1>10. \A p \in Ops : p[1] \in Clients
  BY DEF Ops
<1>11. Created \subseteq Created' /\ o \in Created' /\ o \notin Created /\ Created \subseteq Ops
  BY <1>3, <1>4, <1>6, <1>8, <1>10 DEF Created
<1>12. Replica(c)'
  <2>1. IsFiniteSet(Own(c) \cup {o}) /\ Cardinality(Own(c) \cup {o}) = n + 1
    BY <1>1, <1>5, FS_AddElement DEF n
  <2>2. Own(c) \cup {o} = {<<c, i>> : i \in 1..(n + 1)}
    <3>1. 1..(n + 1) = (1..n) \cup {n + 1}
      BY <1>2
    <3> QED
      BY <1>1, <1>3, <3>1
  <2>3. ASSUME NEW p \in Own(c) \cup {o} PROVE hist'[p] \subseteq has'[c]
    <3>1. CASE p = o
      BY <1>7, <1>8, <3>1
    <3>2. CASE p # o
      BY <1>1, <1>8, <2>3, <3>2, Shows
    <3> QED
      BY <3>1, <3>2
  <2>4. has'[c] \ (Own(c) \cup {o}) \subseteq content'
    BY <1>8, Shows
  <2> QED
    BY <1>9, <2>1, <2>2, <2>3, <2>4 DEF Replica
<1>13. ASSUME NEW d \in Clients, d # c PROVE Replica(d)'
  <2>1. Replica(d) /\ Own(d) \subseteq Ops /\ o \notin Own(d)
    BY <1>3, <1>13, Shows DEF IInv, ReplicaInv, Own
  <2>2. \A p \in Own(d) : hist'[p] = hist[p]
    BY <1>8, <2>1
  <2> QED
    BY <1>8, <1>9, <1>13, <2>1, <2>2 DEF Replica
<1>14. ReplicaInv'
  BY <1>11, <1>12, <1>13, WireTypes DEF ReplicaInv
<1>15. hist'[o] \subseteq Own(c) \cup content /\ \A p \in Created : hist'[p] = hist[p]
  BY <1>7, <1>8, <1>11, Shows
<1> QED
  BY <1>4, <1>8, <1>9, <1>11, <1>14, <1>15 DEF Written

LEMMA EditKeeps ==
  ASSUME IInv, NEW c \in Clients, Edit(c)
  PROVE  IInv'
<1>1. PICK o : o = <<c, Cardinality(Own(c)) + 1>>
  OBVIOUS
<1>2. /\ Cardinality(Own(c)) + 1 <= budget.edits[c] /\ call[c] = "next" /\ st[c] # "failed"
      /\ hist' = [hist EXCEPT ![o] = Visible(has[c])] /\ has' = [has EXCEPT ![c] = @ \cup {o}]
      /\ pending' = [pending EXCEPT ![c] = @ \cup {{o}}] /\ await' = [await EXCEPT ![c] = {o}]
      /\ call' = [call EXCEPT ![c] = IF st[c] \in WithSocket THEN "submit" ELSE "resubmit"]
      /\ content' = content /\ budget' = budget
  BY <1>1 DEF Edit
<1>3. /\ ReplicaInv' /\ has' \in [Clients -> SUBSET Ops] /\ hist' \in [Ops -> SUBSET Ops]
      /\ o \in Ops /\ o \in Created' /\ Created \subseteq Created'
      /\ \A p \in Created : hist'[p] = hist[p]
      /\ hist'[o] \subseteq Own(c) \cup content
      /\ Own(c)' = Own(c) \cup {o} /\ \A d \in Clients : d # c => Own(d)' = Own(d)
  <2>1. Written(c, o)
    BY <1>1, <1>2, WrittenKeeps
  <2> QED
    BY <2>1 DEF Written
<1>4. /\ pending' \in [Clients -> SUBSET (SUBSET Ops)] /\ await' \in [Clients -> SUBSET Ops]
      /\ call' \in [Clients -> {"connect", "next", "submit", "resubmit"}]
      /\ await'[c] = {o} /\ call'[c] = IF st[c] \in WithSocket THEN "submit" ELSE "resubmit"
      /\ \A d \in Clients : d # c => await'[d] = await[d] /\ call'[d] = call[d]
  BY <1>2, <1>3, CallTypes
<1>5. Own(c) \subseteq content /\ Linked(c)
  BY <1>2, CallTypes DEF Settled, IInv, LinkInv
<1>6. Supported({o}, hist', content)
  BY <1>3, <1>5 DEF Supported
<1>7. \A j \in Conns : Offered(up[j], Created', hist', content) /\ Told(down[j], content)
  <2>1. \A j \in Conns : Offered(up[j], Created, hist, content) /\ Told(down[j], content)
    BY WireKept
  <2> QED
    BY <1>3, <2>1, Grown
<1>8. ASSUME conn' \in [Conns -> ConnRecs], up' \in [Conns -> Seq(Messages)],
             down' \in [Conns -> Seq(Messages)], sock' \in [Clients -> Conns \cup {None}],
             st' \in [Clients -> States], LinkInv', LeaseInv',
             \A j \in Conns : Told(down'[j], content) /\ Offered(up'[j], Created', hist', content)
                              /\ Durable(conn'[j], content),
             \A d \in Clients : d # c => st'[d] = st[d],
             Settled(call'[c], st'[c], await'[c], Own(c)', content)
      PROVE  IInv'
  <2>1. StateTypes'
    BY <1>2, <1>3, <1>4, <1>8 DEF IInv, StateTypes
  <2>2. WireInv'
    BY <1>2, <1>8 DEF WireInv
  <2>3. SettledInv'
    <3>1. ASSUME NEW d \in Clients PROVE Settled(call'[d], st'[d], await'[d], Own(d)', content')
      <4>1. CASE d = c
        BY <1>2, <1>8, <4>1
      <4>2. CASE d # c
        BY <1>2, <1>3, <1>4, <1>8, <4>2, CallTypes
      <4> QED
        BY <4>1, <4>2
    <3> QED
      BY <3>1 DEF SettledInv
  <2> QED
    BY <1>3, <1>8, <2>1, <2>2, <2>3 DEF IInv
<1>9. CASE st[c] \in WithSocket
  <2>1. /\ st' = [st EXCEPT ![c] = "submitting"] /\ up' = Sent(sock[c], Msg("update", {o}))
        /\ sock' = sock /\ conn' = conn /\ down' = down
    BY <1>1, <1>9 DEF Edit, WithSocket, Reconnecting
  <2>2. "submitting" \in States /\ "submitting" \in Connected /\ "submitting" \notin WithSocket
        /\ WithSocket \subseteq Connected
    BY DEF States, Connected, WithSocket
  <2>3. st' \in [Clients -> States] /\ st'[c] = "submitting" /\ \A d \in Clients : d # c => st'[d] = st[d]
    BY <2>1, <2>2, CallTypes
  <2>4. sock[c] # None /\ sock[c] \in Conns
    BY <1>5, <1>9, <2>2, CallTypes DEF Linked
  <2>5. Settled(call'[c], st'[c], await'[c], Own(c)', content)
    BY <1>3, <1>4, <1>5, <1>9, <2>2, <2>3 DEF Settled
  <2>6. LinkInv' /\ LeaseInv'
    <3>1. ASSUME NEW d \in Clients PROVE Linked(d)'
      <4>1. Linked(d)
        BY DEF IInv, LinkInv
      <4> QED
        BY <2>1, <2>2, <2>3, <2>4, <4>1 DEF Linked
    <3> QED
      BY <2>1, <3>1 DEF IInv, LinkInv, LeaseInv
  <2>7. up' \in [Conns -> Seq(Messages)] /\ \A j \in Conns : Offered(up'[j], Created', hist', content)
    <3> DEFINE m == Msg("update", {o})
    <3>1. m \in Messages /\ m.type = "update" /\ m.ops = {o}
      BY <1>3, MsgFields DEF Kinds
    <3>2. Fit(m, Created', hist', content)
      BY <1>3, <1>6, <3>1 DEF Fit
    <3>3. up' = Sent(sock[c], m)
      BY <2>1
    <3> HIDE DEF m
    <3>4. CASE conn[sock[c]].task = "ended"
      BY <1>7, <3>3, <3>4, WireTypes DEF Sent
    <3>5. CASE conn[sock[c]].task # "ended"
      <4>1. up' = [up EXCEPT ![sock[c]] = Append(up[sock[c]], m)]
        BY <3>3, <3>5 DEF Sent
      <4>2. up[sock[c]] \in Seq(Messages) /\ Offered(up[sock[c]], Created', hist', content)
        BY <1>7, <2>4, WireTypes
      <4>3. /\ Append(up[sock[c]], m) \in Seq(Messages)
            /\ Offered(Append(up[sock[c]], m), Created', hist', content)
        BY <3>1, <3>2, <4>2, Added
      <4> QED
        BY <1>7, <2>4, <4>1, <4>3, WireTypes
    <3> QED
      BY <3>4, <3>5
  <2> QED
    BY <1>7, <1>8, <2>1, <2>3, <2>5, <2>6, <2>7, WireKept, WireTypes, CallTypes
<1>10. CASE st[c] \in Reconnecting
  <2>1. AbandonReconnect(c) /\ up' = up /\ st[c] \notin WithSocket
    BY <1>10 DEF Edit, WithSocket, Reconnecting
  <2>2. sock[c] # None
    BY <1>5, <1>10 DEF Linked, Reconnecting, Connected, States
  <2>3. /\ LinkInv' /\ LeaseInv' /\ conn' \in [Conns -> ConnRecs]
        /\ sock' \in [Clients -> Conns \cup {None}] /\ st' \in [Clients -> States]
        /\ st'[c] = "offline" /\ \A d \in Clients : d # c => st'[d] = st[d]
        /\ \A j \in Conns : Durable(conn'[j], content)
    BY <2>1, <2>2, LeaveFrame DEF AbandonReconnect
  <2>4. down' \in [Conns -> Seq(Messages)] /\ \A j \in Conns : Told(down'[j], content)
    <3>1. down' = [down EXCEPT ![sock[c]] = <<>>]
      BY <2>1 DEF AbandonReconnect
    <3> QED
      BY <1>7, <3>1, NothingSaid, WireTypes
  <2>5. Settled(call'[c], st'[c], await'[c], Own(c)', content)
    BY <1>3, <1>4, <2>1, <2>3 DEF Settled, WithSocket
  <2> QED
    BY <1>7, <1>8, <2>1, <2>3, <2>4, <2>5, WireTypes
<1>11. CASE st[c] = "offline"
  <2>1. /\ st' = st /\ up' = up /\ sock' = sock /\ conn' = conn /\ down' = down
        /\ st[c] \notin WithSocket
    BY <1>11 DEF Edit, WithSocket, Reconnecting
  <2>2. Settled(call'[c], st'[c], await'[c], Own(c)', content)
    BY <1>3, <1>4, <1>11, <2>1 DEF Settled, WithSocket
  <2>3. LinkInv' /\ LeaseInv'
    BY <2>1 DEF IInv, LinkInv, Linked, LeaseInv
  <2> QED
    BY <1>7, <1>8, <2>1, <2>2, <2>3, WireKept, WireTypes, CallTypes
<1> QED
  BY <1>9, <1>10, <1>11 DEF Edit

-----------------------------------------------------------------------------
(* Results. *)

LEMMA InitIInv == Init => IInv
<1> SUFFICES ASSUME Init PROVE IInv
  OBVIOUS
<1>1. /\ content = {} /\ hist = [o \in Ops |-> {}] /\ has = [c \in Clients |-> {}]
      /\ pending = [c \in Clients |-> {}] /\ await = [c \in Clients |-> {}]
      /\ call = [c \in Clients |-> "connect"] /\ st = [c \in Clients |-> "offline"]
      /\ sock = [c \in Clients |-> None]
      /\ conn = [k \in Conns |-> NoConn] /\ up = [k \in Conns |-> <<>>] /\ down = [k \in Conns |-> <<>>]
      /\ budget \in Scenarios
  BY DEF Init
<1>2. StateTypes
  <2>1. conn \in [Conns -> ConnRecs] /\ up \in [Conns -> Seq(Messages)] /\ down \in [Conns -> Seq(Messages)]
    BY <1>1, NoConnFields, NothingSaid
  <2>2. budget \in Budgets
    BY <1>1, RoomAssumption DEF Budgets
  <2>3. /\ content \in SUBSET Ops /\ hist \in [Ops -> SUBSET Ops] /\ has \in [Clients -> SUBSET Ops]
        /\ pending \in [Clients -> SUBSET (SUBSET Ops)] /\ await \in [Clients -> SUBSET Ops]
        /\ call \in [Clients -> {"connect", "next", "submit", "resubmit"}]
        /\ sock \in [Clients -> Conns \cup {None}]
    BY <1>1
  <2>4. st \in [Clients -> States]
    BY <1>1 DEF States
  <2> QED
    BY <2>1, <2>2, <2>3, <2>4 DEF StateTypes, Budgets
<1>3. \A c \in Clients : Own(c) = {}
  BY <1>1 DEF Own
<1>4. LinkInv /\ LeaseInv
  <2>1. \A k \in Conns : conn[k].open = FALSE /\ conn[k].writer = FALSE
    BY <1>1, NoConnFields
  <2>2. \A c \in Clients : sock[c] = None /\ st[c] = "offline"
    BY <1>1
  <2> QED
    BY <2>1, <2>2 DEF LinkInv, Linked, LeaseInv, Connected
<1>5. WireInv
  <2>1. Durable(NoConn, content)
    BY NoConnFields DEF Durable
  <2> QED
    BY <1>1, <2>1, NothingSaid DEF WireInv
<1>6. ReplicaInv
  <2>1. ASSUME NEW c \in Clients PROVE Replica(c)
    <3>1. IsFiniteSet({}) /\ Cardinality({}) = 0
      BY FS_EmptySet
    <3>2. {<<c, i>> : i \in 1..0} = {}
      OBVIOUS
    <3>3. has[c] = {}
      BY <1>1
    <3> QED
      BY <1>3, <3>1, <3>2, <3>3 DEF Replica
  <2> QED
    BY <1>1, <2>1 DEF ReplicaInv
<1>7. SettledInv
  <2>1. ASSUME NEW c \in Clients PROVE Settled(call[c], st[c], await[c], Own(c), content)
    <3>1. call[c] = "connect" /\ st[c] = "offline"
      BY <1>1
    <3> QED
      BY <1>3, <3>1 DEF Settled, WithSocket
  <2> QED
    BY <2>1 DEF SettledInv
<1> QED
  BY <1>2, <1>4, <1>5, <1>6, <1>7 DEF IInv

LEMMA NextKeeps == IInv /\ [Next]_vars => IInv'
<1> SUFFICES ASSUME IInv, [Next]_vars PROVE IInv'
  OBVIOUS
<1>1. ASSUME NEW c \in Clients, Recv(c) PROVE IInv'
  BY <1>1, RecvAttachedKeeps, RecvIgnoredKeeps, RecvImportKeeps, RecvSyncedKeeps, RecvAckKeeps,
     RecvResyncKeeps, RecvErrorKeeps DEF Recv
<1>2. ASSUME NEW c \in Clients, ClientStep(c) PROVE IInv'
  BY <1>1, <1>2, ConnectKeeps, ClosedKeeps, EditKeeps, HeartbeatKeeps, DropKeeps DEF ClientStep
<1>3. CASE UNCHANGED vars
  <2>1. /\ has' = has /\ hist' = hist /\ pending' = pending /\ await' = await /\ call' = call /\ st' = st
        /\ sock' = sock /\ content' = content /\ conn' = conn /\ up' = up /\ down' = down /\ budget' = budget
    BY <1>3 DEF vars, client
  <2> QED
    BY <2>1, WireKept, WireTypes, ServerFrame
<1>4. CASE Next
  BY <1>2, <1>4, ServerStepKeeps, RestartKeeps DEF Next
<1> QED
  BY <1>3, <1>4

(* For any clients, connections, edits, lane capacity and failures: messages, lanes, replicas
   and calls agree on what is durable. *)
THEOREM RoomConsistent == SafetySpec => []IInv
<1> QED
  BY InitIInv, NextKeeps, PTL DEF SafetySpec

(* What a client is excused to lack are operations. *)
MissedType == missed \in [Clients -> SUBSET Ops]

LEMMA MissedStep ==
  ASSUME IInv, [Next]_vars
  PROVE  \/ missed' = missed
         \/ \E c \in Clients : \E S : missed' = [missed EXCEPT ![c] = @ \ S]
         \/ \E D, S : S \subseteq Ops /\ missed' = Excused(D, S)
<1>1. content \subseteq Ops /\ \A k \in Conns : conn[k].ops \subseteq Ops
  BY WireTypes DEF ConnRecs
<1>2. ASSUME NEW k \in Conns, ServerStep(k)
      PROVE  missed' = missed \/ \E D, S : S \subseteq Ops /\ missed' = Excused(D, S)
  BY <1>1, <1>2 DEF ServerStep, ServeAttach, ServeSync, ServeUpdate, Ack, Publish, Forward,
     SocketClosed, SendFails, LeaseExpires, Limit, client
<1>3. ASSUME NEW c \in Clients, Recv(c)
      PROVE  \/ missed' = missed
             \/ \E S : missed' = [missed EXCEPT ![c] = @ \ S]
             \/ \E D, S : S \subseteq Ops /\ missed' = Excused(D, S)
  BY <1>1, <1>3 DEF Recv, RecvAttached, RecvDiscarded, RecvImport, RecvSynced, RecvAck, RecvResync,
     RecvLimited, RecvError, client
<1>4. ASSUME NEW c \in Clients, ClientStep(c), ~Recv(c)
      PROVE  missed' = missed
  BY <1>4 DEF ClientStep, Connect, Closed, Edit, Heartbeat, Drop
<1>5. Restart \/ UNCHANGED vars => missed' = missed
  BY DEF Restart, vars, client
<1> QED
  BY <1>2, <1>3, <1>4, <1>5 DEF Next

LEMMA MissedTyped == SafetySpec => []MissedType
<1>1. Init => MissedType
  BY DEF Init, MissedType
<1>2. ASSUME IInv, MissedType, [Next]_vars PROVE MissedType'
  <2>1. ASSUME NEW D, NEW S, S \subseteq Ops PROVE Excused(D, S) \in [Clients -> SUBSET Ops]
    BY <1>2, <2>1 DEF Excused, MissedType
  <2> QED
    BY <1>2, <2>1, MissedStep DEF MissedType
<1> QED
  BY <1>1, <1>2, RoomConsistent, PTL DEF SafetySpec

(* A live socket joins one client to the connection that serves it, one connection writes as a
   replica (writer lease, http.rs handle_document_update), and a task acknowledges and publishes
   only what is committed. *)
THEOREM RoomWellConnected == SafetySpec => []WellConnected
<1>1. ASSUME IInv, MissedType PROVE WellConnected
  <2>1. \A k \in Conns : conn[k].task \in {"acking", "publishing"} => conn[k].ops \subseteq content
    BY <1>1 DEF IInv, WireInv, Durable
  <2> QED
    BY <1>1, <2>1 DEF IInv, LinkInv, Linked, LeaseInv, WellConnected, TypeOK, MissedType
<1> QED
  BY <1>1, RoomConsistent, MissedTyped, PTL

(* When the desktop is back in next with nothing pending, all that its replica wrote is durable,
   over lost connections, restarts, lags, refused messages and catch-ups. *)
THEOREM FlushIsDurable == SafetySpec => []FlushMeansDurable
<1>1. ASSUME IInv PROVE FlushMeansDurable
  BY <1>1 DEF IInv, SettledInv, Settled, FlushMeansDurable
<1> QED
  BY <1>1, RoomConsistent, PTL

(* A replica never imports an operation of a peer that is not committed: handle_document_update
   commits before it acknowledges and publishes. *)
THEOREM PeersSeeDurable == SafetySpec => []PeersSeeOnlyDurable
<1>1. ASSUME IInv PROVE PeersSeeOnlyDurable
  BY <1>1 DEF IInv, ReplicaInv, Replica, PeersSeeOnlyDurable
<1> QED
  BY <1>1, RoomConsistent, PTL

(* No update of an SDK client is refused for missing dependencies, although the limiter drops
   updates, a writer lease refuses them and connections lose them. *)
THEOREM NothingMissing == SafetySpec => []NoMissingDependencies
<1>1. ASSUME IInv PROVE NoMissingDependencies
  <2>1. ASSUME NEW k \in Conns, NEW i \in DOMAIN down[k] PROVE down[k][i].type # "missing"
    <3>1. down[k] \in Seq(Messages) /\ Told(down[k], content)
      BY <1>1, WireTypes, WireKept
    <3>2. i \in 1..Len(down[k])
      BY <2>1, <3>1
    <3> QED
      BY <3>1, <3>2 DEF Told
  <2> QED
    BY <2>1 DEF NoMissingDependencies
<1> QED
  BY <1>1, RoomConsistent, PTL
=============================================================================
