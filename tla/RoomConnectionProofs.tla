------------------------ MODULE RoomConnectionProofs ------------------------
(***************************************************************************)
(* The safety properties of RoomConnection, proved for any members, AI     *)
(* reads, administrators, profiles and bounds.  IInv says who holds which  *)
(* slot, which session a slot has, what the grant of a slot pins, and who  *)
(* is still going to find a session that is open.                          *)
(***************************************************************************)
EXTENDS RoomConnection, TLAPS

HoldPcs  == {"resolve", "opening", "register", "execute", "running"}
EarlyPcs == {"idle", "routed", "queued", "resolve", "opening", "register"}

(* A member between lock and unlock is the holder of its slot; whoever is queued or waits
   to close has a slot, and who is to open a connection has a profile. *)
LockInv ==
    /\ \A t \in Members : task[t].pc \in HoldPcs =>
          task[t].slot \in Members /\ slots[task[t].slot].holder = t
    /\ \A t \in Tasks : task[t].pc \in {"queued", "close_wait"} => task[t].slot \in Members
    /\ \A t \in Members : task[t].pc \in {"routed", "queued", "resolve"} => task[t].profile \in Profiles

(* A mutex that is held has its holder between lock and unlock: no guard is lost. *)
HolderInv ==
    \A s \in Members : slots[s].holder # None =>
        task[slots[s].holder].pc \in HoldPcs /\ task[slots[s].holder].slot = s

(* A session is in one slot at most, and only after its member has registered it; a
   statement runs on its slot's session, which nobody else may close. *)
ConnInv ==
    /\ \A s \in Members : slots[s].conn # None => task[slots[s].conn].pc \notin EarlyPcs
    /\ \A s, u \in Members : slots[s].conn # None /\ slots[s].conn = slots[u].conn => s = u
    /\ \A t \in Members : task[t].pc \in {"resolve", "opening", "register"} => slots[task[t].slot].conn = None
    /\ \A t \in Members : task[t].pc \in {"opening", "register"} => task[t].sess = t
    /\ \A t \in Members : task[t].pc \in {"execute", "running"} =>
          task[t].sess \in Members /\ slots[task[t].slot].conn = task[t].sess
    /\ \A t \in Members : task[t].pc = "running" => sess[task[t].sess].state \in {"up", "bare", "cut"}

(* A connection opened under grant g has the profile g pins, at a revision not older than
   g's and not newer than the profile's. *)
Pinned(c, g, gs, rv) ==
    /\ g \in 1..Len(gs) /\ c.profile = gs[g].profile
    /\ gs[g].rev <= c.rev /\ c.rev <= rv[c.profile]

ReaderPcs == {"routed", "queued", "resolve", "opening", "register", "execute", "running", "deliver", "served"}

PinInv ==
    /\ \A q \in Queries : task[q].pub = 0
    /\ \A r \in Readers : task[r].pc \in ReaderPcs => task[r].pub \in 1..Len(grants)
    /\ \A r \in Readers : task[r].pc \in {"routed", "queued", "resolve"} =>
          /\ task[r].profile = grants[task[r].pub].profile
          /\ grants[task[r].pub].rev <= rev[task[r].profile]
    /\ \A r \in Readers : task[r].pc \in {"opening", "register"} /\ sess[r].state \in Open =>
          Pinned(sess[r], task[r].pub, grants, rev)
    /\ \A s \in Members : slots[s].conn # None /\ slots[s].pub # 0 /\ sess[slots[s].conn].state = "up" =>
          Pinned(sess[slots[s].conn], slots[s].pub, grants, rev)
    /\ \A r \in Readers : task[r].pc \in {"execute", "running"} => slots[task[r].slot].pub = task[r].pub
    /\ \A r \in Readers : task[r].pc \in {"running", "deliver", "served"} => task[r].read = grants[task[r].pub]

Found(i) == \E s \in Members : slots[s].conn = i /\ (s = entry \/ Waiting(s))

(* An open session that is not given up is being opened, or in a slot that the map or a
   waiting teardown leads to. *)
BehindInv ==
    /\ \A t \in Members : task[t].pc = "register" => sess[t].state # "empty"
    /\ \A t \in Members : task[t].pc = "opening" => sess[t].state \notin {"up", "bare"}
    /\ \A i \in Members : sess[i].state \in Open /\ ~sess[i].stray =>
          task[i].pc \in {"opening", "register"} \/ Found(i)

IInv == StateTypes /\ LockInv /\ HolderInv /\ ConnInv /\ PinInv /\ BehindInv

USE RoomAssumption DEF Open, Bounds

-----------------------------------------------------------------------------
(* Types.                                                                  *)

LEMMA PcsOK ==
    {"routed", "queued", "resolve", "opening", "register", "execute", "running", "after", "deliver", "served",
     "leaving", "collect", "disconnect", "idle", "closing", "close_wait", "done"}
        \subseteq {"idle", "closing", "close_wait", "done"} \cup MemberPcs \cup AdminPcs
  BY DEF MemberPcs, AdminPcs

(* One field of a request is replaced. *)
LEMMA FieldSet ==
    ASSUME NEW w \in Requests
    PROVE  /\ \A x \in {"idle", "closing", "close_wait", "done"} \cup MemberPcs \cup AdminPcs :
                [w EXCEPT !.pc = x] \in Requests
           /\ \A x \in Profiles \cup {None} : [w EXCEPT !.profile = x] \in Requests
           /\ \A x \in Nat : [w EXCEPT !.pub = x] \in Requests
           /\ \A x \in Members \cup {None} : [w EXCEPT !.slot = x] \in Requests
           /\ \A x \in Members \cup {None} : [w EXCEPT !.sess = x] \in Requests
           /\ \A x \in {None} \cup [profile : Profiles \cup {None}, rev : Nat] : [w EXCEPT !.read = x] \in Requests
           /\ \A x \in SUBSET Members : [w EXCEPT !.todo = x] \in Requests
           /\ \A x \in {"idle", "done", "closing", "spawned"} : [w EXCEPT !.then = x] \in Requests
  BY SMTT(30) DEF Requests

(* A request that is off every slot. *)
LEMMA OffOK ==
    ASSUME NEW pc \in {"idle", "done", "after", "deliver", "closing"}, NEW pub \in Nat,
           NEW read \in {None} \cup [profile : Profiles \cup {None}, rev : Nat],
           NEW then \in {"idle", "done", "closing", "spawned"}
    PROVE  LET w == Off(pc, pub, read, then) IN
           /\ w \in Requests /\ w.slot = None /\ w.pc = pc /\ w.pub = pub /\ w.read = read
  <1>1. pc \in {"idle", "closing", "close_wait", "done"} \cup MemberPcs \cup AdminPcs
     BY DEF MemberPcs, AdminPcs
  <1> QED BY <1>1, SMTT(30) DEF Off, Requests

(* What answering a request, or leaving the connection, does to a task. *)
LEMMA EndedOK ==
    ASSUME NEW t \in Tasks, StateTypes, Ended(t)
    PROVE  \E w \in Requests :
             /\ task' = [task EXCEPT ![t] = w] /\ w.slot = None /\ w.pub = 0
             /\ w.pc = IF t \in Admins THEN "idle" ELSE "done"
  <1> DEFINE pc == IF t \in Admins THEN "idle" ELSE "done"
  <1>1. pc \in {"idle", "done", "after", "deliver", "closing"} /\ 0 \in Nat
     OBVIOUS
  <1>2. LET w == Off(pc, 0, None, "idle") IN w \in Requests /\ w.slot = None /\ w.pc = pc /\ w.pub = 0
     <2> HIDE DEF pc
     <2> QED BY <1>1, OffOK
  <1> QED BY <1>2 DEF Ended

LEMMA PastOK ==
    ASSUME NEW t \in Members, StateTypes, Past(t)
    PROVE  \E w \in Requests :
             /\ task' = [task EXCEPT ![t] = w] /\ w.slot = None /\ w.pub = 0
             /\ w.pc \in {"done", "after"} /\ (t \in Readers => w.pc = "done")
  <1>1. CASE t \in Readers
     <2>1. Ended(t) /\ t \notin Admins /\ t \in Tasks
        BY <1>1 DEF Past, Tasks, Members
     <2> QED BY <2>1, EndedOK, SMTT(30)
  <1>2. CASE t \notin Readers
     <2> DEFINE then == task[t].then
     <2>1. then \in {"idle", "done", "closing", "spawned"}
        BY SMTT(30) DEF StateTypes, Tasks, Requests
     <2>2. task' = [task EXCEPT ![t] = Off("after", 0, None, then)]
        BY <1>2 DEF Past
     <2> HIDE DEF then
     <2>3. LET w == Off("after", 0, None, then) IN w \in Requests /\ w.slot = None /\ w.pc = "after" /\ w.pub = 0
        BY <2>1, OffOK
     <2> QED BY <1>2, <2>2, <2>3
  <1> QED BY <1>1, <1>2

(* The mutex of a slot changes hands. *)
LEMMA HolderSet ==
    ASSUME NEW S \in [Members -> Slots], NEW s \in Members, NEW h \in Members \cup {None}
    PROVE  LET T == [S EXCEPT ![s].holder = h] IN
           /\ T \in [Members -> Slots] /\ T[s].holder = h
           /\ \A x \in Members \ {s} : T[x] = S[x]
           /\ \A x \in Members : T[x].conn = S[x].conn /\ T[x].pub = S[x].pub
  <1> DEFINE v == [S[s] EXCEPT !.holder = h]
             T == [S EXCEPT ![s].holder = h]
  <1>1. v \in Slots /\ v.holder = h /\ v.conn = S[s].conn /\ v.pub = S[s].pub
     BY SMTT(30) DEF Slots
  <1>2. T = [S EXCEPT ![s] = v]
     OBVIOUS
  <1> HIDE DEF v
  <1>3. T \in [Members -> Slots] /\ T[s] = v /\ \A x \in Members \ {s} : T[x] = S[x]
     BY <1>1, <1>2
  <1> QED BY <1>1, <1>3

LEMMA MemberTask == ASSUME NEW t \in Members PROVE t \in Tasks /\ t \notin Admins
  BY DEF Tasks, Members

LEMMA AdminTask == ASSUME NEW a \in Admins PROVE a \in Tasks /\ a \notin Members
  BY DEF Tasks, Members

(* A task that becomes another request leaves the tasks well typed. *)
LEMMA TaskSet ==
    ASSUME StateTypes, NEW t \in Tasks, NEW w \in Requests, task' = [task EXCEPT ![t] = w]
    PROVE  /\ task' \in [Tasks -> Requests] /\ task'[t] = w
           /\ \A u \in Tasks \ {t} : task'[u] = task[u]
  BY DEF StateTypes

(* The same for one that only moves on. *)
LEMMA TaskMoved ==
    ASSUME StateTypes, NEW t \in Tasks, NEW pc \in {"resolve", "register", "execute", "served", "closing", "leaving"},
           Goto(t, pc)
    PROVE  /\ task' \in [Tasks -> Requests] /\ task'[t].pc = pc
           /\ \A u \in Tasks \ {t} : task'[u] = task[u]
           /\ task'[t] = [task[t] EXCEPT !.pc = pc]
           /\ task'[t].profile = task[t].profile /\ task'[t].pub = task[t].pub /\ task'[t].slot = task[t].slot
           /\ task'[t].sess = task[t].sess /\ task'[t].read = task[t].read
  <1>1. pc \in {"idle", "closing", "close_wait", "done"} \cup MemberPcs \cup AdminPcs
     BY DEF MemberPcs, AdminPcs
  <1>2. task[t] \in Requests
     BY DEF StateTypes
  <1>3. [task[t] EXCEPT !.pc = pc] \in Requests
     BY <1>1, <1>2, SMTT(30) DEF Requests
  <1>4. task' = [task EXCEPT ![t] = [task[t] EXCEPT !.pc = pc]]
     BY DEF Goto
  <1>5. task'[t] = [task[t] EXCEPT !.pc = pc]
     BY <1>4 DEF StateTypes
  <1>6. task' \in [Tasks -> Requests] /\ \A u \in Tasks \ {t} : task'[u] = task[u]
     BY <1>3, <1>4, TaskSet
  <1>7. /\ task'[t].pc = pc
        /\ task'[t].profile = task[t].profile /\ task'[t].pub = task[t].pub /\ task'[t].slot = task[t].slot
        /\ task'[t].sess = task[t].sess /\ task'[t].read = task[t].read
     BY <1>2, <1>5, SMTT(30) DEF Requests
  <1> QED BY <1>5, <1>6, <1>7

LEMMA ClosedOK ==
    ASSUME StateTypes, NEW i
    PROVE  /\ Closed(i) \in [Members -> Sessions]
           /\ \A m \in Members : Closed(i)[m].state \in Open => m # i /\ Closed(i)[m] = sess[m]
           /\ \A m \in Members : m # i => Closed(i)[m] = sess[m]
  <1>1. NoSession \in Sessions /\ NoSession.state = "closed"
     BY SMTT(30) DEF NoSession, Gone, Sessions
  <1>2. \A m \in Members : Closed(i)[m] = IF m = i THEN NoSession ELSE sess[m]
     BY DEF Closed
  <1>3. Closed(i) \in [Members -> Sessions]
     BY <1>1, SMTT(30) DEF Closed, StateTypes
  <1> QED BY <1>1, <1>2, <1>3

LEMMA CutOffOK ==
    ASSUME StateTypes, NEW ids
    PROVE  /\ CutOff(ids) \in [Members -> Sessions]
           /\ \A m \in Members : m \in ids => CutOff(ids)[m].state = "cut"
           /\ \A m \in Members : m \notin ids => CutOff(ids)[m] = sess[m]
  <1>1. Gone("cut") \in Sessions /\ Gone("cut").state = "cut"
     BY SMTT(30) DEF NoSession, Gone, Sessions
  <1>2. CutOff(ids) \in [Members -> Sessions]
     BY <1>1, SMTT(30) DEF CutOff, StateTypes
  <1> QED BY <1>1, <1>2, SMTT(30) DEF CutOff

LEMMA BaredOK ==
    ASSUME StateTypes, NEW i
    PROVE  /\ Bared(i) \in [Members -> Sessions]
           /\ \A m \in Members :
                \/ Bared(i)[m] = sess[m]
                \/ /\ sess[m].state = "up" /\ Bared(i)[m].state = "bare" /\ Bared(i)[m].stray = sess[m].stray
                   /\ Bared(i)[m].profile = sess[m].profile /\ Bared(i)[m].rev = sess[m].rev
  <1>1. ASSUME NEW x \in Sessions
        PROVE  LET v == [x EXCEPT !.state = "bare"] IN
               /\ v \in Sessions /\ v.state = "bare" /\ v.stray = x.stray
               /\ v.profile = x.profile /\ v.rev = x.rev
     BY SMTT(30) DEF Sessions
  <1>2. \A m \in Members : sess[m] \in Sessions
     BY DEF StateTypes
  <1>3. \A m \in Members : Bared(i)[m] =
            IF m = i /\ sess[m].state = "up" THEN [sess[m] EXCEPT !.state = "bare"] ELSE sess[m]
     BY DEF Bared
  <1>4. Bared(i) \in [Members -> Sessions]
     BY <1>1, <1>2 DEF Bared
  <1>5. ASSUME NEW m \in Members
        PROVE  \/ Bared(i)[m] = sess[m]
               \/ /\ sess[m].state = "up" /\ Bared(i)[m].state = "bare" /\ Bared(i)[m].stray = sess[m].stray
                  /\ Bared(i)[m].profile = sess[m].profile /\ Bared(i)[m].rev = sess[m].rev
     <2>1. CASE m = i /\ sess[m].state = "up"
        <3>1. Bared(i)[m] = [sess[m] EXCEPT !.state = "bare"]
           BY <1>3, <2>1
        <3> QED BY <1>1, <1>2, <2>1, <3>1
     <2>2. CASE ~(m = i /\ sess[m].state = "up")
        <3>1. Bared(i)[m] = sess[m]
           BY <1>3, <2>2
        <3> QED BY <3>1
     <2> QED BY <2>1, <2>2
  <1> QED BY <1>4, <1>5

LEMMA FreeSlotOK ==
    ASSUME NEW t \in Members \cup {None}
    PROVE  /\ FreeSlot \in Slots /\ EmptySlot(t) \in Slots
           /\ FreeSlot.conn = None /\ FreeSlot.holder = None /\ FreeSlot.pub = 0
           /\ EmptySlot(t).conn = None /\ EmptySlot(t).holder = t
           /\ EmptySlot(t).pub = 0
  BY SMTT(30) DEF FreeSlot, EmptySlot, Slots

-----------------------------------------------------------------------------
(* Steps that have much in common.                                         *)

(* Grants are only added and revisions only grow. *)
MetaGrows ==
    /\ Len(grants) <= Len(grants') /\ \A i \in 1..Len(grants) : grants'[i] = grants[i]
    /\ \A p \in Profiles : rev[p] <= rev'[p]

LEMMA GrantRows ==
    ASSUME NEW gs \in Seq([profile : Profiles, rev : Nat])
    PROVE  /\ Len(gs) \in Nat
           /\ \A g \in 1..Len(gs) : gs[g] \in [profile : Profiles, rev : Nat]
           /\ \A g \in 1..Len(gs) : gs[g].profile \in Profiles /\ gs[g].rev \in Nat
  <1>1. \A S : gs \in Seq(S) => Len(gs) \in Nat /\ \A g \in 1..Len(gs) : gs[g] \in S
     OBVIOUS
  <1>2. Len(gs) \in Nat /\ \A g \in 1..Len(gs) : gs[g] \in [profile : Profiles, rev : Nat]
     BY <1>1
  <1> QED BY <1>2, SMTT(30)

LEMMA MetaStays ==
    ASSUME StateTypes, UNCHANGED meta
    PROVE  MetaGrows
  <1>1. Len(grants) \in Nat
     BY GrantRows DEF StateTypes
  <1>2. \A p \in Profiles : rev[p] \in Nat
     BY DEF StateTypes
  <1> QED BY <1>1, <1>2, SMTT(30) DEF meta, MetaGrows

(* What a grant pins, it pins for good, as long as the connection is not another. *)
LEMMA PinnedGrows ==
    ASSUME StateTypes, StateTypes', MetaGrows, NEW c, NEW d, NEW g, d.profile = c.profile, d.rev = c.rev,
           c.rev \in Nat, Pinned(c, g, grants, rev)
    PROVE  Pinned(d, g, grants', rev')
  <1>0. /\ grants \in Seq([profile : Profiles, rev : Nat]) /\ grants' \in Seq([profile : Profiles, rev : Nat])
        /\ \A p \in Profiles : rev[p] \in Nat /\ rev'[p] \in Nat
     BY DEF StateTypes
  <1>1. Len(grants) \in Nat /\ Len(grants') \in Nat
     BY <1>0, GrantRows
  <1>2. g \in 1..Len(grants) /\ c.profile = grants[g].profile /\ grants[g].rev <= c.rev /\ c.rev <= rev[c.profile]
     BY DEF Pinned
  <1>3. g \in 1..Len(grants') /\ grants'[g] = grants[g]
     BY <1>1, <1>2, SMTT(30) DEF MetaGrows
  <1>4. c.profile \in Profiles
     BY <1>0, <1>2, GrantRows
  <1>5. rev[c.profile] \in Nat /\ rev'[c.profile] \in Nat /\ rev[c.profile] <= rev'[c.profile]
     BY <1>0, <1>4 DEF MetaGrows
  <1>6. c.rev <= rev'[c.profile]
     BY <1>2, <1>5, SMTT(30)
  <1> QED BY <1>2, <1>3, <1>6 DEF Pinned

(* Connections are the same, or cut. *)
SessionsCut ==
    \A m \in Members :
        \/ /\ sess'[m].state = sess[m].state
           /\ sess'[m].profile = sess[m].profile /\ sess'[m].rev = sess[m].rev
        \/ sess'[m].state = "cut" /\ sess[m].state \in Open
        \/ /\ sess'[m].state = "bare" /\ sess[m].state = "up"
           /\ sess'[m].profile = sess[m].profile /\ sess'[m].rev = sess[m].rev

(* What a task may turn into without touching a slot. *)
Aside(t) ==
    \/ task'[t] = task[t]
    \/ /\ t \in Admins /\ task'[t].pc \notin {"queued", "close_wait"}
    \/ /\ t \in Members /\ task[t].pc \notin HoldPcs
       /\ task'[t].pc \in {"done", "closing"} /\ task'[t].pub = 0
    \/ /\ t \in Readers /\ task[t].pc = "deliver" /\ task'[t].pc = "served"
       /\ task'[t].pub = task[t].pub /\ task'[t].read = task[t].read

(* Sessions that nobody will find any more are given up with the step. *)
GivenUp(t) ==
    \A m \in Members : sess'[m].state \in Open /\ ~sess'[m].stray =>
        /\ ~sess[m].stray
        /\ task'[t].pc # "close_wait" /\ task[t].pc = "close_wait" =>
              task[t].slot = entry \/ slots[task[t].slot].conn # m

(* A step of a task away from the slots, which may change the room, its grants and
   profiles, and take connections away, keeps the invariant. *)
LEMMA AsideKeeps ==
    ASSUME IInv, StateTypes', slots' = slots, entry' = entry, MetaGrows, SessionsCut,
           NEW t \in Tasks, \A u \in Tasks \ {t} : task'[u] = task[u], Aside(t), GivenUp(t)
    PROVE  IInv'
  <1> USE DEF HoldPcs
  <1>0. /\ StateTypes /\ LockInv /\ HolderInv /\ ConnInv /\ PinInv /\ BehindInv
        /\ \A u \in Members : u \in Tasks /\ u \notin Admins
        /\ \A r \in Readers : r \in Members /\ r \notin Queries
        /\ \A q \in Queries : q \in Members
     BY MemberTask DEF IInv, Members
  <1>k. \A x \in Members : slots[x].holder \in Members \cup {None}
     BY <1>0, SMTT(30) DEF StateTypes, Slots
  <1>1. LockInv'
     <2>1. \A u \in Members : task'[u].pc \in HoldPcs => task'[u] = task[u]
        BY <1>0, SMTT(30) DEF Aside
     <2>2. \A u \in Tasks : task'[u].pc \in {"queued", "close_wait"} => task'[u] = task[u]
        BY <1>0, SMTT(30) DEF Aside
     <2>3. \A u \in Members : task'[u].pc \in {"routed", "queued", "resolve"} => task'[u] = task[u]
        BY <1>0, SMTT(30) DEF Aside
     <2> QED BY <1>0, <2>1, <2>2, <2>3, SMTT(30) DEF LockInv
  <1>h. HolderInv'
     BY <1>0, <1>k, SMTT(30) DEF HolderInv, Aside
  <1>2. ConnInv'
     <2>1. \A u \in Members : task'[u].pc \in EarlyPcs => task'[u] = task[u]
        BY <1>0, SMTT(30) DEF Aside, EarlyPcs
     <2>2. \A u \in Members : task'[u].pc \in HoldPcs => task'[u] = task[u]
        BY <1>0, SMTT(30) DEF Aside
     <2>3. \A u \in Members : slots[u].conn \in Members \cup {None} 
        BY <1>0, SMTT(30) DEF StateTypes, Slots
     <2>4. \A u \in Members : sess[u].state \in {"up", "bare", "cut"} => sess'[u].state \in {"up", "bare", "cut"}
        BY SMTT(30) DEF SessionsCut
     <2>5. (\A s \in Members : slots[s].conn # None => task[slots[s].conn].pc \notin EarlyPcs)'
        BY <1>0, <2>1, <2>3, SMTT(30) DEF ConnInv
     <2>6. (\A u \in Members : task[u].pc \in {"resolve", "opening", "register"} => slots[task[u].slot].conn = None)'
        BY <1>0, <2>2, SMTT(30) DEF ConnInv
     <2>7. (\A u \in Members : task[u].pc \in {"opening", "register"} => task[u].sess = u)'
        BY <1>0, <2>2, SMTT(30) DEF ConnInv
     <2>8. (\A u \in Members : task[u].pc \in {"execute", "running"} =>
              task[u].sess \in Members /\ slots[task[u].slot].conn = task[u].sess)'
        BY <1>0, <2>2, SMTT(30) DEF ConnInv
     <2>9. (\A u \in Members : task[u].pc = "running" => sess[task[u].sess].state \in {"up", "bare", "cut"})'
        BY <1>0, <2>2, <2>4, SMTT(30) DEF ConnInv
     <2> QED BY <1>0, <2>5, <2>6, <2>7, <2>8, <2>9 DEF ConnInv
  <1>3. PinInv'
     <2>1. \A r \in Readers : task'[r].pc \in ReaderPcs \ {"served"} => task'[r] = task[r]
        BY <1>0, SMTT(30) DEF Aside, ReaderPcs
     <2>2. \A r \in Readers : task'[r].pc = "served" =>
              task[r].pc \in {"deliver", "served"} /\ task'[r].pub = task[r].pub /\ task'[r].read = task[r].read
        BY <1>0, SMTT(30) DEF Aside
     <2>3. /\ \A g \in 1..Len(grants) : g \in 1..Len(grants') /\ grants'[g] = grants[g]
           /\ Len(grants) \in Nat
           /\ \A g \in 1..Len(grants) : grants[g].profile \in Profiles /\ grants[g].rev \in Nat
        <3>1. grants \in Seq([profile : Profiles, rev : Nat]) /\ grants' \in Seq([profile : Profiles, rev : Nat])
           BY <1>0 DEF StateTypes
        <3>2. Len(grants') \in Nat
           BY <3>1, GrantRows
        <3>3. /\ Len(grants) \in Nat
              /\ \A g \in 1..Len(grants) : grants[g].profile \in Profiles /\ grants[g].rev \in Nat
           BY <3>1, GrantRows
        <3> QED BY <3>2, <3>3, SMTT(30) DEF MetaGrows
     <2>4. \A m \in Members : /\ slots[m].conn \in Members \cup {None} /\ sess[m].rev \in Nat
                             /\ task'[m] \in Requests /\ task[m] \in Requests
        BY <1>0, SMTT(30) DEF StateTypes, Slots, Sessions
     <2>5. (\A q \in Queries : task[q].pub = 0)'
        BY <1>0, SMTT(30) DEF Aside, PinInv
     <2>6. (\A r \in Readers : task[r].pc \in ReaderPcs => task[r].pub \in 1..Len(grants))'
        <3> SUFFICES ASSUME NEW r \in Readers, task'[r].pc \in ReaderPcs PROVE task'[r].pub \in 1..Len(grants')
           OBVIOUS
        <3>1. task[r].pc \in ReaderPcs /\ task'[r].pub = task[r].pub
           BY <2>1, <2>2 DEF ReaderPcs
        <3> QED BY <1>0, <3>1, <2>3 DEF PinInv
     <2>7. (\A r \in Readers : task[r].pc \in {"routed", "queued", "resolve"} =>
              /\ task[r].profile = grants[task[r].pub].profile
              /\ grants[task[r].pub].rev <= rev[task[r].profile])'
        <3> SUFFICES ASSUME NEW r \in Readers, task'[r].pc \in {"routed", "queued", "resolve"}
                     PROVE  /\ task'[r].profile = grants'[task'[r].pub].profile
                            /\ grants'[task'[r].pub].rev <= rev'[task'[r].profile]
           OBVIOUS
        <3>1. task'[r] = task[r] /\ task[r].pub \in 1..Len(grants)
           BY <1>0, <2>1 DEF ReaderPcs, PinInv
        <3>2. task[r].profile = grants[task[r].pub].profile /\ grants[task[r].pub].rev <= rev[task[r].profile]
           BY <1>0, <3>1 DEF PinInv
        <3>3. /\ rev[task[r].profile] \in Nat /\ rev'[task[r].profile] \in Nat /\ grants[task[r].pub].rev \in Nat
              /\ rev[task[r].profile] <= rev'[task[r].profile]
           BY <1>0, <2>3, <3>1, <3>2 DEF StateTypes, MetaGrows
        <3> QED BY <2>3, <3>1, <3>2, <3>3, SMTT(30)
     <2>8. (\A r \in Readers : task[r].pc \in {"opening", "register"} /\ sess[r].state \in Open =>
              Pinned(sess[r], task[r].pub, grants, rev))'
        <3> SUFFICES ASSUME NEW r \in Readers, task'[r].pc \in {"opening", "register"}, sess'[r].state \in Open
                     PROVE  Pinned(sess'[r], task'[r].pub, grants', rev')
           OBVIOUS
        <3>1. task'[r] = task[r] /\ sess[r].rev \in Nat
           BY <1>0, <2>1, <2>4 DEF ReaderPcs
        <3>2. sess[r].state \in Open /\ sess'[r].profile = sess[r].profile /\ sess'[r].rev = sess[r].rev
           BY <1>0 DEF SessionsCut
        <3>3. Pinned(sess[r], task[r].pub, grants, rev)
           BY <1>0, <3>1, <3>2 DEF PinInv
        <3> QED BY <1>0, <3>1, <3>2, <3>3, PinnedGrows
     <2>9. (\A s \in Members : slots[s].conn # None /\ slots[s].pub # 0 /\ sess[slots[s].conn].state = "up" =>
              Pinned(sess[slots[s].conn], slots[s].pub, grants, rev))'
        <3> SUFFICES ASSUME NEW s \in Members, slots[s].conn # None, slots[s].pub # 0, sess'[slots[s].conn].state = "up"
                     PROVE  Pinned(sess'[slots[s].conn], slots[s].pub, grants', rev')
           OBVIOUS
        <3>1. slots[s].conn \in Members /\ sess[slots[s].conn].rev \in Nat
           BY <2>4
        <3>2. /\ sess[slots[s].conn].state = "up" /\ sess'[slots[s].conn].profile = sess[slots[s].conn].profile
              /\ sess'[slots[s].conn].rev = sess[slots[s].conn].rev
           BY <3>1 DEF SessionsCut
        <3>3. Pinned(sess[slots[s].conn], slots[s].pub, grants, rev)
           BY <1>0, <3>2 DEF PinInv
        <3> QED BY <1>0, <3>1, <3>2, <3>3, PinnedGrows
     <2>10. (\A r \in Readers : task[r].pc \in {"execute", "running"} => slots[task[r].slot].pub = task[r].pub)'
        BY <1>0, <2>1, SMTT(30) DEF PinInv, ReaderPcs
     <2>11. (\A r \in Readers : task[r].pc \in {"running", "deliver", "served"} => task[r].read = grants[task[r].pub])'
        <3> SUFFICES ASSUME NEW r \in Readers, task'[r].pc \in {"running", "deliver", "served"}
                     PROVE  task'[r].read = grants'[task'[r].pub]
           OBVIOUS
        <3>1. /\ task[r].pc \in {"running", "deliver", "served"}
              /\ task'[r].pub = task[r].pub /\ task'[r].read = task[r].read
           BY <2>1, <2>2 DEF ReaderPcs
        <3>2. task[r].pub \in 1..Len(grants) /\ task[r].read = grants[task[r].pub]
           BY <1>0, <3>1 DEF PinInv, ReaderPcs
        <3> QED BY <2>3, <3>1, <3>2
     <2> QED BY <2>5, <2>6, <2>7, <2>8, <2>9, <2>10, <2>11 DEF PinInv
  <1>4. BehindInv'
     <2>1. (\A u \in Members : task[u].pc = "register" => sess[u].state # "empty")'
        BY <1>0, SMTT(30) DEF Aside, SessionsCut, BehindInv
     <2>0. (\A u \in Members : task[u].pc = "opening" => sess[u].state \notin {"up", "bare"})'
        BY <1>0, SMTT(30) DEF Aside, SessionsCut, BehindInv
     <2>2. ASSUME NEW i \in Members, sess'[i].state \in Open, ~sess'[i].stray
           PROVE  task'[i].pc \in {"opening", "register"} \/ Found(i)'
        <3>1. sess[i].state \in Open /\ ~sess[i].stray
           BY <2>2 DEF SessionsCut, GivenUp
        <3>2. CASE task[i].pc \in {"opening", "register"}
           <4>1. task'[i] = task[i]
              BY <1>0, <3>2, SMTT(30) DEF Aside
           <4> QED BY <3>2, <4>1
        <3>3. CASE Found(i)
           <4>1. PICK s \in Members : slots[s].conn = i /\ (s = entry \/ Waiting(s))
              BY <3>3 DEF Found
           <4>2. CASE s = entry
              BY <4>1, <4>2 DEF Found
           <4>3. CASE s # entry /\ Waiting(s)
              <5>1. PICK u \in Tasks : task[u].pc = "close_wait" /\ task[u].slot = s
                 BY <4>3 DEF Waiting, At
              <5>2. task'[u].pc = "close_wait" /\ task'[u].slot = s
                 BY <2>2, <4>1, <4>3, <5>1, <1>0, SMTT(30) DEF Aside, GivenUp
              <5>3. Waiting(s)'
                 BY <5>2 DEF Waiting, At
              <5> QED BY <4>1, <5>3 DEF Found
           <4> QED BY <4>1, <4>2, <4>3
        <3> QED BY <1>0, <3>1, <3>2, <3>3 DEF BehindInv
     <2> QED BY <2>0, <2>1, <2>2 DEF BehindInv
  <1> QED BY <1>h, <1>1, <1>2, <1>3, <1>4 DEF IInv

(* A member lets go of its slot.  The session it was opening, if any, is closed, cut or
   given up with the step, and no other session changes its state. *)
LEMMA ReleaseKeeps ==
    ASSUME IInv, StateTypes', UNCHANGED meta, entry' = entry, NEW t \in Members, Unlock(t),
           task[t].pc \in HoldPcs, \A u \in Tasks \ {t} : task'[u] = task[u],
           task'[t].pc \in {"done", "after", "deliver"},
           t \in Queries => task'[t].pub = 0,
           task'[t].pc = "deliver" => task[t].pc = "running" /\ task'[t].pub = task[t].pub /\ task'[t].read = task[t].read,
           \A m \in Members : \/ /\ sess'[m].state = sess[m].state
                                 /\ sess'[m].profile = sess[m].profile /\ sess'[m].rev = sess[m].rev
                              \/ m = t /\ task[t].pc = "opening" /\ sess'[m].state = "closed"
                              \/ /\ sess[m].state = "up" /\ sess'[m].state = "bare"
                                 /\ sess'[m].profile = sess[m].profile /\ sess'[m].rev = sess[m].rev,
           \A m \in Members : sess'[m].state \in Open /\ ~sess'[m].stray =>
               ~sess[m].stray /\ (m = t => task[t].pc \notin {"opening", "register"})
    PROVE  IInv'
  <1> USE DEF HoldPcs
  <1>0. /\ StateTypes /\ LockInv /\ HolderInv /\ ConnInv /\ PinInv /\ BehindInv
        /\ \A u \in Members : u \in Tasks /\ u \notin Admins
        /\ \A r \in Readers : r \in Members /\ r \notin Queries
        /\ \A q \in Queries : q \in Members
     BY MemberTask DEF IInv, Members
  <1>k. \A x \in Members : slots[x].holder \in Members \cup {None}
     BY <1>0, SMTT(30) DEF StateTypes, Slots
  <1> DEFINE s == task[t].slot
  <1>a. s \in Members /\ slots[s].holder = t
     BY <1>0 DEF LockInv
  <1>b. /\ \A u \in Members : slots'[u].conn = slots[u].conn /\ slots'[u].pub = slots[u].pub
        /\ \A u \in Members : u # s => slots'[u].holder = slots[u].holder
     BY <1>0, <1>a, SMTT(30) DEF Unlock, StateTypes, Slots
  <1>e. slots'[s].holder = None
     BY <1>0, <1>a, SMTT(30) DEF Unlock, StateTypes, Slots
  <1>c. \A u \in Members : task'[u].pc \in HoldPcs \cup EarlyPcs => u # t /\ task'[u] = task[u]
     BY <1>0, SMTT(30) DEF EarlyPcs
  <1>d. \A u \in Members : slots[u].conn \in Members \cup {None} /\ task[u].slot \in Members \cup {None}
     BY <1>0, SMTT(30) DEF StateTypes, Slots, Requests
  <1> HIDE DEF s
  <1>1. LockInv'
     <2>1. (\A u \in Members : task[u].pc \in HoldPcs => task[u].slot \in Members /\ slots[task[u].slot].holder = u)'
        BY <1>0, <1>a, <1>b, <1>c, SMTT(30) DEF LockInv
     <2>2. (\A u \in Tasks : task[u].pc \in {"queued", "close_wait"} => task[u].slot \in Members)'
        BY <1>0, SMTT(30) DEF LockInv
     <2>3. (\A u \in Members : task[u].pc \in {"routed", "queued", "resolve"} => task[u].profile \in Profiles)'
        BY <1>0, <1>c, SMTT(30) DEF LockInv, EarlyPcs
     <2> QED BY <2>1, <2>2, <2>3 DEF LockInv
  <1>h. HolderInv'
     BY <1>0, <1>k, <1>a, <1>b, <1>e, SMTT(30) DEF HolderInv
  <1>2. ConnInv'
     <2>1. (\A x \in Members : slots[x].conn # None => task[slots[x].conn].pc \notin EarlyPcs)'
        BY <1>0, <1>b, <1>c, <1>d, SMTT(30) DEF ConnInv
     <2>2. (\A x, u \in Members : slots[x].conn # None /\ slots[x].conn = slots[u].conn => x = u)'
        BY <1>0, <1>b, SMTT(30) DEF ConnInv
     <2>3. (\A u \in Members : task[u].pc \in {"resolve", "opening", "register"} => slots[task[u].slot].conn = None)'
        BY <1>0, <1>b, <1>c, <1>d, SMTT(30) DEF ConnInv, LockInv
     <2>4. (\A u \in Members : task[u].pc \in {"opening", "register"} => task[u].sess = u)'
        BY <1>0, <1>c, SMTT(30) DEF ConnInv
     <2>5. (\A u \in Members : task[u].pc \in {"execute", "running"} =>
              task[u].sess \in Members /\ slots[task[u].slot].conn = task[u].sess)'
        BY <1>0, <1>b, <1>c, SMTT(30) DEF ConnInv, LockInv
     <2>6. (\A u \in Members : task[u].pc = "running" => sess[task[u].sess].state \in {"up", "bare", "cut"})'
        <3> SUFFICES ASSUME NEW u \in Members, task'[u].pc = "running" PROVE sess'[task'[u].sess].state \in {"up", "bare", "cut"}
           OBVIOUS
        <3>1. /\ task'[u] = task[u] /\ task[u].pc = "running" /\ task[u].slot \in Members
              /\ task[u].sess \in Members /\ slots[task[u].slot].conn = task[u].sess
              /\ sess[task[u].sess].state \in {"up", "bare", "cut"}
           BY <1>0, <1>c, SMTT(30) DEF ConnInv, LockInv
        <3>2. task[t].pc = "opening" => task[u].sess # t
           BY <1>0, <3>1, SMTT(30) DEF ConnInv, EarlyPcs, Members
        <3> QED BY <3>1, <3>2
     <2> QED BY <2>1, <2>2, <2>3, <2>4, <2>5, <2>6 DEF ConnInv
  <1>3. PinInv'
     <2>1. grants' = grants /\ rev' = rev
        BY DEF meta
     <2>2. (\A q \in Queries : task[q].pub = 0)'
        BY <1>0, SMTT(30) DEF PinInv
     <2>3. (\A r \in Readers : task[r].pc \in ReaderPcs => task[r].pub \in 1..Len(grants))'
        BY <1>0, <2>1, SMTT(30) DEF PinInv, ReaderPcs
     <2>4. (\A r \in Readers : task[r].pc \in {"routed", "queued", "resolve"} =>
              /\ task[r].profile = grants[task[r].pub].profile
              /\ grants[task[r].pub].rev <= rev[task[r].profile])'
        BY <1>0, <2>1, SMTT(30) DEF PinInv
     <2>5. (\A r \in Readers : task[r].pc \in {"opening", "register"} /\ sess[r].state \in Open =>
              Pinned(sess[r], task[r].pub, grants, rev))'
        <3> SUFFICES ASSUME NEW r \in Readers, task'[r].pc \in {"opening", "register"}, sess'[r].state \in Open
                     PROVE  Pinned(sess'[r], task'[r].pub, grants', rev')
           OBVIOUS
        <3>1. task'[r] = task[r] /\ r # t /\ r \in Members
           BY <1>0, <1>c DEF EarlyPcs
        <3>2. sess[r].state \in Open /\ sess'[r].profile = sess[r].profile /\ sess'[r].rev = sess[r].rev
           BY <3>1
        <3>3. Pinned(sess[r], task[r].pub, grants, rev)
           BY <1>0, <3>1, <3>2 DEF PinInv
        <3> QED BY <2>1, <3>1, <3>2, <3>3 DEF Pinned
     <2>6. (\A x \in Members : slots[x].conn # None /\ slots[x].pub # 0 /\ sess[slots[x].conn].state = "up" =>
              Pinned(sess[slots[x].conn], slots[x].pub, grants, rev))'
        <3> SUFFICES ASSUME NEW x \in Members, slots'[x].conn # None, slots'[x].pub # 0, sess'[slots'[x].conn].state = "up"
                     PROVE  Pinned(sess'[slots'[x].conn], slots'[x].pub, grants', rev')
           OBVIOUS
        <3>1. slots'[x].conn = slots[x].conn /\ slots'[x].pub = slots[x].pub /\ slots[x].conn \in Members
           BY <1>b, <1>d
        <3>2. /\ sess[slots[x].conn].state = "up" /\ sess'[slots[x].conn].profile = sess[slots[x].conn].profile
              /\ sess'[slots[x].conn].rev = sess[slots[x].conn].rev
           BY <3>1
        <3>3. Pinned(sess[slots[x].conn], slots[x].pub, grants, rev)
           BY <1>0, <3>1, <3>2 DEF PinInv
        <3> QED BY <2>1, <3>1, <3>2, <3>3 DEF Pinned
     <2>7. (\A r \in Readers : task[r].pc \in {"execute", "running"} => slots[task[r].slot].pub = task[r].pub)'
        BY <1>0, <1>b, <1>c, SMTT(30) DEF PinInv, LockInv
     <2>8. (\A r \in Readers : task[r].pc \in {"running", "deliver", "served"} => task[r].read = grants[task[r].pub])'
        BY <1>0, <2>1, SMTT(30) DEF PinInv
     <2> QED BY <2>2, <2>3, <2>4, <2>5, <2>6, <2>7, <2>8 DEF PinInv
  <1>4. BehindInv'
     <2>1. (\A u \in Members : task[u].pc = "register" => sess[u].state # "empty")'
        BY <1>0, <1>c, SMTT(30) DEF BehindInv
     <2>0. (\A u \in Members : task[u].pc = "opening" => sess[u].state \notin {"up", "bare"})'
        BY <1>0, <1>c, SMTT(30) DEF BehindInv
     <2>2. ASSUME NEW i \in Members, sess'[i].state \in Open, ~sess'[i].stray
           PROVE  task'[i].pc \in {"opening", "register"} \/ Found(i)'
        <3>1. sess[i].state \in Open /\ ~sess[i].stray /\ (i = t => task[t].pc \notin {"opening", "register"})
           BY <2>2
        <3>2. CASE task[i].pc \in {"opening", "register"}
           BY <1>0, <3>1, <3>2
        <3>3. CASE Found(i)
           <4>1. PICK x \in Members : slots[x].conn = i /\ (x = entry \/ Waiting(x))
              BY <3>3 DEF Found
           <4>2. Waiting(x) => Waiting(x)'
              BY <1>0, SMTT(30) DEF Waiting, At
           <4> QED BY <1>b, <4>1, <4>2 DEF Found
        <3> QED BY <1>0, <3>1, <3>2, <3>3 DEF BehindInv
     <2> QED BY <2>0, <2>1, <2>2 DEF BehindInv
  <1> QED BY <1>h, <1>1, <1>2, <1>3, <1>4 DEF IInv

-----------------------------------------------------------------------------
(* Members.                                                                *)

(* A member goes from idle to routed: only its task changes. *)
LEMMA RoutedKeeps ==
    ASSUME IInv, StateTypes', UNCHANGED <<meta, pool>>, NEW t \in Members, task[t].pc = "idle",
           \A u \in Tasks \ {t} : task'[u] = task[u],
           task'[t].pc = "routed", task'[t].profile \in Profiles,
           t \in Queries => task'[t].pub = 0,
           t \in Readers => /\ task'[t].pub \in 1..Len(grants)
                            /\ task'[t].profile = grants[task'[t].pub].profile
                            /\ grants[task'[t].pub].rev <= rev[task'[t].profile]
    PROVE  IInv'
  <1> USE DEF HoldPcs
  <1>0. /\ StateTypes /\ LockInv /\ HolderInv /\ ConnInv /\ PinInv /\ BehindInv
        /\ \A u \in Members : u \in Tasks /\ u \notin Admins
        /\ \A r \in Readers : r \in Members /\ r \notin Queries
        /\ \A q \in Queries : q \in Members
        /\ grants' = grants /\ rev' = rev /\ slots' = slots /\ sess' = sess /\ entry' = entry
     BY MemberTask DEF IInv, Members, meta, pool
  <1>k. \A x \in Members : slots[x].holder \in Members \cup {None}
     BY <1>0, SMTT(30) DEF StateTypes, Slots
  <1>1. LockInv'
     BY <1>0, SMTT(30) DEF LockInv
  <1>h. HolderInv'
     BY <1>0, <1>k, SMTT(30) DEF HolderInv
  <1>2. ConnInv'
     <2>1. \A u \in Members : slots[u].conn \in Members \cup {None}
        BY <1>0, SMTT(30) DEF StateTypes, Slots
     <2>2. (\A x \in Members : slots[x].conn # None => task[slots[x].conn].pc \notin EarlyPcs)'
        BY <1>0, <2>1, SMTT(30) DEF ConnInv, EarlyPcs
     <2>3. (\A u \in Members : task[u].pc = "running" => sess[task[u].sess].state \in {"up", "bare", "cut"})'
        BY <1>0, SMTT(30) DEF ConnInv
     <2> QED BY <1>0, <2>2, <2>3, SMTT(30) DEF ConnInv
  <1>3. PinInv'
     BY <1>0, SMTT(30) DEF PinInv, ReaderPcs
  <1>4. BehindInv'
     <2>1. \A x : Waiting(x) => Waiting(x)'
        BY <1>0, SMTT(30) DEF Waiting, At
     <2>2. \A i : Found(i) => Found(i)'
        BY <1>0, <2>1 DEF Found
     <2> QED BY <1>0, <2>2, SMTT(30) DEF BehindInv
  <1> QED BY <1>h, <1>1, <1>2, <1>3, <1>4 DEF IInv

(* A request copies the binding, and an AI read the grant. *)
LEMMA RouteKeeps ==
    ASSUME IInv, NEW q \in Queries, Route(q)
    PROVE  IInv'
  <1>1. StateTypes /\ PinInv /\ q \in Members /\ q \in Tasks /\ q \notin Readers
     BY DEF IInv, Members, Tasks
  <1>2. task[q].pc = "idle" /\ room.profile \in Profiles /\ task[q].pub = 0 /\ task[q] \in Requests
     BY <1>1, SMTT(30) DEF Route, At, StateTypes, PinInv
  <1>3. /\ task'[q].pc = "routed" /\ task'[q].profile = room.profile /\ task'[q].pub = task[q].pub
        /\ \A u \in Tasks \ {q} : task'[u] = task[u]
     BY <1>1, <1>2, SMTT(30) DEF Route, StateTypes, Requests
  <1>4. task' \in [Tasks -> Requests]
     <2> DEFINE n == IF active THEN "done" ELSE "closing"
                v == [[[task[q] EXCEPT !.pc = "routed"] EXCEPT !.profile = room.profile] EXCEPT !.then = n]
     <2>1. n \in {"idle", "done", "closing", "spawned"}
        OBVIOUS
     <2>2. task' = [task EXCEPT ![q] = v]
        BY <1>1 DEF Route, StateTypes
     <2> HIDE DEF n
     <2>3. [task[q] EXCEPT !.pc = "routed"] \in Requests
        BY <1>2, PcsOK, FieldSet
     <2>4. [[task[q] EXCEPT !.pc = "routed"] EXCEPT !.profile = room.profile] \in Requests
        BY <1>2, <2>3, FieldSet
     <2>5. v \in Requests
        BY <2>1, <2>4, FieldSet
     <2> QED BY <1>1, <2>2, <2>5, TaskSet
  <1>5. StateTypes' /\ UNCHANGED <<meta, pool>>
     BY <1>1, <1>4, SMTT(30) DEF Route, StateTypes, meta, pool
  <1> QED BY <1>1, <1>2, <1>3, <1>5, RoutedKeeps

LEMMA RouteReaderKeeps ==
    ASSUME IInv, NEW r \in Readers, RouteReader(r)
    PROVE  IInv'
  <1>1. StateTypes /\ r \in Members /\ r \in Tasks /\ r \notin Queries
     BY DEF IInv, Members, Tasks
  <1>2. /\ task[r].pc = "idle" /\ room.pub \in 0..Len(grants) /\ room.pub # 0
        /\ room.profile = grants[room.pub].profile /\ rev[room.profile] = grants[room.pub].rev
        /\ room.profile \in Profiles \cup {None} /\ task[r] \in Requests
     BY <1>1, SMTT(30) DEF RouteReader, Valid, At, StateTypes
  <1>3. grants \in Seq([profile : Profiles, rev : Nat])
     BY <1>1 DEF StateTypes
  <1>4. room.pub \in Nat /\ room.pub \in 1..Len(grants) /\ room.profile \in Profiles /\ grants[room.pub].rev \in Nat
     <2>1. Len(grants) \in Nat /\ \A g \in 1..Len(grants) : grants[g].profile \in Profiles /\ grants[g].rev \in Nat
        BY <1>3, GrantRows
     <2>2. room.pub \in Nat /\ room.pub \in 1..Len(grants)
        BY <1>2, <2>1, SMTT(30)
     <2> QED BY <1>2, <2>1, <2>2
  <1>5. /\ task'[r].pc = "routed" /\ task'[r].profile = room.profile /\ task'[r].pub = room.pub
        /\ \A u \in Tasks \ {r} : task'[u] = task[u]
     BY <1>1, <1>2, SMTT(30) DEF RouteReader, StateTypes, Requests
  <1>6. task' \in [Tasks -> Requests]
     <2> DEFINE v == [[[task[r] EXCEPT !.pc = "routed"] EXCEPT !.pub = room.pub] EXCEPT !.profile = room.profile]
     <2>1. task' = [task EXCEPT ![r] = v]
        BY <1>1 DEF RouteReader, StateTypes
     <2>2. [task[r] EXCEPT !.pc = "routed"] \in Requests
        BY <1>2, PcsOK, FieldSet
     <2>3. [[task[r] EXCEPT !.pc = "routed"] EXCEPT !.pub = room.pub] \in Requests
        BY <1>4, <2>2, FieldSet
     <2>4. v \in Requests
        BY <1>4, <2>3, FieldSet
     <2> QED BY <1>1, <2>1, <2>4, TaskSet
  <1>7. StateTypes' /\ UNCHANGED <<meta, pool>>
     BY <1>1, <1>6, SMTT(30) DEF RouteReader, StateTypes, meta, pool
  <1>8. grants[room.pub].rev <= rev[room.profile]
     BY <1>2, <1>4, SMTT(30)
  <1> QED BY <1>1, <1>2, <1>4, <1>5, <1>7, <1>8, RoutedKeeps

(* A member takes the room's slot, which it may have to create. *)
LEMMA EnterKeeps ==
    ASSUME IInv, NEW t \in Members, Enter(t)
    PROVE  IInv'
  <1> USE DEF HoldPcs
  <1>0. /\ StateTypes /\ LockInv /\ HolderInv /\ ConnInv /\ PinInv /\ BehindInv /\ t \in Tasks
        /\ \A u \in Members : u \in Tasks /\ u \notin Admins
        /\ \A r \in Readers : r \in Members /\ r \notin Queries
        /\ \A q \in Queries : q \in Members
        /\ grants' = grants /\ rev' = rev /\ slots' = slots /\ sess' = sess /\ UNCHANGED <<meta, left>>
     BY MemberTask DEF IInv, Members, meta, Enter
  <1>k. \A x \in Members : slots[x].holder \in Members \cup {None}
     BY <1>0, SMTT(30) DEF StateTypes, Slots
  <1>1. task[t].pc = "routed" /\ entry' \in Members /\ (entry # None => entry' = entry) /\ task[t] \in Requests
     BY <1>0, SMTT(30) DEF Enter, At, StateTypes
  <1>2. /\ task'[t].pc = "queued" /\ task'[t].slot = entry'
        /\ task'[t].profile = task[t].profile /\ task'[t].pub = task[t].pub
        /\ \A u \in Tasks \ {t} : task'[u] = task[u]
     BY <1>0, <1>1, SMTT(30) DEF Enter, StateTypes, Requests
  <1>3. task' \in [Tasks -> Requests]
     <2> DEFINE v == [[task[t] EXCEPT !.pc = "queued"] EXCEPT !.slot = entry']
     <2>1. task' = [task EXCEPT ![t] = v]
        BY <1>0 DEF Enter, StateTypes
     <2>2. [task[t] EXCEPT !.pc = "queued"] \in Requests
        BY <1>1, PcsOK, FieldSet
     <2>3. v \in Requests
        BY <1>1, <2>2, FieldSet
     <2> QED BY <1>0, <2>1, <2>3, TaskSet
  <1>4. StateTypes'
     BY <1>0, <1>1, <1>3, SMTT(30) DEF StateTypes, meta
  <1>5. LockInv'
     BY <1>0, <1>1, <1>2, SMTT(30) DEF LockInv
  <1>h. HolderInv'
     BY <1>0, <1>k, <1>1, <1>2, SMTT(30) DEF HolderInv
  <1>6. ConnInv'
     <2>1. \A u \in Members : slots[u].conn \in Members \cup {None}
        BY <1>0, SMTT(30) DEF StateTypes, Slots
     <2>2. (\A x \in Members : slots[x].conn # None => task[slots[x].conn].pc \notin EarlyPcs)'
        BY <1>0, <1>1, <1>2, <2>1, SMTT(30) DEF ConnInv, EarlyPcs
     <2>3. (\A u \in Members : task[u].pc = "running" => sess[task[u].sess].state \in {"up", "bare", "cut"})'
        BY <1>0, <1>2, SMTT(30) DEF ConnInv
     <2> QED BY <1>0, <1>2, <2>2, <2>3, SMTT(30) DEF ConnInv
  <1>7. PinInv'
     BY <1>0, <1>1, <1>2, SMTT(30) DEF PinInv, ReaderPcs
  <1>8. BehindInv'
     <2>1. \A x : Waiting(x) => Waiting(x)'
        BY <1>0, <1>1, <1>2, SMTT(30) DEF Waiting, At
     <2>2. \A i : Found(i) => Found(i)'
        BY <1>0, <1>1, <2>1, RoomAssumption, SMTT(30) DEF Found, Tasks
     <2> QED BY <1>0, <1>1, <1>2, <2>2, SMTT(30) DEF BehindInv
  <1> QED BY <1>h, <1>4, <1>5, <1>6, <1>7, <1>8 DEF IInv

(* Whoever has the mutex takes the connection out of the slot and closes it: a member
   before it opens its own, a query whose connection failed, a teardown. *)
LEMMA DropKeeps ==
    ASSUME IInv, StateTypes', UNCHANGED meta, entry' = entry, NEW t \in Tasks, NEW s \in Members,
           \A u \in Tasks \ {t} : task'[u] = task[u], task[t].slot = s,
           \A x \in Members \ {s} : slots'[x] = slots[x], slots'[s].conn = None, slots'[s].pub = 0,
           sess' = Closed(slots[s].conn),
           \/ /\ t \in Members /\ task[t].pc = "queued" /\ task'[t].pc = "resolve"
              /\ task'[t].slot = s /\ task'[t].profile = task[t].profile /\ task'[t].pub = task[t].pub
              /\ slots[s].holder = None /\ slots'[s].holder = t
           \/ /\ t \in Queries /\ task[t].pc = "running" /\ task'[t].pc \in {"done", "after"} /\ task'[t].pub = 0
              /\ slots'[s].holder = None
           \/ /\ task[t].pc = "close_wait" /\ slots[s].holder = None /\ slots'[s].holder = None
              /\ task'[t].pc = (IF t \in Admins THEN "idle" ELSE "done") /\ task'[t].pub = 0
    PROVE  IInv'
  <1> USE DEF HoldPcs
  <1>0. /\ StateTypes /\ LockInv /\ HolderInv /\ ConnInv /\ PinInv /\ BehindInv
        /\ \A u \in Members : u \in Tasks /\ u \notin Admins
        /\ \A r \in Readers : r \in Members /\ r \notin Queries
        /\ \A q \in Queries : q \in Members
        /\ None \notin Tasks
        /\ grants' = grants /\ rev' = rev
     BY MemberTask DEF IInv, Members, meta
  <1>k. \A x \in Members : slots[x].holder \in Members \cup {None}
     BY <1>0, SMTT(30) DEF StateTypes, Slots
  <1>1. \A u \in Members : u # t /\ task'[u].pc \in HoldPcs => task'[u] = task[u] /\ task[u].slot \in Members /\ task[u].slot # s
     BY <1>0, SMTT(30) DEF LockInv
  <1>2. \A u \in Members : slots[u].conn \in Members \cup {None} /\ task[u].slot \in Members \cup {None}
     BY <1>0, SMTT(30) DEF StateTypes, Slots, Requests
  <1>3. /\ \A m \in Members : sess'[m].state \in Open => m # slots[s].conn /\ sess'[m] = sess[m]
        /\ \A m \in Members : m # slots[s].conn => sess'[m] = sess[m]
     BY <1>0, ClosedOK
  <1>4. \A x \in Members : slots'[x].conn # None => x # s /\ slots'[x] = slots[x] /\ slots[x].conn # slots[s].conn
     BY <1>0, SMTT(30) DEF ConnInv
  <1>5. \A u \in Members : u # t => task'[u] = task[u]
     BY <1>0
  <1>6. LockInv'
     <2>1. (\A u \in Members : task[u].pc \in HoldPcs => task[u].slot \in Members /\ slots[task[u].slot].holder = u)'
        BY <1>0, <1>1, SMTT(30) DEF LockInv
     <2>2. (\A u \in Tasks : task[u].pc \in {"queued", "close_wait"} => task[u].slot \in Members)'
        BY <1>0, SMTT(30) DEF LockInv
     <2>3. (\A u \in Members : task[u].pc \in {"routed", "queued", "resolve"} => task[u].profile \in Profiles)'
        BY <1>0, SMTT(30) DEF LockInv
     <2> QED BY <2>1, <2>2, <2>3 DEF LockInv
  <1>h. HolderInv'
     BY <1>0, <1>k, <1>1, SMTT(30) DEF HolderInv
  <1>7. ConnInv'
     <2>1. (\A x \in Members : slots[x].conn # None => task[slots[x].conn].pc \notin EarlyPcs)'
        BY <1>0, <1>2, <1>4, <1>5, SMTT(30) DEF ConnInv, EarlyPcs
     <2>2. (\A x, u \in Members : slots[x].conn # None /\ slots[x].conn = slots[u].conn => x = u)'
        BY <1>0, <1>4, SMTT(30) DEF ConnInv
     <2>3. (\A u \in Members : task[u].pc \in {"resolve", "opening", "register"} => slots[task[u].slot].conn = None)'
        BY <1>0, <1>1, SMTT(30) DEF ConnInv
     <2>4. (\A u \in Members : task[u].pc \in {"opening", "register"} => task[u].sess = u)'
        BY <1>0, <1>1, SMTT(30) DEF ConnInv
     <2>5. (\A u \in Members : task[u].pc \in {"execute", "running"} =>
              task[u].sess \in Members /\ slots[task[u].slot].conn = task[u].sess)'
        BY <1>0, <1>1, SMTT(30) DEF ConnInv
     <2>6. (\A u \in Members : task[u].pc = "running" => sess[task[u].sess].state \in {"up", "bare", "cut"})'
        <3> SUFFICES ASSUME NEW u \in Members, task'[u].pc = "running" PROVE sess'[task'[u].sess].state \in {"up", "bare", "cut"}
           OBVIOUS
        <3>1. /\ task'[u] = task[u] /\ task[u].slot \in Members /\ task[u].slot # s /\ task[u].sess \in Members
              /\ slots[task[u].slot].conn = task[u].sess /\ sess[task[u].sess].state \in {"up", "bare", "cut"}
           BY <1>0, <1>1, SMTT(30) DEF ConnInv
        <3>2. task[u].sess # slots[s].conn
           BY <1>0, <3>1, SMTT(30) DEF ConnInv, Tasks
        <3> QED BY <1>3, <3>1, <3>2
     <2> QED BY <2>1, <2>2, <2>3, <2>4, <2>5, <2>6 DEF ConnInv
  <1>8. PinInv'
     <2>1. (\A q \in Queries : task[q].pub = 0)'
        BY <1>0, SMTT(30) DEF PinInv
     <2>2. (\A r \in Readers : task[r].pc \in ReaderPcs => task[r].pub \in 1..Len(grants))'
        BY <1>0, SMTT(30) DEF PinInv, ReaderPcs
     <2>3. (\A r \in Readers : task[r].pc \in {"routed", "queued", "resolve"} =>
              /\ task[r].profile = grants[task[r].pub].profile
              /\ grants[task[r].pub].rev <= rev[task[r].profile])'
        BY <1>0, SMTT(30) DEF PinInv
     <2>4. (\A r \in Readers : task[r].pc \in {"opening", "register"} /\ sess[r].state \in Open =>
              Pinned(sess[r], task[r].pub, grants, rev))'
        BY <1>0, <1>3, SMTT(30) DEF PinInv
     <2>5. (\A x \in Members : slots[x].conn # None /\ slots[x].pub # 0 /\ sess[slots[x].conn].state = "up" =>
              Pinned(sess[slots[x].conn], slots[x].pub, grants, rev))'
        BY <1>0, <1>2, <1>3, <1>4, SMTT(30) DEF PinInv
     <2>6. (\A r \in Readers : task[r].pc \in {"execute", "running"} => slots[task[r].slot].pub = task[r].pub)'
        BY <1>0, <1>1, SMTT(30) DEF PinInv
     <2>7. (\A r \in Readers : task[r].pc \in {"running", "deliver", "served"} => task[r].read = grants[task[r].pub])'
        BY <1>0, SMTT(30) DEF PinInv
     <2> QED BY <2>1, <2>2, <2>3, <2>4, <2>5, <2>6, <2>7 DEF PinInv
  <1>9. BehindInv'
     <2>1. (\A u \in Members : task[u].pc = "register" => sess[u].state # "empty")'
        BY <1>0, <1>3, SMTT(30) DEF BehindInv
     <2>0. (\A u \in Members : task[u].pc = "opening" => sess[u].state \notin {"up", "bare"})'
        BY <1>0, <1>3, SMTT(30) DEF BehindInv
     <2>2. ASSUME NEW i \in Members, sess'[i].state \in Open, ~sess'[i].stray
           PROVE  task'[i].pc \in {"opening", "register"} \/ Found(i)'
        <3>1. sess[i].state \in Open /\ ~sess[i].stray /\ i # slots[s].conn
           BY <1>3, <2>2
        <3>2. CASE task[i].pc \in {"opening", "register"}
           BY <1>0, <3>2
        <3>3. CASE Found(i)
           <4>1. PICK x \in Members : slots[x].conn = i /\ (x = entry \/ Waiting(x))
              BY <3>3 DEF Found
           <4>2. x # s /\ slots'[x] = slots[x]
              BY <3>1, <4>1
           <4>3. Waiting(x) => Waiting(x)'
              BY <1>0, <4>2, SMTT(30) DEF Waiting, At
           <4> QED BY <4>1, <4>2, <4>3 DEF Found
        <3> QED BY <1>0, <3>1, <3>2, <3>3 DEF BehindInv
     <2> QED BY <2>0, <2>1, <2>2 DEF BehindInv
  <1> QED BY <1>h, <1>6, <1>7, <1>8, <1>9 DEF IInv

(* The types of a step that changes tasks, slots and sessions only. *)
LEMMA TypeStays ==
    ASSUME StateTypes, UNCHANGED meta, entry' \in Members \cup {None}, slots' \in [Members -> Slots],
           sess' \in [Members -> Sessions], task' \in [Tasks -> Requests], left' \in [ops : Nat, cuts : Nat]
    PROVE  StateTypes'
  BY SMTT(30) DEF StateTypes, meta

(* The mutex is acquired. *)
LEMMA LockKeeps ==
    ASSUME IInv, NEW t \in Members, Lock(t)
    PROVE  IInv'
  <1> DEFINE s == task[t].slot
  <1>0. /\ StateTypes /\ LockInv /\ HolderInv /\ ConnInv /\ PinInv /\ BehindInv /\ t \in Tasks /\ t \notin Admins
        /\ \A u \in Members : u \in Tasks /\ u \notin Admins
        /\ \A r \in Readers : r \in Members /\ r \notin Queries
        /\ \A q \in Queries : q \in Members
        /\ None \notin Tasks
        /\ UNCHANGED <<meta, entry, left>> /\ grants' = grants /\ rev' = rev
     BY MemberTask DEF IInv, Members, meta, Lock
  <1>k. \A x \in Members : slots[x].holder \in Members \cup {None}
     BY <1>0, SMTT(30) DEF StateTypes, Slots
  <1>1. task[t].pc = "queued" /\ s \in Members /\ slots[s].holder = None /\ slots[s] \in Slots /\ task[t] \in Requests
     BY <1>0 DEF Lock, At, LockInv, StateTypes
  <1> HIDE DEF s
  <1>2. CASE ~Reusable(t, slots[s])
     <2>1. /\ slots' = [slots EXCEPT ![s] = EmptySlot(t)] /\ sess' = Closed(slots[s].conn) /\ Goto(t, "resolve")
        BY <1>2 DEF Lock, s
     <2>2. EmptySlot(t) \in Slots /\ EmptySlot(t).conn = None /\ EmptySlot(t).holder = t /\ EmptySlot(t).pub = 0
        BY FreeSlotOK
     <2>3. /\ slots' \in [Members -> Slots] /\ \A x \in Members \ {s} : slots'[x] = slots[x]
           /\ slots'[s].conn = None /\ slots'[s].pub = 0 /\ slots'[s].holder = t
        BY <1>0, <1>1, <2>1, <2>2 DEF StateTypes
     <2>4. /\ task' \in [Tasks -> Requests] /\ task'[t].pc = "resolve" /\ \A u \in Tasks \ {t} : task'[u] = task[u]
           /\ task'[t].slot = s /\ task'[t].profile = task[t].profile /\ task'[t].pub = task[t].pub
        BY <1>0, <2>1, TaskMoved DEF s
     <2>5. sess' \in [Members -> Sessions]
        BY <1>0, <2>1, ClosedOK
     <2>6. StateTypes'
        BY <1>0, <2>3, <2>4, <2>5, TypeStays DEF StateTypes
     <2>7. task[t].slot = s
        BY DEF s
     <2> QED BY <1>0, <1>1, <2>1, <2>3, <2>4, <2>6, <2>7, DropKeeps
  <1>3. CASE Reusable(t, slots[s])
     <2> USE DEF HoldPcs
     <2> DEFINE c == slots[s].conn
     <2>1. /\ slots' = [slots EXCEPT ![s].holder = t] /\ sess' = sess
           /\ task' = [task EXCEPT ![t].pc = "execute", ![t].sess = c]
        BY <1>3 DEF Lock, s
     <2>2. c \in Members /\ sess[c].state = "up" /\ (t \in Readers => slots[s].pub = task[t].pub)
        BY <1>1, <1>3, SMTT(30) DEF Reusable, Slots
     <2> HIDE DEF c
     <2>a. sess' = sess
        BY <2>1
     <2>3. /\ slots' \in [Members -> Slots]
           /\ \A x \in Members : slots'[x].conn = slots[x].conn /\ slots'[x].pub = slots[x].pub
           /\ \A x \in Members \ {s} : slots'[x] = slots[x]
           /\ slots'[s].holder = t
        <3>1. slots \in [Members -> Slots]
           BY <1>0 DEF StateTypes
        <3>2. slots' = [slots EXCEPT ![s].holder = t]
           BY <2>1
        <3> QED BY <1>1, <3>1, <3>2, HolderSet
     <2>4. /\ task'[t].pc = "execute" /\ task'[t].sess = c /\ task'[t].slot = s /\ task'[t].pub = task[t].pub
           /\ \A u \in Tasks \ {t} : task'[u] = task[u]
        BY <1>0, <1>1, <2>1, SMTT(30) DEF StateTypes, Requests, s
     <2>5. task' \in [Tasks -> Requests]
        <3> DEFINE v == [[task[t] EXCEPT !.pc = "execute"] EXCEPT !.sess = c]
        <3>1. task' = [task EXCEPT ![t] = v]
           BY <1>0, <2>1 DEF StateTypes
        <3>2. [task[t] EXCEPT !.pc = "execute"] \in Requests
           BY <1>1, PcsOK, FieldSet
        <3>3. v \in Requests
           BY <2>2, <3>2, FieldSet
        <3> QED BY <1>0, <3>1, <3>3, TaskSet
     <2>6. StateTypes'
        BY <1>0, <2>1, <2>3, <2>5, TypeStays DEF StateTypes
     <2>7. \A u \in Members : slots[u].conn \in Members \cup {None}
        BY <1>0, SMTT(30) DEF StateTypes, Slots
     <2>8. slots[s].conn = c
        BY DEF c
     <2>9. \A u \in Members : u # t /\ task[u].pc \in HoldPcs => task[u].slot \in Members \ {s}
        BY <1>0, <1>1, SMTT(30) DEF LockInv
     <2>10. LockInv'
        BY <1>0, <1>1, <2>3, <2>4, <2>9, SMTT(30) DEF LockInv
     <2>h. HolderInv'
        BY <1>0, <1>k, <1>1, <2>3, <2>4, SMTT(30) DEF HolderInv
     <2>11. ConnInv'
        <3>1. (\A x \in Members : slots[x].conn # None => task[slots[x].conn].pc \notin EarlyPcs)'
           BY <1>0, <2>3, <2>4, <2>7, SMTT(30) DEF ConnInv, EarlyPcs
        <3>2. (\A x, u \in Members : slots[x].conn # None /\ slots[x].conn = slots[u].conn => x = u)'
           BY <1>0, <2>3, SMTT(30) DEF ConnInv
        <3>3. (\A u \in Members : task[u].pc \in {"resolve", "opening", "register"} => slots[task[u].slot].conn = None)'
           BY <1>0, <2>3, <2>4, <2>9, SMTT(30) DEF ConnInv
        <3>4. (\A u \in Members : task[u].pc \in {"opening", "register"} => task[u].sess = u)'
           BY <1>0, <2>4, SMTT(30) DEF ConnInv
        <3>5. (\A u \in Members : task[u].pc \in {"execute", "running"} =>
                 task[u].sess \in Members /\ slots[task[u].slot].conn = task[u].sess)'
           BY <1>0, <1>1, <2>2, <2>3, <2>4, <2>8, <2>9, SMTT(30) DEF ConnInv
        <3>6. (\A u \in Members : task[u].pc = "running" => sess[task[u].sess].state \in {"up", "bare", "cut"})'
           BY <1>0, <2>a, <2>4, SMTT(30) DEF ConnInv
        <3> QED BY <3>1, <3>2, <3>3, <3>4, <3>5, <3>6 DEF ConnInv
     <2>12. PinInv'
        <3>1. (\A q \in Queries : task[q].pub = 0)'
           BY <1>0, <2>4, SMTT(30) DEF PinInv
        <3>2. (\A r \in Readers : task[r].pc \in ReaderPcs => task[r].pub \in 1..Len(grants))'
           BY <1>0, <1>1, <2>4, SMTT(30) DEF PinInv, ReaderPcs
        <3>3. (\A r \in Readers : task[r].pc \in {"routed", "queued", "resolve"} =>
                 /\ task[r].profile = grants[task[r].pub].profile
                 /\ grants[task[r].pub].rev <= rev[task[r].profile])'
           BY <1>0, <2>4, SMTT(30) DEF PinInv
        <3>4. (\A r \in Readers : task[r].pc \in {"opening", "register"} /\ sess[r].state \in Open =>
                 Pinned(sess[r], task[r].pub, grants, rev))'
           BY <1>0, <2>a, <2>4, SMTT(30) DEF PinInv
        <3>5. (\A x \in Members : slots[x].conn # None /\ slots[x].pub # 0 /\ sess[slots[x].conn].state = "up" =>
                 Pinned(sess[slots[x].conn], slots[x].pub, grants, rev))'
           BY <1>0, <2>a, <2>3, SMTT(30) DEF PinInv
        <3>6. (\A r \in Readers : task[r].pc \in {"execute", "running"} => slots[task[r].slot].pub = task[r].pub)'
           BY <1>0, <1>1, <2>2, <2>3, <2>4, <2>9, SMTT(30) DEF PinInv
        <3>7. (\A r \in Readers : task[r].pc \in {"running", "deliver", "served"} => task[r].read = grants[task[r].pub])'
           BY <1>0, <2>4, SMTT(30) DEF PinInv
        <3> QED BY <3>1, <3>2, <3>3, <3>4, <3>5, <3>6, <3>7 DEF PinInv
     <2>13. BehindInv'
        <3>1. \A x : Waiting(x) => Waiting(x)'
           BY <1>0, <1>1, <2>4, SMTT(30) DEF Waiting, At
        <3>2. \A i : Found(i) => Found(i)'
           BY <1>0, <2>3, <3>1, SMTT(30) DEF Found
        <3> QED BY <1>0, <1>1, <2>a, <2>4, <3>2, SMTT(30) DEF BehindInv
     <2> QED BY <2>h, <2>6, <2>10, <2>11, <2>12, <2>13 DEF IInv
  <1> QED BY <1>2, <1>3

(* A hidden session is opened under the member's name, with the profile as it is now. *)
LEMMA ResolveKeeps ==
    ASSUME IInv, NEW t \in Members, Resolve(t)
    PROVE  IInv'
  <1> USE DEF HoldPcs
  <1>0. /\ StateTypes /\ LockInv /\ HolderInv /\ ConnInv /\ PinInv /\ BehindInv /\ t \in Tasks /\ t \notin Admins
        /\ \A u \in Members : u \in Tasks /\ u \notin Admins
        /\ \A r \in Readers : r \in Members /\ r \notin Queries
        /\ \A q \in Queries : q \in Members
        /\ None \notin Tasks
        /\ UNCHANGED <<meta, entry, left>> /\ grants' = grants /\ rev' = rev /\ slots' = slots /\ entry' = entry
     BY MemberTask DEF IInv, Members, meta, Resolve
  <1>k. \A x \in Members : slots[x].holder \in Members \cup {None}
     BY <1>0, SMTT(30) DEF StateTypes, Slots
  <1> DEFINE p == task[t].profile
             n == [profile |-> p, stray |-> FALSE, rev |-> rev[p], state |-> "empty"]
  <1>1. task[t].pc = "resolve" /\ task[t] \in Requests /\ p \in Profiles /\ rev[p] \in Nat
     BY <1>0 DEF Resolve, At, LockInv, StateTypes
  <1>2. sess' = [sess EXCEPT ![t] = n] /\ task' = [task EXCEPT ![t].pc = "opening", ![t].sess = t]
     BY DEF Resolve
  <1>3. n \in Sessions
     <2> HIDE DEF p
     <2> QED BY <1>1, SMTT(30) DEF Sessions
  <1>4. /\ sess' \in [Members -> Sessions] /\ sess'[t].state = "empty" /\ sess'[t].profile = p /\ sess'[t].rev = rev[p]
        /\ \A m \in Members \ {t} : sess'[m] = sess[m]
     <2> HIDE DEF p
     <2>1. n.state = "empty" /\ n.profile = p /\ n.rev = rev[p]
        OBVIOUS
     <2> HIDE DEF n
     <2> QED BY <1>0, <1>2, <1>3, <2>1 DEF StateTypes
  <1>5. /\ task'[t].pc = "opening" /\ task'[t].sess = t /\ task'[t].slot = task[t].slot /\ task'[t].pub = task[t].pub
        /\ \A u \in Tasks \ {t} : task'[u] = task[u]
     <2>1. task \in [Tasks -> Requests]
        BY <1>0 DEF StateTypes
     <2> QED BY <1>0, <1>1, <1>2, <2>1, SMTT(30) DEF Requests
  <1>6. task' \in [Tasks -> Requests]
     <2> DEFINE v == [[task[t] EXCEPT !.pc = "opening"] EXCEPT !.sess = t]
     <2>1. task' = [task EXCEPT ![t] = v]
        BY <1>0, <1>2 DEF StateTypes
     <2>2. [task[t] EXCEPT !.pc = "opening"] \in Requests
        BY <1>1, PcsOK, FieldSet
     <2>3. v \in Requests
        BY <2>2, FieldSet
     <2> QED BY <1>0, <2>1, <2>3, TaskSet
  <1>7. StateTypes'
     BY <1>0, <1>4, <1>6, TypeStays DEF StateTypes
  <1> HIDE DEF n
  <1>8. \A u \in Members : slots[u].conn \in Members \cup {None} /\ slots[u].conn # t
     BY <1>0, <1>1, SMTT(30) DEF StateTypes, Slots, ConnInv, EarlyPcs
  <1>9. LockInv'
     BY <1>0, <1>1, <1>5, SMTT(30) DEF LockInv
  <1>h. HolderInv'
     BY <1>0, <1>k, <1>1, <1>5, SMTT(30) DEF HolderInv
  <1>10. ConnInv'
     <2>1. (\A x \in Members : slots[x].conn # None => task[slots[x].conn].pc \notin EarlyPcs)'
        BY <1>0, <1>5, <1>8, SMTT(30) DEF ConnInv
     <2>2. (\A u \in Members : task[u].pc \in {"resolve", "opening", "register"} => slots[task[u].slot].conn = None)'
        BY <1>0, <1>1, <1>5, SMTT(30) DEF ConnInv
     <2>3. (\A u \in Members : task[u].pc \in {"opening", "register"} => task[u].sess = u)'
        BY <1>0, <1>5, SMTT(30) DEF ConnInv
     <2>4. (\A u \in Members : task[u].pc \in {"execute", "running"} =>
              task[u].sess \in Members /\ slots[task[u].slot].conn = task[u].sess)'
        BY <1>0, <1>5, SMTT(30) DEF ConnInv
     <2>5. (\A u \in Members : task[u].pc = "running" => sess[task[u].sess].state \in {"up", "bare", "cut"})'
        <3> SUFFICES ASSUME NEW u \in Members, task'[u].pc = "running" PROVE sess'[task'[u].sess].state \in {"up", "bare", "cut"}
           OBVIOUS
        <3>1. /\ task'[u] = task[u] /\ task[u].slot \in Members /\ task[u].sess \in Members
              /\ slots[task[u].slot].conn = task[u].sess /\ sess[task[u].sess].state \in {"up", "bare", "cut"}
           BY <1>0, <1>5, SMTT(30) DEF ConnInv, LockInv
        <3> QED BY <1>4, <1>8, <3>1
     <2> QED BY <1>0, <2>1, <2>2, <2>3, <2>4, <2>5 DEF ConnInv
  <1>11. PinInv'
     <2>1. (\A q \in Queries : task[q].pub = 0)'
        BY <1>0, <1>5, SMTT(30) DEF PinInv
     <2>2. (\A r \in Readers : task[r].pc \in ReaderPcs => task[r].pub \in 1..Len(grants))'
        BY <1>0, <1>1, <1>5, SMTT(30) DEF PinInv, ReaderPcs
     <2>3. (\A r \in Readers : task[r].pc \in {"routed", "queued", "resolve"} =>
              /\ task[r].profile = grants[task[r].pub].profile
              /\ grants[task[r].pub].rev <= rev[task[r].profile])'
        BY <1>0, <1>5, SMTT(30) DEF PinInv
     <2>4. (\A r \in Readers : task[r].pc \in {"opening", "register"} /\ sess[r].state \in Open =>
              Pinned(sess[r], task[r].pub, grants, rev))'
        <3> SUFFICES ASSUME NEW r \in Readers, task'[r].pc \in {"opening", "register"}, sess'[r].state \in Open
                     PROVE  Pinned(sess'[r], task'[r].pub, grants', rev')
           OBVIOUS
        <3>1. CASE r # t
           BY <1>0, <1>4, <1>5, <3>1, SMTT(30) DEF PinInv
        <3>2. CASE r = t
           <4>1. task[t].pub \in 1..Len(grants) /\ p = grants[task[t].pub].profile /\ grants[task[t].pub].rev <= rev[p]
              BY <1>0, <1>1, <3>2 DEF PinInv, ReaderPcs
           <4> HIDE DEF p
           <4>2. sess'[t].rev <= rev[sess'[t].profile]
              BY <1>1, <1>4, SMTT(30)
           <4> QED BY <1>0, <1>4, <1>5, <3>2, <4>1, <4>2 DEF Pinned
        <3> QED BY <3>1, <3>2
     <2>5. (\A x \in Members : slots[x].conn # None /\ slots[x].pub # 0 /\ sess[slots[x].conn].state = "up" =>
              Pinned(sess[slots[x].conn], slots[x].pub, grants, rev))'
        BY <1>0, <1>4, <1>8, SMTT(30) DEF PinInv
     <2>6. (\A r \in Readers : task[r].pc \in {"execute", "running"} => slots[task[r].slot].pub = task[r].pub)'
        BY <1>0, <1>5, SMTT(30) DEF PinInv
     <2>7. (\A r \in Readers : task[r].pc \in {"running", "deliver", "served"} => task[r].read = grants[task[r].pub])'
        BY <1>0, <1>5, SMTT(30) DEF PinInv
     <2> QED BY <2>1, <2>2, <2>3, <2>4, <2>5, <2>6, <2>7 DEF PinInv
  <1>12. BehindInv'
     <2>1. \A x : Waiting(x) => Waiting(x)'
        BY <1>0, <1>1, <1>5, SMTT(30) DEF Waiting, At
     <2>2. \A i : Found(i) => Found(i)'
        BY <1>0, <2>1 DEF Found
     <2> QED BY <1>0, <1>4, <1>5, <2>2, SMTT(30) DEF BehindInv
  <1> QED BY <1>h, <1>7, <1>9, <1>10, <1>11, <1>12 DEF IInv

LEMMA UnlockOK ==
    ASSUME IInv, NEW t \in Members, task[t].pc \in HoldPcs, Unlock(t)
    PROVE  slots' \in [Members -> Slots]
  <1>1. task[t].slot \in Members /\ slots \in [Members -> Slots] /\ None \in Members \cup {None}
     BY DEF IInv, LockInv, StateTypes
  <1>2. slots' = [slots EXCEPT ![task[t].slot].holder = None]
     BY DEF Unlock
  <1> QED BY <1>1, <1>2, HolderSet

(* The member is past the connection. *)
LEMMA PastKeeps ==
    ASSUME IInv, NEW t \in Members, task[t].pc \in HoldPcs, Unlock(t), Past(t),
           UNCHANGED meta, entry' = entry, left' = left, sess' \in [Members -> Sessions],
           \A m \in Members \ {t} : sess'[m] = sess[m],
           sess'[t] = sess[t] \/ (task[t].pc = "opening" /\ sess'[t].state = "closed"),
           task[t].pc \in {"opening", "register"} => sess'[t].state \notin Open
    PROVE  IInv'
  <1>1. StateTypes /\ t \in Tasks /\ slots' \in [Members -> Slots]
     BY UnlockOK, MemberTask DEF IInv
  <1>2. PICK w \in Requests :
             /\ task' = [task EXCEPT ![t] = w] /\ w.slot = None /\ w.pub = 0
             /\ w.pc \in {"done", "after"} /\ (t \in Readers => w.pc = "done")
     BY <1>1, PastOK
  <1>3. task' \in [Tasks -> Requests] /\ task'[t] = w /\ \A u \in Tasks \ {t} : task'[u] = task[u]
     BY <1>1, <1>2, TaskSet
  <1>4. StateTypes'
     BY <1>1, <1>3, TypeStays DEF StateTypes
  <1>5. UNCHANGED meta /\ entry' = entry /\ task'[t].pc \in {"done", "after"} /\ task'[t].pub = 0
     BY <1>2, <1>3
  <1>6. /\ \A m \in Members : \/ /\ sess'[m].state = sess[m].state
                                 /\ sess'[m].profile = sess[m].profile /\ sess'[m].rev = sess[m].rev
                              \/ m = t /\ task[t].pc = "opening" /\ sess'[m].state = "closed"
        /\ \A m \in Members : sess'[m].state \in Open /\ ~sess'[m].stray =>
               ~sess[m].stray /\ (m = t => task[t].pc \notin {"opening", "register"})
     OBVIOUS
  <1> QED BY <1>3, <1>4, <1>5, <1>6, ReleaseKeeps

LEMMA ResolveFailsKeeps ==
    ASSUME IInv, NEW t \in Members, ResolveFails(t)
    PROVE  IInv'
  <1>1. /\ task[t].pc = "resolve" /\ Unlock(t) /\ Past(t) /\ sess' = sess
        /\ UNCHANGED meta /\ entry' = entry /\ left' = left
     BY DEF ResolveFails, At
  <1>2. sess' \in [Members -> Sessions]
     BY <1>1 DEF IInv, StateTypes
  <1>3. /\ task[t].pc \in HoldPcs /\ task[t].pc \notin {"opening", "register"}
     BY <1>1 DEF HoldPcs
  <1> QED BY <1>1, <1>2, <1>3, PastKeeps

LEMMA OpenFailsKeeps ==
    ASSUME IInv, NEW t \in Members, OpenFails(t)
    PROVE  IInv'
  <1>1. /\ task[t].pc = "opening" /\ Unlock(t) /\ Past(t) /\ sess' = Closed(task[t].sess)
        /\ UNCHANGED meta /\ entry' = entry /\ left' = left
     BY DEF OpenFails, At
  <1>2. StateTypes /\ task[t].sess = t
     BY <1>1 DEF IInv, ConnInv
  <1>3. /\ sess' \in [Members -> Sessions] /\ \A m \in Members : m # t => sess'[m] = sess[m]
        /\ \A m \in Members : sess'[m].state \in Open => m # t
     BY <1>1, <1>2, ClosedOK
  <1>4. sess'[t].state = "closed"
     BY <1>1, <1>2 DEF Closed, NoSession, Gone
  <1>5. task[t].pc \in HoldPcs /\ sess'[t].state \notin Open
     BY <1>1, <1>4 DEF HoldPcs
  <1> QED BY <1>1, <1>3, <1>4, <1>5, PastKeeps

(* The driver answers the open. *)
LEMMA OpenedKeeps ==
    ASSUME IInv, NEW t \in Members, Opened(t)
    PROVE  IInv'
  <1>0. /\ StateTypes /\ LockInv /\ HolderInv /\ ConnInv /\ PinInv /\ BehindInv /\ t \in Tasks /\ t \notin Admins
        /\ \A u \in Members : u \in Tasks /\ u \notin Admins
        /\ \A r \in Readers : r \in Members /\ r \notin Queries
        /\ \A q \in Queries : q \in Members
        /\ None \notin Tasks
     BY MemberTask DEF IInv, Members
  <1>k. \A x \in Members : slots[x].holder \in Members \cup {None}
     BY <1>0, SMTT(30) DEF StateTypes, Slots
  <1>1. task[t].pc = "opening" /\ UNCHANGED meta /\ entry' = entry /\ left' = left
     BY DEF Opened, At
  <1>2. CASE sess[t].state # "empty"
     <2>1. Unlock(t) /\ Past(t) /\ sess' = sess /\ sess' \in [Members -> Sessions]
           /\ sess[t].state \notin {"up", "bare"}
        BY <1>0, <1>1, <1>2 DEF Opened, StateTypes, BehindInv
     <2>2. task[t].pc \in HoldPcs /\ sess'[t].state \notin Open
        BY <1>1, <1>2, <2>1 DEF HoldPcs
     <2> QED BY <1>1, <2>1, <2>2, PastKeeps
  <1>3. CASE sess[t].state = "empty"
     <2> USE DEF HoldPcs
     <2>1. sess' = [sess EXCEPT ![t].state = "up"] /\ Goto(t, "register")
        BY <1>3 DEF Opened
     <2>2. slots' = slots /\ grants' = grants /\ rev' = rev /\ entry' = entry
        BY <1>1, <1>3 DEF Opened, meta
     <2>3. /\ sess' \in [Members -> Sessions] /\ sess'[t].state = "up" /\ sess'[t].stray = sess[t].stray
           /\ sess'[t].profile = sess[t].profile /\ sess'[t].rev = sess[t].rev
           /\ \A m \in Members \ {t} : sess'[m] = sess[m]
        <3> DEFINE v == [sess[t] EXCEPT !.state = "up"]
        <3>1. sess \in [Members -> Sessions]
           BY <1>0 DEF StateTypes
        <3>2. v \in Sessions /\ v.state = "up" /\ v.stray = sess[t].stray /\ v.profile = sess[t].profile /\ v.rev = sess[t].rev
           BY <3>1, SMTT(30) DEF Sessions
        <3>3. sess' = [sess EXCEPT ![t] = v]
           BY <2>1
        <3> HIDE DEF v
        <3>4. sess' \in [Members -> Sessions] /\ sess'[t] = v /\ \A m \in Members \ {t} : sess'[m] = sess[m]
           BY <3>1, <3>2, <3>3
        <3> QED BY <3>2, <3>4
     <2>4. /\ task' \in [Tasks -> Requests] /\ task'[t].pc = "register" /\ \A u \in Tasks \ {t} : task'[u] = task[u]
           /\ task'[t].slot = task[t].slot /\ task'[t].sess = task[t].sess /\ task'[t].pub = task[t].pub
        BY <1>0, <2>1, TaskMoved
     <2>5. StateTypes'
        BY <1>0, <1>1, <2>2, <2>3, <2>4, TypeStays DEF StateTypes
     <2>6. \A u \in Members : slots[u].conn \in Members \cup {None} /\ slots[u].conn # t
        BY <1>0, <1>1, SMTT(30) DEF StateTypes, Slots, ConnInv, EarlyPcs
     <2>7. LockInv'
        BY <1>0, <1>1, <2>2, <2>4, SMTT(30) DEF LockInv
     <2>h. HolderInv'
        BY <1>0, <1>k, <1>1, <2>2, <2>4, SMTT(30) DEF HolderInv
     <2>8. ConnInv'
        <3>1. (\A x \in Members : slots[x].conn # None => task[slots[x].conn].pc \notin EarlyPcs)'
           BY <1>0, <2>2, <2>4, <2>6, SMTT(30) DEF ConnInv
        <3>2. (\A u \in Members : task[u].pc = "running" => sess[task[u].sess].state \in {"up", "bare", "cut"})'
           BY <1>0, <2>3, <2>4, SMTT(30) DEF ConnInv
        <3> QED BY <1>0, <1>1, <2>2, <2>4, <3>1, <3>2, SMTT(30) DEF ConnInv
     <2>9. PinInv'
        <3>1. (\A r \in Readers : task[r].pc \in {"opening", "register"} /\ sess[r].state \in Open =>
                 Pinned(sess[r], task[r].pub, grants, rev))'
           <4> SUFFICES ASSUME NEW r \in Readers, task'[r].pc \in {"opening", "register"}, sess'[r].state \in Open
                        PROVE  Pinned(sess'[r], task'[r].pub, grants', rev')
              OBVIOUS
           <4>1. CASE r # t
              BY <1>0, <2>2, <2>3, <2>4, <4>1, SMTT(30) DEF PinInv
           <4>2. CASE r = t
              <5>1. Pinned(sess[t], task[t].pub, grants, rev)
                 BY <1>0, <1>1, <1>3, <4>2 DEF PinInv
              <5> QED BY <2>2, <2>3, <2>4, <4>2, <5>1 DEF Pinned
           <4> QED BY <4>1, <4>2
        <3>2. (\A x \in Members : slots[x].conn # None /\ slots[x].pub # 0 /\ sess[slots[x].conn].state = "up" =>
                 Pinned(sess[slots[x].conn], slots[x].pub, grants, rev))'
           BY <1>0, <2>2, <2>3, <2>6, SMTT(30) DEF PinInv
        <3>3. (\A r \in Readers : task[r].pc \in ReaderPcs => task[r].pub \in 1..Len(grants))'
           BY <1>0, <1>1, <2>2, <2>4, SMTT(30) DEF PinInv, ReaderPcs
        <3>4. (\A r \in Readers : task[r].pc \in {"running", "deliver", "served"} => task[r].read = grants[task[r].pub])'
           BY <1>0, <2>2, <2>4, SMTT(30) DEF PinInv
        <3> QED BY <1>0, <2>2, <2>4, <3>1, <3>2, <3>3, <3>4, SMTT(30) DEF PinInv
     <2>10. BehindInv'
        <3>1. \A x : Waiting(x) => Waiting(x)'
           BY <1>0, <1>1, <2>4, SMTT(30) DEF Waiting, At
        <3>2. \A i : Found(i) => Found(i)'
           BY <2>2, <3>1 DEF Found
        <3> QED BY <1>0, <2>3, <2>4, <3>2, SMTT(30) DEF BehindInv
     <2> QED BY <2>h, <2>5, <2>7, <2>8, <2>9, <2>10 DEF IInv
  <1> QED BY <1>2, <1>3

(* The connection enters the member's slot, which may have left the map. *)
LEMMA RegisterKeeps ==
    ASSUME IInv, NEW t \in Members, Register(t)
    PROVE  IInv'
  <1> USE DEF HoldPcs
  <1> DEFINE s == task[t].slot
             b == sess[t].state \in Open /\ s # entry /\ ~Waiting(s)
  <1>0. /\ StateTypes /\ LockInv /\ HolderInv /\ ConnInv /\ PinInv /\ BehindInv /\ t \in Tasks /\ t \notin Admins
        /\ \A u \in Members : u \in Tasks /\ u \notin Admins
        /\ \A r \in Readers : r \in Members /\ r \notin Queries
        /\ \A q \in Queries : q \in Members
        /\ None \notin Tasks
     BY MemberTask DEF IInv, Members
  <1>k. \A x \in Members : slots[x].holder \in Members \cup {None}
     BY <1>0, SMTT(30) DEF StateTypes, Slots
  <1>1. /\ task[t].pc = "register" /\ s \in Members /\ slots[s].holder = t /\ slots[s].conn = None
        /\ task[t].sess = t /\ task[t] \in Requests
     BY <1>0 DEF Register, At, LockInv, ConnInv, StateTypes
  <1>2. /\ slots' = [slots EXCEPT ![s].conn = t, ![s].pub = task[t].pub]
        /\ sess' = [sess EXCEPT ![t].stray = b] /\ Goto(t, "execute")
     BY DEF Register
  <1>3. grants' = grants /\ rev' = rev /\ entry' = entry /\ left' = left /\ UNCHANGED meta
     BY DEF Register, meta
  <1>4. /\ slots' \in [Members -> Slots] /\ slots'[s].conn = t /\ slots'[s].pub = task[t].pub /\ slots'[s].holder = t
        /\ \A x \in Members \ {s} : slots'[x] = slots[x]
     <2> DEFINE z == [slots[s] EXCEPT !.conn = t]
                v == [z EXCEPT !.pub = task[t].pub]
     <2>1. slots[s] \in Slots /\ task[t].pub \in Nat /\ slots \in [Members -> Slots]
        BY <1>0, <1>1, SMTT(30) DEF StateTypes, Requests
     <2>4. slots' = [slots EXCEPT ![s] = v]
        BY <1>1, <1>2, <2>1
     <2>2. z \in Slots /\ z.conn = t /\ z.holder = slots[s].holder
        BY <2>1, SMTT(30) DEF Slots
     <2> HIDE DEF z
     <2>3. v \in Slots /\ v.conn = t /\ v.pub = task[t].pub /\ v.holder = slots[s].holder
        BY <2>1, <2>2, SMTT(30) DEF Slots
     <2> HIDE DEF v, s
     <2>5. slots' \in [Members -> Slots] /\ slots'[s] = v /\ \A x \in Members \ {s} : slots'[x] = slots[x]
        BY <1>1, <2>1, <2>3, <2>4
     <2> QED BY <1>1, <2>3, <2>5
  <1>5. /\ sess' \in [Members -> Sessions] /\ sess'[t].state = sess[t].state
        /\ sess'[t].profile = sess[t].profile /\ sess'[t].rev = sess[t].rev /\ sess'[t].stray = b
        /\ \A m \in Members \ {t} : sess'[m] = sess[m]
     <2> DEFINE v == [sess[t] EXCEPT !.stray = b]
     <2>1. sess \in [Members -> Sessions] /\ b \in BOOLEAN
        BY <1>0 DEF StateTypes
     <2>2. sess' = [sess EXCEPT ![t] = v]
        BY <1>2
     <2> HIDE DEF b
     <2>3. v \in Sessions /\ v.stray = b /\ v.state = sess[t].state /\ v.profile = sess[t].profile /\ v.rev = sess[t].rev
        BY <2>1, SMTT(30) DEF Sessions
     <2> HIDE DEF v
     <2>4. sess' \in [Members -> Sessions] /\ sess'[t] = v /\ \A m \in Members \ {t} : sess'[m] = sess[m]
        BY <2>1, <2>2, <2>3
     <2> QED BY <2>3, <2>4
  <1>6. /\ task' \in [Tasks -> Requests] /\ task'[t].pc = "execute" /\ \A u \in Tasks \ {t} : task'[u] = task[u]
        /\ task'[t].slot = s /\ task'[t].sess = t /\ task'[t].pub = task[t].pub
     BY <1>0, <1>1, <1>2, TaskMoved
  <1>7. StateTypes'
     BY <1>0, <1>3, <1>4, <1>5, <1>6, TypeStays DEF StateTypes
  <1>8. \A u \in Members : slots[u].conn \in Members \cup {None} /\ slots[u].conn # t
     BY <1>0, <1>1, SMTT(30) DEF StateTypes, Slots, ConnInv, EarlyPcs
  <1>9. \A u \in Members : u # t /\ task[u].pc \in HoldPcs => task[u].slot \in Members \ {s}
     BY <1>0, <1>1, SMTT(30) DEF LockInv
  <1>s. task[t].slot = s
     OBVIOUS
  <1> HIDE DEF s
  <1>10. LockInv'
     BY <1>0, <1>1, <1>4, <1>6, <1>9, SMTT(30) DEF LockInv
  <1>h. HolderInv'
     BY <1>0, <1>k, <1>1, <1>4, <1>6, SMTT(30) DEF HolderInv
  <1>11. ConnInv'
     <2>1. (\A x \in Members : slots[x].conn # None => task[slots[x].conn].pc \notin EarlyPcs)'
        <3> SUFFICES ASSUME NEW x \in Members, slots'[x].conn # None PROVE task'[slots'[x].conn].pc \notin EarlyPcs
           OBVIOUS
        <3>1. CASE x = s
           BY <1>4, <1>6, <3>1 DEF EarlyPcs
        <3>2. CASE x # s
           BY <1>0, <1>4, <1>6, <1>8, <3>2, SMTT(30) DEF ConnInv
        <3> QED BY <3>1, <3>2
     <2>2. (\A x, u \in Members : slots[x].conn # None /\ slots[x].conn = slots[u].conn => x = u)'
        BY <1>0, <1>4, <1>8, SMTT(30) DEF ConnInv
     <2>3. (\A u \in Members : task[u].pc \in {"resolve", "opening", "register"} => slots[task[u].slot].conn = None)'
        BY <1>0, <1>4, <1>6, <1>9, SMTT(30) DEF ConnInv
     <2>4. (\A u \in Members : task[u].pc \in {"opening", "register"} => task[u].sess = u)'
        BY <1>0, <1>6, SMTT(30) DEF ConnInv
     <2>5. (\A u \in Members : task[u].pc \in {"execute", "running"} =>
              task[u].sess \in Members /\ slots[task[u].slot].conn = task[u].sess)'
        BY <1>0, <1>1, <1>4, <1>6, <1>9, SMTT(30) DEF ConnInv
     <2>6. (\A u \in Members : task[u].pc = "running" => sess[task[u].sess].state \in {"up", "bare", "cut"})'
        BY <1>0, <1>5, <1>6, SMTT(30) DEF ConnInv
     <2> QED BY <2>1, <2>2, <2>3, <2>4, <2>5, <2>6 DEF ConnInv
  <1>12. PinInv'
     <2>1. (\A q \in Queries : task[q].pub = 0)'
        BY <1>0, <1>6, SMTT(30) DEF PinInv
     <2>2. (\A r \in Readers : task[r].pc \in ReaderPcs => task[r].pub \in 1..Len(grants))'
        BY <1>0, <1>1, <1>3, <1>6, SMTT(30) DEF PinInv, ReaderPcs
     <2>3. (\A r \in Readers : task[r].pc \in {"routed", "queued", "resolve"} =>
              /\ task[r].profile = grants[task[r].pub].profile
              /\ grants[task[r].pub].rev <= rev[task[r].profile])'
        BY <1>0, <1>3, <1>6, SMTT(30) DEF PinInv
     <2>4. (\A r \in Readers : task[r].pc \in {"opening", "register"} /\ sess[r].state \in Open =>
              Pinned(sess[r], task[r].pub, grants, rev))'
        BY <1>0, <1>3, <1>5, <1>6, SMTT(30) DEF PinInv
     <2>5. (\A x \in Members : slots[x].conn # None /\ slots[x].pub # 0 /\ sess[slots[x].conn].state = "up" =>
              Pinned(sess[slots[x].conn], slots[x].pub, grants, rev))'
        <3> SUFFICES ASSUME NEW x \in Members, slots'[x].conn # None, slots'[x].pub # 0, sess'[slots'[x].conn].state = "up"
                     PROVE  Pinned(sess'[slots'[x].conn], slots'[x].pub, grants', rev')
           OBVIOUS
        <3>1. CASE x = s
           <4>1. task[t].pub # 0 /\ sess[t].state = "up"
              BY <1>4, <1>5, <3>1
           <4>2. t \in Readers
              BY <1>0, <4>1 DEF PinInv, Members
           <4>3. Pinned(sess[t], task[t].pub, grants, rev)
              BY <1>0, <1>1, <4>1, <4>2 DEF PinInv
           <4> QED BY <1>3, <1>4, <1>5, <3>1, <4>3 DEF Pinned
        <3>2. CASE x # s
           BY <1>0, <1>3, <1>4, <1>5, <1>8, <3>2, SMTT(30) DEF PinInv
        <3> QED BY <3>1, <3>2
     <2>6. (\A r \in Readers : task[r].pc \in {"execute", "running"} => slots[task[r].slot].pub = task[r].pub)'
        BY <1>0, <1>4, <1>6, <1>9, SMTT(30) DEF PinInv
     <2>7. (\A r \in Readers : task[r].pc \in {"running", "deliver", "served"} => task[r].read = grants[task[r].pub])'
        BY <1>0, <1>3, <1>6, SMTT(30) DEF PinInv
     <2> QED BY <2>1, <2>2, <2>3, <2>4, <2>5, <2>6, <2>7 DEF PinInv
  <1>13. BehindInv'
     <2>1. \A x : Waiting(x) => Waiting(x)'
        BY <1>0, <1>1, <1>6, SMTT(30) DEF Waiting, At
     <2>2. (\A u \in Members : task[u].pc = "register" => sess[u].state # "empty")'
        BY <1>0, <1>5, <1>6, SMTT(30) DEF BehindInv
     <2>3. (\A u \in Members : task[u].pc = "opening" => sess[u].state \notin {"up", "bare"})'
        BY <1>0, <1>5, <1>6, SMTT(30) DEF BehindInv
     <2>4. ASSUME NEW i \in Members, sess'[i].state \in Open, ~sess'[i].stray
           PROVE  task'[i].pc \in {"opening", "register"} \/ Found(i)'
        <3>1. CASE i = t
           <4>1. sess[t].state \in Open
              BY <1>5, <2>4, <3>1
           <4>2. s = entry \/ Waiting(s)
              BY <1>5, <2>4, <3>1, <4>1
           <4> QED BY <1>1, <1>3, <1>4, <2>1, <3>1, <4>2 DEF Found
        <3>2. CASE i # t
           <4>1. sess'[i] = sess[i] /\ task'[i] = task[i]
              BY <1>0, <1>5, <1>6, <3>2
           <4>2. CASE Found(i)
              <5>1. PICK x \in Members : slots[x].conn = i /\ (x = entry \/ Waiting(x))
                 BY <4>2 DEF Found
              <5>2. x # s
                 BY <1>0, <1>1, <5>1 DEF Tasks, Members
              <5> QED BY <1>3, <1>4, <2>1, <5>1, <5>2 DEF Found
           <4> QED BY <1>0, <2>4, <4>1, <4>2 DEF BehindInv
        <3> QED BY <3>1, <3>2
     <2> QED BY <2>2, <2>3, <2>4 DEF BehindInv
  <1> QED BY <1>h, <1>7, <1>10, <1>11, <1>12, <1>13 DEF IInv

(* A statement starts on the slot's connection; an AI read's grant is still the room's, so
   that the connection's revision is squeezed between the grant's and the profile's. *)
LEMMA ExecuteKeeps ==
    ASSUME IInv, NEW t \in Members, Execute(t)
    PROVE  IInv'
  <1> USE DEF HoldPcs
  <1>0. /\ StateTypes /\ LockInv /\ HolderInv /\ ConnInv /\ PinInv /\ BehindInv /\ t \in Tasks /\ t \notin Admins
        /\ \A u \in Members : u \in Tasks /\ u \notin Admins
        /\ \A r \in Readers : r \in Members /\ r \notin Queries
        /\ \A q \in Queries : q \in Members
        /\ None \notin Tasks
     BY MemberTask DEF IInv, Members
  <1>k. \A x \in Members : slots[x].holder \in Members \cup {None}
     BY <1>0, SMTT(30) DEF StateTypes, Slots
  <1>1. /\ task[t].pc = "execute" /\ task[t].sess \in Members /\ task[t].slot \in Members
        /\ slots[task[t].slot].conn = task[t].sess /\ task[t] \in Requests
        /\ UNCHANGED meta /\ entry' = entry /\ left' = left /\ sess' = sess /\ grants' = grants /\ rev' = rev
     BY <1>0 DEF Execute, At, LockInv, ConnInv, StateTypes, meta
  <1>2. CASE Unlock(t) /\ Past(t)
     <2>1. sess' \in [Members -> Sessions] /\ task[t].pc \in HoldPcs
        BY <1>0, <1>1 DEF StateTypes
     <2> QED BY <1>1, <1>2, <2>1, PastKeeps
  <1>3. CASE ~(Unlock(t) /\ Past(t))
     <2> DEFINE c == task[t].sess
                x == IF t \in Queries THEN None ELSE [profile |-> sess[c].profile, rev |-> sess[c].rev]
     <2>1. /\ sess[c].state = "up" /\ (t \in Readers => Valid(task[t].pub)) /\ slots' = slots
           /\ task' = [task EXCEPT ![t].pc = "running", ![t].read = x]
        BY <1>3 DEF Execute
     <2>2. x \in {None} \cup [profile : Profiles \cup {None}, rev : Nat]
        BY <1>0, <1>1, SMTT(30) DEF StateTypes, Sessions
     <2>3. t \in Readers => x = grants[task[t].pub]
        <3> SUFFICES ASSUME t \in Readers PROVE x = grants[task[t].pub]
           OBVIOUS
        <3>1. task[t].pub \in 1..Len(grants) /\ slots[task[t].slot].pub = task[t].pub /\ grants \in Seq([profile : Profiles, rev : Nat])
           BY <1>0, <1>1 DEF PinInv, ReaderPcs, StateTypes
        <3>2. Pinned(sess[c], task[t].pub, grants, rev)
           <4>1. c # None /\ task[t].pub # 0
              BY <1>0, <1>1, <3>1
           <4> QED BY <1>0, <1>1, <2>1, <3>1, <4>1 DEF PinInv
        <3>3. grants[task[t].pub] \in [profile : Profiles, rev : Nat] /\ grants[task[t].pub].rev \in Nat
           BY <3>1, GrantRows
        <3>4. room.profile = grants[task[t].pub].profile /\ rev[room.profile] = grants[task[t].pub].rev
           BY <2>1 DEF Valid
        <3>5. sess[c].rev \in Nat
           BY <1>0, <1>1, SMTT(30) DEF StateTypes, Sessions
        <3>6. sess[c].profile = grants[task[t].pub].profile /\ sess[c].rev = grants[task[t].pub].rev
           BY <3>2, <3>3, <3>4, <3>5, SMTT(30) DEF Pinned
        <3>7. x = [profile |-> grants[task[t].pub].profile, rev |-> grants[task[t].pub].rev]
           BY <1>0, <3>6
        <3>8. \A g \in [profile : Profiles, rev : Nat] : g = [profile |-> g.profile, rev |-> g.rev]
           OBVIOUS
        <3> QED BY <3>3, <3>7, <3>8
     <2> HIDE DEF x
     <2>4. /\ task'[t].pc = "running" /\ task'[t].read = x /\ task'[t].pub = task[t].pub
           /\ task'[t].slot = task[t].slot /\ task'[t].sess = c
           /\ \A u \in Tasks \ {t} : task'[u] = task[u]
        <3>1. task \in [Tasks -> Requests]
           BY <1>0 DEF StateTypes
        <3> QED BY <1>0, <1>1, <2>1, <3>1, SMTT(30) DEF Requests
     <2>5. task' \in [Tasks -> Requests]
        <3> DEFINE v == [[task[t] EXCEPT !.pc = "running"] EXCEPT !.read = x]
        <3>1. task' = [task EXCEPT ![t] = v]
           BY <1>0, <2>1 DEF StateTypes
        <3>2. [task[t] EXCEPT !.pc = "running"] \in Requests
           BY <1>1, PcsOK, FieldSet
        <3>3. v \in Requests
           BY <2>2, <3>2, FieldSet
        <3> QED BY <1>0, <3>1, <3>3, TaskSet
     <2>6. slots' = slots /\ sess[c].state = "up"
        BY <2>1
     <2>7. StateTypes'
        BY <1>0, <1>1, <2>5, <2>6, TypeStays DEF StateTypes
     <2>8. LockInv'
        BY <1>0, <1>1, <2>4, <2>6, SMTT(30) DEF LockInv
     <2>h. HolderInv'
        BY <1>0, <1>k, <1>1, <2>4, <2>6, SMTT(30) DEF HolderInv
     <2>9. ConnInv'
        <3>1. \A u \in Members : slots[u].conn \in Members \cup {None}
           BY <1>0, SMTT(30) DEF StateTypes, Slots
        <3>2. (\A y \in Members : slots[y].conn # None => task[slots[y].conn].pc \notin EarlyPcs)'
           BY <1>0, <2>4, <2>6, <3>1, SMTT(30) DEF ConnInv, EarlyPcs
        <3>3. (\A u \in Members : task[u].pc \in {"execute", "running"} =>
                 task[u].sess \in Members /\ slots[task[u].slot].conn = task[u].sess)'
           BY <1>0, <1>1, <2>4, <2>6, SMTT(30) DEF ConnInv
        <3>4. (\A u \in Members : task[u].pc = "running" => sess[task[u].sess].state \in {"up", "bare", "cut"})'
           BY <1>0, <1>1, <2>4, <2>6, SMTT(30) DEF ConnInv
        <3> QED BY <1>0, <1>1, <2>4, <2>6, <3>2, <3>3, <3>4, SMTT(30) DEF ConnInv
     <2>10. PinInv'
        <3>1. (\A r \in Readers : task[r].pc \in ReaderPcs => task[r].pub \in 1..Len(grants))'
           BY <1>0, <1>1, <2>4, SMTT(30) DEF PinInv, ReaderPcs
        <3>2. (\A r \in Readers : task[r].pc \in {"opening", "register"} /\ sess[r].state \in Open =>
                 Pinned(sess[r], task[r].pub, grants, rev))'
           BY <1>0, <1>1, <2>4, SMTT(30) DEF PinInv
        <3>3. (\A y \in Members : slots[y].conn # None /\ slots[y].pub # 0 /\ sess[slots[y].conn].state = "up" =>
                 Pinned(sess[slots[y].conn], slots[y].pub, grants, rev))'
           BY <1>0, <1>1, <2>6, SMTT(30) DEF PinInv
        <3>4. (\A r \in Readers : task[r].pc \in {"running", "deliver", "served"} => task[r].read = grants[task[r].pub])'
           BY <1>0, <1>1, <2>3, <2>4, SMTT(30) DEF PinInv
        <3>5. (\A r \in Readers : task[r].pc \in {"execute", "running"} => slots[task[r].slot].pub = task[r].pub)'
           BY <1>0, <1>1, <2>4, <2>6, SMTT(30) DEF PinInv
        <3> QED BY <1>0, <1>1, <2>4, <3>1, <3>2, <3>3, <3>4, <3>5, SMTT(30) DEF PinInv
     <2>11. BehindInv'
        <3>1. \A y : Waiting(y) => Waiting(y)'
           BY <1>0, <1>1, <2>4, SMTT(30) DEF Waiting, At
        <3>2. \A i : Found(i) => Found(i)'
           BY <1>1, <2>6, <3>1 DEF Found
        <3> QED BY <1>0, <1>1, <2>4, <3>2, SMTT(30) DEF BehindInv
     <2> QED BY <2>h, <2>7, <2>8, <2>9, <2>10, <2>11 DEF IInv
  <1> QED BY <1>2, <1>3

(* The statement ends, or fails with its connection. *)
LEMMA FinishKeeps ==
    ASSUME IInv, NEW t \in Members, Finish(t)
    PROVE  IInv'
  <1>1. /\ task[t].pc = "running" /\ Unlock(t) /\ StateTypes /\ t \in Tasks /\ task[t] \in Requests
        /\ UNCHANGED meta /\ entry' = entry /\ left' = left /\ sess' = sess
     BY MemberTask DEF Finish, At, IInv, StateTypes
  <1>2. sess' \in [Members -> Sessions] /\ task[t].pc \in HoldPcs
     BY <1>1 DEF StateTypes, HoldPcs
  <1>3. CASE Past(t)
     BY <1>1, <1>2, <1>3, PastKeeps
  <1>4. CASE ~Past(t)
     <2> DEFINE g == task[t].pub
                x == task[t].read
     <2>1. t \in Readers /\ task' = [task EXCEPT ![t] = Off("deliver", g, x, "idle")]
        BY <1>4 DEF Finish
     <2>2. g \in Nat /\ x \in {None} \cup [profile : Profiles \cup {None}, rev : Nat]
        BY <1>1, SMTT(30) DEF Requests
     <2>g. task[t].pub = g /\ task[t].read = x
        OBVIOUS
     <2> HIDE DEF g, x
     <2>3. LET w == Off("deliver", g, x, "idle") IN w \in Requests /\ w.pc = "deliver" /\ w.pub = g /\ w.read = x
        BY <2>2, OffOK
     <2>4. /\ task' \in [Tasks -> Requests] /\ \A u \in Tasks \ {t} : task'[u] = task[u]
           /\ task'[t].pc = "deliver" /\ task'[t].pub = g /\ task'[t].read = x
        BY <1>1, <2>1, <2>3, TaskSet
     <2>5. slots' \in [Members -> Slots]
        BY <1>1, <1>2, UnlockOK
     <2>6. StateTypes'
        BY <1>1, <1>2, <2>4, <2>5, TypeStays DEF StateTypes
     <2>7. t \notin Queries /\ task[t].pc \notin {"opening", "register"}
        BY <1>1, <2>1
     <2> QED BY <1>1, <1>2, <2>g, <2>4, <2>6, <2>7, ReleaseKeeps
  <1> QED BY <1>3, <1>4

(* The request gives its statement up, with or without its connection. *)
LEMMA TimesOutKeeps ==
    ASSUME IInv, NEW t \in Members, TimesOut(t)
    PROVE  IInv'
  <1>1. /\ task[t].pc = "running" /\ Unlock(t) /\ Past(t) /\ StateTypes /\ t \in Tasks
        /\ UNCHANGED meta /\ entry' = entry /\ left' = left
        /\ sess' = sess \/ sess' = Bared(task[t].sess)
     BY MemberTask DEF TimesOut, At, IInv
  <1>2. /\ sess' \in [Members -> Sessions]
        /\ \A m \in Members : \/ sess'[m] = sess[m]
                              \/ /\ sess[m].state = "up" /\ sess'[m].state = "bare" /\ sess'[m].stray = sess[m].stray
                                 /\ sess'[m].profile = sess[m].profile /\ sess'[m].rev = sess[m].rev
     BY <1>1, BaredOK DEF StateTypes
  <1>3. task[t].pc \in HoldPcs /\ task[t].pc \notin {"opening", "register"}
     BY <1>1 DEF HoldPcs
  <1>4. PICK w \in Requests :
             /\ task' = [task EXCEPT ![t] = w] /\ w.slot = None /\ w.pub = 0
             /\ w.pc \in {"done", "after"} /\ (t \in Readers => w.pc = "done")
     BY <1>1, PastOK
  <1>5. task' \in [Tasks -> Requests] /\ task'[t] = w /\ \A u \in Tasks \ {t} : task'[u] = task[u]
     BY <1>1, <1>4, TaskSet
  <1>6. slots' \in [Members -> Slots]
     BY <1>1, <1>3, UnlockOK
  <1>7. StateTypes'
     BY <1>1, <1>2, <1>5, <1>6, TypeStays DEF StateTypes
  <1>8. task'[t].pc \in {"done", "after"} /\ task'[t].pub = 0
     BY <1>4, <1>5
  <1>9. /\ \A m \in Members : \/ /\ sess'[m].state = sess[m].state
                                 /\ sess'[m].profile = sess[m].profile /\ sess'[m].rev = sess[m].rev
                              \/ m = t /\ task[t].pc = "opening" /\ sess'[m].state = "closed"
                              \/ /\ sess[m].state = "up" /\ sess'[m].state = "bare"
                                 /\ sess'[m].profile = sess[m].profile /\ sess'[m].rev = sess[m].rev
        /\ \A m \in Members : sess'[m].state \in Open /\ ~sess'[m].stray =>
               ~sess[m].stray /\ (m = t => task[t].pc \notin {"opening", "register"})
     BY <1>2, <1>3
  <1> QED BY <1>1, <1>3, <1>5, <1>7, <1>8, <1>9, ReleaseKeeps

(* A statement without a request ends; its cancellation may take the connection away. *)
LEMMA StatementEndsKeeps ==
    ASSUME IInv, NEW t \in Members, StatementEnds(t)
    PROVE  IInv'
  <1>1. /\ StateTypes /\ t \in Tasks /\ UNCHANGED meta
        /\ entry' = entry /\ slots' = slots /\ task' = task /\ left' = left
        /\ sess' = sess \/ sess' = Bared(adrift[t])
     BY MemberTask DEF StatementEnds, IInv
  <1>2. /\ sess' \in [Members -> Sessions]
        /\ \A m \in Members : \/ sess'[m] = sess[m]
                              \/ /\ sess[m].state = "up" /\ sess'[m].state = "bare" /\ sess'[m].stray = sess[m].stray
                                 /\ sess'[m].profile = sess[m].profile /\ sess'[m].rev = sess[m].rev
     BY <1>1, BaredOK DEF StateTypes
  <1>3. SessionsCut
     BY <1>2 DEF SessionsCut
  <1>4. StateTypes' /\ MetaGrows
     BY <1>1, <1>2, MetaStays, TypeStays DEF StateTypes
  <1>5. Aside(t) /\ GivenUp(t)
     BY <1>1, <1>2 DEF Aside, GivenUp
  <1> QED BY <1>1, <1>3, <1>4, <1>5, AsideKeeps

LEMMA ConnectionFailedKeeps ==
    ASSUME IInv, NEW q \in Queries, ConnectionFailed(q)
    PROVE  IInv'
  <1> DEFINE s == task[q].slot
  <1>1. /\ task[q].pc = "running" /\ StateTypes /\ q \in Tasks /\ q \in Members /\ s \in Members
        /\ slots[s].conn = task[q].sess
     BY DEF ConnectionFailed, At, IInv, Members, Tasks, LockInv, ConnInv, HoldPcs
  <1>2. /\ slots' = [slots EXCEPT ![s] = FreeSlot] /\ sess' = Closed(slots[s].conn) /\ Past(q)
        /\ UNCHANGED meta /\ entry' = entry /\ left' = left
     BY <1>1 DEF ConnectionFailed
  <1>3. /\ slots' \in [Members -> Slots] /\ \A x \in Members \ {s} : slots'[x] = slots[x]
        /\ slots'[s].conn = None /\ slots'[s].pub = 0 /\ slots'[s].holder = None
     <2>1. FreeSlot \in Slots /\ FreeSlot.conn = None /\ FreeSlot.pub = 0 /\ FreeSlot.holder = None
        BY FreeSlotOK
     <2>2. slots \in [Members -> Slots]
        BY <1>1 DEF StateTypes
     <2> HIDE DEF s
     <2> QED BY <1>1, <1>2, <2>1, <2>2
  <1>4. PICK w \in Requests :
             /\ task' = [task EXCEPT ![q] = w] /\ w.slot = None /\ w.pub = 0
             /\ w.pc \in {"done", "after"} /\ (q \in Readers => w.pc = "done")
     BY <1>1, <1>2, PastOK
  <1>5. task' \in [Tasks -> Requests] /\ task'[q] = w /\ \A u \in Tasks \ {q} : task'[u] = task[u]
     BY <1>1, <1>4, TaskSet
  <1>6. sess' \in [Members -> Sessions]
     BY <1>1, <1>2, ClosedOK
  <1>7. StateTypes'
     BY <1>1, <1>2, <1>3, <1>5, <1>6, TypeStays DEF StateTypes
  <1>s. task[q].slot = s
     OBVIOUS
  <1> HIDE DEF s
  <1> QED BY <1>s, <1>1, <1>2, <1>3, <1>4, <1>5, <1>7, DropKeeps

(* Steps aside that leave the sessions alone. *)
LEMMA StillKeeps ==
    ASSUME IInv, slots' = slots, entry' = entry, sess' = sess, MetaGrows, StateTypes',
           NEW t \in Tasks, \A u \in Tasks \ {t} : task'[u] = task[u], Aside(t), task[t].pc # "close_wait"
    PROVE  IInv'
  <1>1. SessionsCut /\ GivenUp(t)
     BY DEF SessionsCut, GivenUp
  <1> QED BY <1>1, AsideKeeps

LEMMA EndedAside ==
    ASSUME IInv, NEW t \in Tasks, Ended(t), t \in Members => task[t].pc \notin HoldPcs
    PROVE  /\ task' \in [Tasks -> Requests] /\ (\A u \in Tasks \ {t} : task'[u] = task[u]) /\ Aside(t)
           /\ task'[t].pc # "close_wait"
  <1>1. StateTypes
     BY DEF IInv
  <1>2. PICK w \in Requests :
             /\ task' = [task EXCEPT ![t] = w] /\ w.slot = None /\ w.pub = 0
             /\ w.pc = IF t \in Admins THEN "idle" ELSE "done"
     BY <1>1, EndedOK
  <1>3. task' \in [Tasks -> Requests] /\ task'[t] = w /\ \A u \in Tasks \ {t} : task'[u] = task[u]
     BY <1>1, <1>2, TaskSet
  <1>4. t \in Admins \/ (t \in Members /\ t \notin Admins)
     BY DEF Tasks
  <1> QED BY <1>2, <1>3, <1>4 DEF Aside

LEMMA DeliverKeeps ==
    ASSUME IInv, NEW r \in Readers, Deliver(r)
    PROVE  IInv'
  <1>1. /\ task[r].pc = "deliver" /\ r \in Members /\ r \in Tasks /\ StateTypes
        /\ UNCHANGED meta /\ entry' = entry /\ slots' = slots /\ sess' = sess /\ left' = left
     BY DEF Deliver, At, IInv, Members, Tasks, pool
  <1>2. MetaGrows /\ task[r].pc \notin HoldPcs
     BY <1>1, MetaStays DEF HoldPcs
  <1>3. task' \in [Tasks -> Requests] /\ (\A u \in Tasks \ {r} : task'[u] = task[u]) /\ Aside(r)
     <2>1. CASE Goto(r, "served")
        <3>1. /\ task' \in [Tasks -> Requests] /\ (\A u \in Tasks \ {r} : task'[u] = task[u])
              /\ task'[r].pc = "served" /\ task'[r].pub = task[r].pub /\ task'[r].read = task[r].read
           BY <1>1, <2>1, TaskMoved
        <3> QED BY <1>1, <3>1 DEF Aside
     <2>2. CASE Ended(r)
        BY <1>1, <1>2, <2>2, EndedAside
     <2> QED BY <2>1, <2>2 DEF Deliver
  <1>4. StateTypes'
     BY <1>1, <1>3, TypeStays DEF StateTypes
  <1> QED BY <1>1, <1>2, <1>3, <1>4, StillKeeps

LEMMA AfterKeeps ==
    ASSUME IInv, NEW q \in Queries, After(q)
    PROVE  IInv'
  <1>1. /\ task[q].pc = "after" /\ q \in Members /\ q \in Tasks /\ StateTypes /\ task[q].pub = 0
        /\ UNCHANGED meta /\ entry' = entry /\ slots' = slots /\ sess' = sess /\ left' = left
     BY DEF After, At, IInv, Members, Tasks, pool, PinInv
  <1>2. MetaGrows /\ task[q].pc \notin HoldPcs
     BY <1>1, MetaStays DEF HoldPcs
  <1>3. task' \in [Tasks -> Requests] /\ (\A u \in Tasks \ {q} : task'[u] = task[u]) /\ Aside(q)
     <2>1. CASE Goto(q, "closing")
        <3>1. /\ task' \in [Tasks -> Requests] /\ (\A u \in Tasks \ {q} : task'[u] = task[u])
              /\ task'[q].pc = "closing" /\ task'[q].pub = task[q].pub
           BY <1>1, <2>1, TaskMoved
        <3> QED BY <1>1, <1>2, <3>1 DEF Aside
     <2>2. CASE Ended(q)
        BY <1>1, <1>2, <2>2, EndedAside
     <2> QED BY <2>1, <2>2 DEF After
  <1>4. StateTypes'
     BY <1>1, <1>3, TypeStays DEF StateTypes
  <1> QED BY <1>1, <1>2, <1>3, <1>4, StillKeeps

-----------------------------------------------------------------------------
(* Teardown.                                                               *)

(* The slot leaves the map, and somebody waits on it. *)
LEMMA RemoveEntryKeeps ==
    ASSUME IInv, NEW t \in Tasks, RemoveEntry(t)
    PROVE  IInv'
  <1>0. /\ StateTypes /\ LockInv /\ HolderInv /\ ConnInv /\ PinInv /\ BehindInv
        /\ \A u \in Members : u \in Tasks /\ u \notin Admins
        /\ \A r \in Readers : r \in Members /\ r \notin Queries
        /\ \A q \in Queries : q \in Members
        /\ None \notin Tasks
     BY MemberTask DEF IInv, Members
  <1>k. \A x \in Members : slots[x].holder \in Members \cup {None}
     BY <1>0, SMTT(30) DEF StateTypes, Slots
  <1>1. /\ task[t].pc = "closing" /\ task[t] \in Requests /\ entry' = None
        /\ UNCHANGED meta /\ slots' = slots /\ sess' = sess /\ left' = left /\ grants' = grants /\ rev' = rev
     BY <1>0 DEF RemoveEntry, At, meta, StateTypes
  <1>2. CASE entry = None
     <2>1. Ended(t)
        BY <1>2 DEF RemoveEntry
     <2>2. MetaGrows /\ task[t].pc \notin HoldPcs
        BY <1>0, <1>1, MetaStays DEF HoldPcs
     <2>3. task' \in [Tasks -> Requests] /\ (\A u \in Tasks \ {t} : task'[u] = task[u]) /\ Aside(t)
        BY <2>1, <2>2, EndedAside
     <2>4. StateTypes'
        BY <1>0, <1>1, <2>3, TypeStays DEF StateTypes
     <2> QED BY <1>1, <1>2, <2>2, <2>3, <2>4, StillKeeps
  <1>3. CASE entry # None
     <2> USE DEF HoldPcs
     <2>1. task' = [task EXCEPT ![t].pc = "close_wait", ![t].slot = entry] /\ entry \in Members
        BY <1>0, <1>3 DEF RemoveEntry, StateTypes
     <2>2. /\ task'[t].pc = "close_wait" /\ task'[t].slot = entry /\ task'[t].pub = task[t].pub
           /\ \A u \in Tasks \ {t} : task'[u] = task[u]
        <3>1. task \in [Tasks -> Requests]
           BY <1>0 DEF StateTypes
        <3> QED BY <1>1, <2>1, <3>1, SMTT(30) DEF Requests
     <2>3. task' \in [Tasks -> Requests]
        <3> DEFINE v == [[task[t] EXCEPT !.pc = "close_wait"] EXCEPT !.slot = entry]
        <3>1. task' = [task EXCEPT ![t] = v]
           BY <1>0, <2>1 DEF StateTypes
        <3>2. [task[t] EXCEPT !.pc = "close_wait"] \in Requests
           BY <1>1, PcsOK, FieldSet
        <3>3. v \in Requests
           BY <2>1, <3>2, FieldSet
        <3> QED BY <1>0, <3>1, <3>3, TaskSet
     <2>4. StateTypes'
        BY <1>0, <1>1, <2>3, TypeStays DEF StateTypes
     <2>5. entry \in Members /\ task'[t].pc = "close_wait" /\ task'[t].slot = entry
        BY <2>1, <2>2
     <2>6. LockInv'
        BY <1>0, <1>1, <2>2, <2>5, SMTT(30) DEF LockInv
     <2>h. HolderInv'
        BY <1>0, <1>k, <1>1, <2>2, SMTT(30) DEF HolderInv
     <2>7. ConnInv'
        <3>1. \A u \in Members : slots[u].conn \in Members \cup {None}
           BY <1>0, SMTT(30) DEF StateTypes, Slots
        <3>2. (\A y \in Members : slots[y].conn # None => task[slots[y].conn].pc \notin EarlyPcs)'
           BY <1>0, <1>1, <2>2, <3>1, SMTT(30) DEF ConnInv, EarlyPcs
        <3>3. (\A u \in Members : task[u].pc = "running" => sess[task[u].sess].state \in {"up", "bare", "cut"})'
           BY <1>0, <1>1, <2>2, SMTT(30) DEF ConnInv
        <3> QED BY <1>0, <1>1, <2>2, <3>2, <3>3, SMTT(30) DEF ConnInv
     <2>8. PinInv'
        BY <1>0, <1>1, <2>2, SMTT(30) DEF PinInv, ReaderPcs
     <2>9. BehindInv'
        <3>1. \A x : Waiting(x) => Waiting(x)'
           BY <1>1, <2>2, SMTT(30) DEF Waiting, At
        <3>2. \A x : x = entry => Waiting(x)'
           BY <2>5 DEF Waiting, At
        <3>3. \A i : Found(i) => Found(i)'
           BY <1>1, <3>1, <3>2 DEF Found
        <3> QED BY <1>0, <1>1, <2>2, <3>3, SMTT(30) DEF BehindInv
     <2> QED BY <2>h, <2>4, <2>6, <2>7, <2>8, <2>9 DEF IInv
  <1> QED BY <1>2, <1>3

(* The teardown has the mutex. *)
LEMMA CloseLockedKeeps ==
    ASSUME IInv, NEW t \in Tasks, CloseLocked(t)
    PROVE  IInv'
  <1> DEFINE s == task[t].slot
  <1>1. /\ task[t].pc = "close_wait" /\ StateTypes /\ s \in Members /\ slots[s].holder = None
        /\ sess' = Closed(slots[s].conn) /\ Ended(t) /\ slots' = [slots EXCEPT ![s].conn = None, ![s].pub = 0]
        /\ UNCHANGED meta /\ entry' = entry /\ left' = left
     BY DEF CloseLocked, At, IInv, LockInv
  <1>2. /\ slots' \in [Members -> Slots] /\ slots'[s].conn = None /\ slots'[s].pub = 0 /\ slots'[s].holder = None
        /\ \A x \in Members \ {s} : slots'[x] = slots[x]
     <2> DEFINE z == [slots[s] EXCEPT !.conn = None]
                v == [z EXCEPT !.pub = 0]
     <2>1. slots[s] \in Slots /\ slots \in [Members -> Slots]
        BY <1>1 DEF StateTypes
     <2>2. slots' = [slots EXCEPT ![s] = v]
        BY <1>1, <2>1
     <2>3. z \in Slots /\ z.conn = None /\ z.holder = slots[s].holder
        BY <2>1, SMTT(30) DEF Slots
     <2> HIDE DEF z
     <2>4. v \in Slots /\ v.conn = None /\ v.pub = 0 /\ v.holder = slots[s].holder
        BY <2>3, SMTT(30) DEF Slots
     <2> HIDE DEF v, s
     <2>5. slots' \in [Members -> Slots] /\ slots'[s] = v /\ \A x \in Members \ {s} : slots'[x] = slots[x]
        BY <1>1, <2>1, <2>2, <2>4
     <2> QED BY <1>1, <2>4, <2>5
  <1>3. PICK w \in Requests :
             /\ task' = [task EXCEPT ![t] = w] /\ w.slot = None /\ w.pub = 0
             /\ w.pc = IF t \in Admins THEN "idle" ELSE "done"
     BY <1>1, EndedOK
  <1>4. task' \in [Tasks -> Requests] /\ task'[t] = w /\ \A u \in Tasks \ {t} : task'[u] = task[u]
     BY <1>1, <1>3, TaskSet
  <1>5. sess' \in [Members -> Sessions]
     BY <1>1, ClosedOK
  <1>6. StateTypes'
     BY <1>1, <1>2, <1>4, <1>5, TypeStays DEF StateTypes
  <1>7. task[t].slot = s /\ UNCHANGED meta /\ entry' = entry /\ sess' = Closed(slots[s].conn)
     BY <1>1
  <1>8. /\ task[t].pc = "close_wait" /\ slots[s].holder = None /\ s \in Members
        /\ task'[t].pc = (IF t \in Admins THEN "idle" ELSE "done") /\ task'[t].pub = 0
     BY <1>1, <1>3, <1>4
  <1> HIDE DEF s
  <1> QED BY <1>2, <1>4, <1>6, <1>7, <1>8, DropKeeps

-----------------------------------------------------------------------------
(* Administrators.                                                         *)

LEMMA ChangeOK ==
    ASSUME StateTypes, NEW a \in Admins, Change(a)
    PROVE  /\ task[a].pc = "idle" /\ slots' = slots /\ entry' = entry /\ sess' = sess
           /\ left' \in [ops : Nat, cuts : Nat]
  <1>1. left \in [ops : Nat, cuts : Nat] /\ left.ops > 0 /\ left' = [left EXCEPT !.ops = left.ops - 1]
     BY DEF Change, StateTypes
  <1>2. left.ops \in Nat /\ left.ops - 1 \in Nat
     BY <1>1, SMTT(30)
  <1>3. left' \in [ops : Nat, cuts : Nat]
     BY <1>1, <1>2, SMTT(30)
  <1> QED BY <1>3 DEF Change, At, pool

(* A change of the room that sends the administrator to the teardown. *)
LEMMA ChangeKeeps ==
    ASSUME IInv, NEW a \in Admins, Change(a), MetaGrows,
           room' \in [profile : Profiles \cup {None}, pub : 0..Len(grants')],
           grants' \in Seq([profile : Profiles, rev : Nat]), rev' \in [Profiles -> Nat], active' \in BOOLEAN,
           task' \in [Tasks -> Requests], \A u \in Tasks \ {a} : task'[u] = task[u],
           task'[a] = task[a] \/ task'[a].pc \notin {"queued", "close_wait"}
    PROVE  IInv'
  <1>1. StateTypes /\ a \in Tasks
     BY AdminTask DEF IInv
  <1>2. /\ task[a].pc = "idle" /\ slots' = slots /\ entry' = entry /\ sess' = sess
        /\ left' \in [ops : Nat, cuts : Nat]
     BY <1>1, ChangeOK
  <1>3. StateTypes'
     BY <1>1, <1>2 DEF StateTypes
  <1>4. Aside(a) /\ task[a].pc # "close_wait"
     BY <1>2 DEF Aside
  <1> QED BY <1>1, <1>2, <1>3, <1>4, StillKeeps

LEMMA ClosingMove ==
    ASSUME IInv, NEW a \in Admins, Goto(a, "closing") \/ Goto(a, "leaving")
    PROVE  /\ task' \in [Tasks -> Requests] /\ (\A u \in Tasks \ {a} : task'[u] = task[u])
           /\ task'[a].pc \notin {"queued", "close_wait"}
  <1>1. StateTypes /\ a \in Tasks
     BY AdminTask DEF IInv
  <1>2. CASE Goto(a, "closing")
     BY <1>1, <1>2, TaskMoved
  <1>3. CASE Goto(a, "leaving")
     BY <1>1, <1>3, TaskMoved
  <1> QED BY <1>2, <1>3

(* Facts about the room row and the grants. *)
LEMMA MetaTypes ==
    ASSUME StateTypes
    PROVE  /\ room.profile \in Profiles \cup {None} /\ room.pub \in 0..Len(grants) /\ Len(grants) \in Nat
           /\ room \in [profile : Profiles \cup {None}, pub : 0..Len(grants)]
           /\ grants \in Seq([profile : Profiles, rev : Nat]) /\ rev \in [Profiles -> Nat] /\ active \in BOOLEAN
           /\ \A x \in Profiles \cup {None} :
                 [room EXCEPT !.profile = x] \in [profile : Profiles \cup {None}, pub : 0..Len(grants)]
           /\ [room EXCEPT !.pub = 0] \in [profile : Profiles \cup {None}, pub : 0..Len(grants)]
  <1>1. /\ room \in [profile : Profiles \cup {None}, pub : 0..Len(grants)]
        /\ grants \in Seq([profile : Profiles, rev : Nat]) /\ rev \in [Profiles -> Nat] /\ active \in BOOLEAN
     BY DEF StateTypes
  <1>2. Len(grants) \in Nat
     BY <1>1, GrantRows
  <1> DEFINE G == 0..Len(grants)
  <1>3. room \in [profile : Profiles \cup {None}, pub : G] /\ 0 \in G
     BY <1>1, <1>2, SMTT(30)
  <1> HIDE DEF G
  <1>4. /\ room.profile \in Profiles \cup {None} /\ room.pub \in G
        /\ \A x \in Profiles \cup {None} : [room EXCEPT !.profile = x] \in [profile : Profiles \cup {None}, pub : G]
        /\ [room EXCEPT !.pub = 0] \in [profile : Profiles \cup {None}, pub : G]
     BY <1>3, SMTT(30)
  <1> QED BY <1>1, <1>2, <1>4 DEF G

LEMMA BindKeeps ==
    ASSUME IInv, NEW a \in Admins, Unbind(a) \/ Revoke(a) \/ \E p \in Profiles : Bind(a, p)
    PROVE  IInv'
  <1>1. StateTypes /\ Change(a) /\ Goto(a, "closing") /\ UNCHANGED <<grants, rev, active>>
     BY DEF IInv, Bind, Unbind, Revoke
  <1>2. /\ task' \in [Tasks -> Requests] /\ (\A u \in Tasks \ {a} : task'[u] = task[u])
        /\ task'[a].pc \notin {"queued", "close_wait"}
     BY <1>1, ClosingMove
  <1>3. room' \in [profile : Profiles \cup {None}, pub : 0..Len(grants)]
     BY <1>1, MetaTypes DEF Bind, Unbind, Revoke
  <1>4. /\ grants' = grants /\ grants' \in Seq([profile : Profiles, rev : Nat]) /\ rev' = rev
        /\ rev' \in [Profiles -> Nat] /\ active' \in BOOLEAN /\ Len(grants) \in Nat
     BY <1>1, MetaTypes
  <1>5. MetaGrows
     BY <1>4, SMTT(30) DEF MetaGrows
  <1> QED BY <1>1, <1>2, <1>3, <1>4, <1>5, ChangeKeeps

(* A new grant is appended, with what it pins as it is now. *)
LEMMA PublishKeeps ==
    ASSUME IInv, NEW a \in Admins, Publish(a)
    PROVE  IInv'
  <1> DEFINE G == [profile : Profiles, rev : Nat]
             g == [profile |-> room.profile, rev |-> rev[room.profile]]
  <1>1. StateTypes /\ Change(a) /\ Goto(a, "closing") /\ rev' = rev /\ active' = active
     BY DEF IInv, Publish
  <1>2. /\ task' \in [Tasks -> Requests] /\ (\A u \in Tasks \ {a} : task'[u] = task[u])
        /\ task'[a].pc \notin {"queued", "close_wait"}
     BY <1>1, ClosingMove
  <1>3. room.profile \in Profiles /\ rev[room.profile] \in Nat
     BY <1>1, MetaTypes DEF Publish
  <1>4. g \in G /\ grants \in Seq(G) /\ grants' = Append(grants, g) /\ room' = [room EXCEPT !.pub = Len(grants')]
     BY <1>1, <1>3, MetaTypes DEF Publish
  <1> HIDE DEF G, g
  <1>5. /\ grants' \in Seq(G) /\ Len(grants') = Len(grants) + 1 /\ Len(grants) \in Nat
        /\ \A i \in 1..Len(grants) : grants'[i] = grants[i]
     BY <1>4
  <1>6. Len(grants') \in 0..Len(grants') /\ Len(grants) <= Len(grants')
     BY <1>5, SMTT(30)
  <1>7. room' \in [profile : Profiles \cup {None}, pub : 0..Len(grants')]
     <2> DEFINE N == Len(grants')
                R == 0..Len(grants')
                S == 0..Len(grants)
     <2>1. N \in R /\ room' = [room EXCEPT !.pub = N] /\ room \in [profile : Profiles \cup {None}, pub : S]
        BY <1>1, <1>4, <1>6, MetaTypes
     <2> HIDE DEF N, R, S
     <2>2. room' \in [profile : Profiles \cup {None}, pub : R]
        BY <2>1, SMTT(30)
     <2> QED BY <2>2 DEF R
  <1>8. \A p \in Profiles : rev[p] \in Nat
     BY <1>1 DEF StateTypes
  <1>9. MetaGrows
     BY <1>1, <1>5, <1>6, <1>8, SMTT(30) DEF MetaGrows
  <1>10. grants' \in Seq([profile : Profiles, rev : Nat]) /\ rev' \in [Profiles -> Nat] /\ active' \in BOOLEAN
     BY <1>1, <1>5, MetaTypes DEF G
  <1> QED BY <1>1, <1>2, <1>7, <1>9, <1>10, ChangeKeeps

(* The administrator goes on to take connections away. *)
LEMMA EditProfileKeeps ==
    ASSUME IInv, NEW a \in Admins, NEW p \in Profiles, EditProfile(a, p)
    PROVE  IInv'
  <1>1. /\ StateTypes /\ a \in Tasks /\ Change(a) /\ room' = room /\ grants' = grants /\ active' = active
        /\ rev' = [rev EXCEPT ![p] = rev[p] + 1] /\ task' = [task EXCEPT ![a].pc = "collect", ![a].profile = p]
     BY AdminTask DEF IInv, EditProfile
  <1>2. task' \in [Tasks -> Requests] /\ (\A u \in Tasks \ {a} : task'[u] = task[u]) /\ task'[a].pc = "collect"
     <2> DEFINE z == [task[a] EXCEPT !.pc = "collect"]
                v == [z EXCEPT !.profile = p]
     <2>0. task[a] \in Requests /\ task \in [Tasks -> Requests]
        BY <1>1 DEF StateTypes
     <2>1. task' = [task EXCEPT ![a] = v]
        BY <1>1, <2>0
     <2>2. z \in Requests
        BY <2>0, PcsOK, FieldSet
     <2>5. z.pc = "collect"
        BY <2>0, SMTT(30) DEF Requests
     <2> HIDE DEF z
     <2>3. v \in Requests
        BY <2>2, FieldSet
     <2>4. v.pc = "collect"
        BY <2>2, <2>5, SMTT(30) DEF Requests
     <2> HIDE DEF v
     <2> QED BY <1>1, <2>1, <2>3, <2>4, TaskSet
  <1>3. rev' \in [Profiles -> Nat] /\ \A x \in Profiles : rev[x] <= rev'[x]
     BY <1>1, SMTT(30) DEF StateTypes
  <1>4. /\ grants' \in Seq([profile : Profiles, rev : Nat]) /\ active' \in BOOLEAN /\ Len(grants) \in Nat
        /\ room' \in [profile : Profiles \cup {None}, pub : 0..Len(grants')]
     BY <1>1, MetaTypes
  <1>5. MetaGrows
     BY <1>1, <1>3, <1>4, SMTT(30) DEF MetaGrows
  <1> QED BY <1>1, <1>2, <1>3, <1>4, <1>5, ChangeKeeps

LEMMA RemoveBinderKeeps ==
    ASSUME IInv, NEW a \in Admins, RemoveBinder(a)
    PROVE  IInv'
  <1>1. /\ StateTypes /\ a \in Tasks /\ Change(a) /\ rev' = rev /\ grants' = grants /\ active' = active
        /\ room' = [room EXCEPT !.profile = None]
        /\ task' = [task EXCEPT ![a].pc = "collect", ![a].then = "closing"]
     BY AdminTask DEF IInv, RemoveBinder
  <1>2. task' \in [Tasks -> Requests] /\ (\A u \in Tasks \ {a} : task'[u] = task[u]) /\ task'[a].pc = "collect"
     <2> DEFINE z == [task[a] EXCEPT !.pc = "collect"]
                v == [z EXCEPT !.then = "closing"]
     <2>0. task[a] \in Requests /\ task \in [Tasks -> Requests]
        BY <1>1 DEF StateTypes
     <2>1. task' = [task EXCEPT ![a] = v]
        BY <1>1, <2>0
     <2>2. z \in Requests
        BY <2>0, PcsOK, FieldSet
     <2>5. z.pc = "collect"
        BY <2>0, SMTT(30) DEF Requests
     <2> HIDE DEF z
     <2>3. v \in Requests
        BY <2>2, FieldSet
     <2>4. v.pc = "collect"
        BY <2>2, <2>5, SMTT(30) DEF Requests
     <2> HIDE DEF v
     <2> QED BY <1>1, <2>1, <2>3, <2>4, TaskSet
  <1>3. /\ grants' \in Seq([profile : Profiles, rev : Nat]) /\ active' \in BOOLEAN /\ Len(grants) \in Nat
        /\ rev' \in [Profiles -> Nat] /\ \A x \in Profiles : rev[x] \in Nat
     BY <1>1, MetaTypes
  <1>4. room' \in [profile : Profiles \cup {None}, pub : 0..Len(grants')]
     BY <1>1, MetaTypes
  <1>5. MetaGrows
     BY <1>1, <1>3, SMTT(30) DEF MetaGrows
  <1> QED BY <1>1, <1>2, <1>3, <1>4, <1>5, ChangeKeeps

(* The room is deserted, or somebody is back. *)
LEMMA LeaveJoinKeeps ==
    ASSUME IInv, NEW a \in Admins, Leave(a) \/ Join(a)
    PROVE  IInv'
  <1>1. StateTypes /\ a \in Tasks /\ Change(a) /\ room' = room /\ rev' = rev /\ grants' = grants /\ active' \in BOOLEAN
     BY AdminTask DEF IInv, Leave, Join
  <1>2. /\ task' \in [Tasks -> Requests] /\ (\A u \in Tasks \ {a} : task'[u] = task[u])
        /\ (task'[a] = task[a] \/ task'[a].pc \notin {"queued", "close_wait"})
     <2>1. CASE Leave(a)
        BY <2>1, ClosingMove DEF Leave
     <2>2. CASE Join(a)
        BY <1>1, <2>2 DEF Join, StateTypes
     <2> QED BY <2>1, <2>2
  <1>3. /\ grants' \in Seq([profile : Profiles, rev : Nat]) /\ Len(grants) \in Nat
        /\ rev' \in [Profiles -> Nat] /\ (\A x \in Profiles : rev[x] \in Nat)
        /\ room' \in [profile : Profiles \cup {None}, pub : 0..Len(grants')]
     BY <1>1, MetaTypes
  <1>4. MetaGrows
     BY <1>1, <1>3, SMTT(30) DEF MetaGrows
  <1> QED BY <1>1, <1>2, <1>3, <1>4, ChangeKeeps

LEMMA CloseSessionKeeps ==
    ASSUME IInv, NEW a \in Admins, CloseSession(a)
    PROVE  IInv'
  <1>1. StateTypes /\ a \in Tasks /\ task' = task /\ slots' = slots /\ entry' = entry /\ UNCHANGED meta
     BY AdminTask DEF IInv, CloseSession
  <1>2. PICK i \in Members : sess[i].state \in Open /\ sess' = CutOff({i})
     BY DEF CloseSession
  <1>3. /\ sess' \in [Members -> Sessions] /\ sess'[i].state = "cut"
        /\ \A m \in Members : m # i => sess'[m] = sess[m]
     BY <1>1, <1>2, CutOffOK
  <1>4. left' \in [ops : Nat, cuts : Nat]
     <2>1. left \in [ops : Nat, cuts : Nat] /\ left.ops > 0 /\ left' = [left EXCEPT !.ops = left.ops - 1]
        BY <1>1 DEF CloseSession, StateTypes
     <2>2. left.ops \in Nat /\ left.ops - 1 \in Nat
        BY <2>1, SMTT(30)
     <2> QED BY <2>1, <2>2, SMTT(30)
  <1>5. StateTypes' /\ MetaGrows
     BY <1>1, <1>3, <1>4, TypeStays, MetaStays DEF StateTypes
  <1>6. SessionsCut /\ GivenUp(a) /\ Aside(a)
     BY <1>1, <1>2, <1>3 DEF SessionsCut, GivenUp, Aside
  <1> QED BY <1>1, <1>5, <1>6, AsideKeeps

(* An administrator on its way: the socket that looks again, the connections it collects. *)
LEMMA LeaveCheckKeeps ==
    ASSUME IInv, NEW a \in Admins, LeaveCheck(a)
    PROVE  IInv'
  <1>1. /\ task[a].pc = "leaving" /\ a \in Tasks /\ a \notin Members /\ StateTypes
        /\ UNCHANGED meta /\ entry' = entry /\ slots' = slots /\ sess' = sess /\ left' = left
     BY AdminTask DEF LeaveCheck, At, IInv, pool
  <1>2. MetaGrows
     BY <1>1, MetaStays
  <1>3. task' \in [Tasks -> Requests] /\ (\A u \in Tasks \ {a} : task'[u] = task[u]) /\ Aside(a)
     <2>1. CASE active
        BY <1>1, <2>1, EndedAside DEF LeaveCheck
     <2>2. CASE ~active
        <3> DEFINE z == [task[a] EXCEPT !.pc = "closing"]
                   v == [z EXCEPT !.then = "spawned"]
        <3>0. task[a] \in Requests /\ task \in [Tasks -> Requests]
           BY <1>1 DEF StateTypes
        <3>1. task' = [task EXCEPT ![a] = v]
           BY <2>2, <3>0 DEF LeaveCheck
        <3>2. z \in Requests
           BY <3>0, PcsOK, FieldSet
        <3>5. z.pc = "closing"
           BY <3>0, SMTT(30) DEF Requests
        <3> HIDE DEF z
        <3>3. v \in Requests
           BY <3>2, FieldSet
        <3>4. v.pc = "closing"
           BY <3>2, <3>5, SMTT(30) DEF Requests
        <3> HIDE DEF v
        <3>6. task' \in [Tasks -> Requests] /\ (\A u \in Tasks \ {a} : task'[u] = task[u]) /\ task'[a].pc = "closing"
           BY <1>1, <3>1, <3>3, <3>4, TaskSet
        <3> QED BY <3>6 DEF Aside
     <2> QED BY <2>1, <2>2
  <1>4. StateTypes'
     BY <1>1, <1>3, TypeStays DEF StateTypes
  <1> QED BY <1>1, <1>2, <1>3, <1>4, StillKeeps

LEMMA CollectKeeps ==
    ASSUME IInv, NEW a \in Admins, Collect(a)
    PROVE  IInv'
  <1>1. /\ task[a].pc = "collect" /\ a \in Tasks /\ StateTypes
        /\ UNCHANGED meta /\ entry' = entry /\ slots' = slots /\ sess' = sess /\ left' = left
     BY AdminTask DEF Collect, At, IInv, pool
  <1>2. MetaGrows
     BY <1>1, MetaStays
  <1>3. task' \in [Tasks -> Requests] /\ (\A u \in Tasks \ {a} : task'[u] = task[u]) /\ Aside(a)
     <2> DEFINE ids == {i \in Members : /\ sess[i].state \in {"up", "bare"} /\ ~At(i, "register")
                                        /\ task[a].profile \in {None, sess[i].profile}}
                z == [task[a] EXCEPT !.pc = "disconnect"]
                v == [z EXCEPT !.todo = ids]
     <2>0. task[a] \in Requests /\ task \in [Tasks -> Requests] /\ ids \in SUBSET Members
        BY <1>1 DEF StateTypes
     <2>1. task' = [task EXCEPT ![a] = v]
        BY <2>0 DEF Collect
     <2> HIDE DEF ids
     <2>2. z \in Requests
        BY <2>0, PcsOK, FieldSet
     <2>3. z.pc = "disconnect"
        BY <2>0, SMTT(30) DEF Requests
     <2> HIDE DEF z
     <2>4. v \in Requests
        BY <2>0, <2>2, FieldSet
     <2>5. v.pc = "disconnect"
        BY <2>2, <2>3, SMTT(30) DEF Requests
     <2> HIDE DEF v
     <2>6. task' \in [Tasks -> Requests] /\ (\A u \in Tasks \ {a} : task'[u] = task[u]) /\ task'[a].pc = "disconnect"
        BY <1>1, <2>1, <2>4, <2>5, TaskSet
     <2> QED BY <2>6 DEF Aside
  <1>4. StateTypes'
     BY <1>1, <1>3, TypeStays DEF StateTypes
  <1> QED BY <1>1, <1>2, <1>3, <1>4, StillKeeps

LEMMA DisconnectKeeps ==
    ASSUME IInv, NEW a \in Admins, Disconnect(a)
    PROVE  IInv'
  <1> DEFINE ids == {i \in task[a].todo : sess[i].state \in {"up", "bare"}}
  <1>1. /\ task[a].pc = "disconnect" /\ a \in Tasks /\ a \notin Members /\ StateTypes /\ sess' = CutOff(ids)
        /\ UNCHANGED meta /\ entry' = entry /\ slots' = slots /\ left' = left
     BY AdminTask DEF Disconnect, At, IInv
  <1>2. MetaGrows
     BY <1>1, MetaStays
  <1>3. task' \in [Tasks -> Requests] /\ (\A u \in Tasks \ {a} : task'[u] = task[u]) /\ Aside(a)
     <2>1. CASE Ended(a)
        BY <1>1, <2>1, EndedAside
     <2>2. CASE ~Ended(a)
        <3>1. task' = [task EXCEPT ![a] = Off("closing", 0, None, "idle")]
           BY <2>2 DEF Disconnect
        <3>2. Off("closing", 0, None, "idle") \in Requests /\ Off("closing", 0, None, "idle").pc = "closing"
           BY OffOK
        <3>3. task' \in [Tasks -> Requests] /\ (\A u \in Tasks \ {a} : task'[u] = task[u]) /\ task'[a].pc = "closing"
           BY <1>1, <3>1, <3>2, TaskSet
        <3> QED BY <3>3 DEF Aside
     <2> QED BY <2>1, <2>2
  <1>4. /\ sess' \in [Members -> Sessions] /\ \A m \in Members : m \in ids => sess'[m].state = "cut"
        /\ \A m \in Members : m \notin ids => sess'[m] = sess[m]
     BY <1>1, CutOffOK
  <1>5. \A m \in ids : sess[m].state \in {"up", "bare"}
     OBVIOUS
  <1> HIDE DEF ids
  <1>6. StateTypes'
     BY <1>1, <1>3, <1>4, TypeStays DEF StateTypes
  <1>7. SessionsCut /\ GivenUp(a)
     BY <1>1, <1>4, <1>5 DEF SessionsCut, GivenUp
  <1> QED BY <1>1, <1>2, <1>3, <1>6, <1>7, AsideKeeps

-----------------------------------------------------------------------------
(* A request is dropped at an await. *)
LEMMA CutKeeps ==
    ASSUME IInv, NEW t \in Tasks, Cut(t)
    PROVE  IInv'
  <1> DEFINE s == task[t].slot
             held == s # None /\ slots[s].holder = t
             lost == (IF At(t, "opening") THEN {t} ELSE {}) \cup
                     (IF At(t, "close_wait") THEN {slots[s].conn} ELSE {})
             gone(m) == m \in lost /\ sess[m].state \in Open
  <1>0. /\ StateTypes /\ LockInv /\ HolderInv /\ ConnInv /\ PinInv /\ BehindInv
        /\ \A u \in Members : u \in Tasks /\ u \notin Admins
        /\ None \notin Tasks /\ s \in Members \cup {None}
     BY MemberTask, SMTT(30) DEF IInv, StateTypes, Requests
  <1>1. /\ task[t].pc \in {"queued", "resolve", "opening", "execute", "running",
                           "closing", "close_wait", "collect", "disconnect"}
        /\ Ended(t) /\ UNCHANGED meta /\ entry' = entry /\ (IF held THEN Unlock(t) ELSE slots' = slots)
        /\ left.cuts > 0 /\ left' = [left EXCEPT !.cuts = left.cuts - 1]
     BY DEF Cut
  <1>2. sess' = [m \in Members |-> IF gone(m) THEN [sess[m] EXCEPT !.stray = TRUE] ELSE sess[m]]
     BY DEF Cut
  <1>3. left' \in [ops : Nat, cuts : Nat]
     <2>1. left \in [ops : Nat, cuts : Nat]
        BY <1>0 DEF StateTypes
     <2>2. left.cuts \in Nat /\ left.cuts - 1 \in Nat
        BY <1>1, <2>1, SMTT(30)
     <2> QED BY <1>1, <2>1, <2>2, SMTT(30)
  <1>4. /\ sess' \in [Members -> Sessions]
        /\ \A m \in Members : /\ sess'[m].state = sess[m].state /\ sess'[m].profile = sess[m].profile
                              /\ sess'[m].rev = sess[m].rev
        /\ \A m \in Members : gone(m) => sess'[m].stray
        /\ \A m \in Members : ~gone(m) => sess'[m] = sess[m]
     <2> HIDE DEF gone
     <2>1. \A m \in Members : sess[m] \in Sessions
        BY <1>0 DEF StateTypes
     <2>2. ASSUME NEW x \in Sessions, NEW b \in BOOLEAN
           PROVE  LET v == [x EXCEPT !.stray = b] IN
                  v \in Sessions /\ v.stray = b /\ v.state = x.state /\ v.profile = x.profile /\ v.rev = x.rev
        BY SMTT(30) DEF Sessions
     <2>5. ASSUME NEW x \in Sessions
           PROVE  LET v == [x EXCEPT !.stray = TRUE] IN
                  v \in Sessions /\ v.stray = TRUE /\ v.state = x.state /\ v.profile = x.profile /\ v.rev = x.rev
        BY <2>2
     <2>3. \A m \in Members : sess'[m] = IF gone(m) THEN [sess[m] EXCEPT !.stray = TRUE] ELSE sess[m]
        BY <1>2
     <2>4. sess' \in [Members -> Sessions]
        BY <1>2, <2>1, <2>5
     <2> QED BY <2>1, <2>3, <2>4, <2>5
  <1>5. CASE t \in Members /\ task[t].pc \in HoldPcs
     <2>1. s \in Members /\ held
        BY <1>0, <1>5 DEF LockInv
     <2>2. Unlock(t) /\ slots' \in [Members -> Slots]
        BY <1>1, <1>5, <2>1, UnlockOK
     <2>3. PICK w \in Requests :
                /\ task' = [task EXCEPT ![t] = w] /\ w.slot = None /\ w.pub = 0
                /\ w.pc = IF t \in Admins THEN "idle" ELSE "done"
        BY <1>0, <1>1, EndedOK
     <2>4. task' \in [Tasks -> Requests] /\ task'[t] = w /\ \A u \in Tasks \ {t} : task'[u] = task[u]
        BY <1>0, <2>3, TaskSet
     <2>5. StateTypes'
        BY <1>0, <1>1, <1>3, <1>4, <2>2, <2>4, TypeStays DEF StateTypes
     <2>6. task'[t].pc = "done" /\ task'[t].pub = 0
        BY <1>0, <1>5, <2>3, <2>4
     <2>7. \A m \in Members : sess'[m].state \in Open /\ ~sess'[m].stray =>
               ~sess[m].stray /\ (m = t => task[t].pc \notin {"opening", "register"})
        <3> SUFFICES ASSUME NEW m \in Members, sess'[m].state \in Open, ~sess'[m].stray
                     PROVE  ~sess[m].stray /\ (m = t => task[t].pc \notin {"opening", "register"})
           OBVIOUS
        <3>1. ~gone(m)
           BY <1>4
        <3>2. sess'[m] = sess[m] /\ m \notin lost
           BY <1>4, <3>1
        <3> QED BY <1>1, <3>2 DEF At
     <2> QED BY <1>1, <1>4, <1>5, <2>2, <2>4, <2>5, <2>6, <2>7, ReleaseKeeps
  <1>6. CASE ~(t \in Members /\ task[t].pc \in HoldPcs)
     <2>1. ~held
        <3>1. \A x \in Members : slots[x].holder \in Members \cup {None}
           BY <1>0, SMTT(30) DEF StateTypes, Slots
        <3> QED BY <1>0, <1>6, <3>1 DEF HolderInv
     <2>2. slots' = slots
        BY <1>1, <2>1
     <2>3. /\ task' \in [Tasks -> Requests] /\ (\A u \in Tasks \ {t} : task'[u] = task[u]) /\ Aside(t)
           /\ task'[t].pc # "close_wait"
        BY <1>1, <1>6, EndedAside
     <2>4. StateTypes' /\ MetaGrows
        <3>1. slots' \in [Members -> Slots] /\ entry' \in Members \cup {None}
           BY <1>0, <1>1, <2>2 DEF StateTypes
        <3> QED BY <1>0, <1>1, <1>3, <1>4, <2>3, <3>1, TypeStays, MetaStays
     <2>5. SessionsCut
        BY <1>4 DEF SessionsCut
     <2>6. GivenUp(t)
        <3> SUFFICES ASSUME NEW m \in Members, sess'[m].state \in Open, ~sess'[m].stray
                     PROVE  /\ ~sess[m].stray
                            /\ task'[t].pc # "close_wait" /\ task[t].pc = "close_wait" =>
                                  task[t].slot = entry \/ slots[task[t].slot].conn # m
           BY DEF GivenUp
        <3>1. ~gone(m)
           BY <1>4
        <3>2. sess'[m] = sess[m] /\ m \notin lost
           BY <1>4, <3>1
        <3>3. task[t].pc = "close_wait" => slots[s].conn # m
           <4>1. task[t].pc = "close_wait" => slots[s].conn \in lost
              BY DEF At
           <4> QED BY <3>2, <4>1
        <3>4. ~sess[m].stray
           BY <3>2
        <3> QED BY <3>3, <3>4
     <2> QED BY <1>1, <2>2, <2>3, <2>4, <2>5, <2>6, AsideKeeps
  <1> QED BY <1>5, <1>6

-----------------------------------------------------------------------------
(* The invariant and what follows from it.                                 *)

LEMMA InitInv == Init => IInv
  <1> SUFFICES ASSUME Init PROVE IInv
     OBVIOUS
  <1> DEFINE G == [profile : Profiles, rev : Nat]
             g == [profile |-> Bound, rev |-> 0]
  <1>1. g \in G /\ grants = <<g>>
     BY DEF Init
  <1> HIDE DEF G, g
  <1>2. grants \in Seq(G) /\ Len(grants) = 1
     BY <1>1
  <1>3. room \in [profile : Profiles \cup {None}, pub : 0..Len(grants)]
     BY <1>2, SMTT(30) DEF Init
  <1>4. Resting \in Requests /\ Resting.pc = "idle" /\ Resting.pub = 0
     BY OffOK DEF Resting
  <1>5. FreeSlot \in Slots /\ FreeSlot.conn = None /\ FreeSlot.holder = None
     BY FreeSlotOK
  <1>6. NoSession \in Sessions /\ NoSession.state = "closed"
     BY SMTT(30) DEF NoSession, Gone, Sessions
  <1>7. /\ \A t \in Tasks : task[t].pc = "idle" /\ task[t].pub = 0
        /\ \A m \in Members : /\ m \in Tasks /\ slots[m].conn = None /\ slots[m].holder = None
                              /\ sess[m].state = "closed"
     BY <1>4, <1>5, <1>6, MemberTask DEF Init
  <1>8. StateTypes
     <2>1. /\ task \in [Tasks -> Requests] /\ slots \in [Members -> Slots] /\ sess \in [Members -> Sessions]
           /\ rev \in [Profiles -> Nat] /\ active \in BOOLEAN /\ entry \in Members \cup {None}
        BY <1>4, <1>5, <1>6 DEF Init
     <2>2. left \in [ops : Nat, cuts : Nat]
        BY SMTT(30) DEF Init
     <2>3. grants \in Seq([profile : Profiles, rev : Nat])
        BY <1>2 DEF G
     <2> QED BY <1>3, <2>1, <2>2, <2>3 DEF StateTypes
  <1>9. LockInv /\ HolderInv /\ ConnInv /\ BehindInv
     BY <1>7 DEF LockInv, HolderInv, ConnInv, BehindInv, HoldPcs
  <1>10. PinInv
     <2>1. \A t \in Members : task[t].pc = "idle" /\ task[t].pub = 0 /\ slots[t].conn = None
        BY <1>7
     <2> QED BY <2>1 DEF PinInv, ReaderPcs, Members
  <1> QED BY <1>8, <1>9, <1>10 DEF IInv

LEMMA StutterKeeps ==
    ASSUME IInv, UNCHANGED vars
    PROVE  IInv'
  BY DEF vars, IInv, StateTypes, LockInv, HolderInv, ConnInv, PinInv, BehindInv, Found, Waiting, At, Pinned,
         Slots, Sessions, Requests, Tasks, Members

LEMMA NextInv ==
    ASSUME IInv, [Next]_vars
    PROVE  IInv'
  <1>1. ASSUME NEW q \in Queries, Route(q) PROVE IInv'
     BY <1>1, RouteKeeps
  <1>2. ASSUME NEW r \in Readers, RouteReader(r) PROVE IInv'
     BY <1>2, RouteReaderKeeps
  <1>3. ASSUME NEW t \in Members, MemberStep(t) PROVE IInv'
     BY <1>3, EnterKeeps, LockKeeps, ResolveKeeps, ResolveFailsKeeps, OpenedKeeps, OpenFailsKeeps, RegisterKeeps,
        ExecuteKeeps, FinishKeeps, TimesOutKeeps, ConnectionFailedKeeps, AfterKeeps, DeliverKeeps DEF MemberStep
  <1>7. ASSUME NEW t \in Members, StatementEnds(t) PROVE IInv'
     BY <1>7, StatementEndsKeeps
  <1>4. ASSUME NEW t \in Tasks, CloseStep(t) \/ Cut(t) PROVE IInv'
     BY <1>4, RemoveEntryKeeps, CloseLockedKeeps, CutKeeps DEF CloseStep
  <1>5. ASSUME NEW a \in Admins, AdminStep(a) PROVE IInv'
     BY <1>5, LeaveCheckKeeps, CollectKeeps, DisconnectKeeps DEF AdminStep
  <1>6. ASSUME NEW a \in Admins, AdminChange(a) PROVE IInv'
     BY <1>6, BindKeeps, EditProfileKeeps, PublishKeeps, RemoveBinderKeeps, LeaveJoinKeeps, CloseSessionKeeps
        DEF AdminChange
  <1> QED BY <1>1, <1>2, <1>3, <1>4, <1>5, <1>6, <1>7, StutterKeeps DEF Next

(* A statement is adrift on a session. *)
LEMMA AdriftStays ==
    ASSUME IInv, TypeOK, [Next]_vars
    PROVE  TypeOK'
  <1> DEFINE A == [Members -> Members \cup {None}]
  <1>0. adrift \in A /\ StateTypes'
     BY NextInv DEF TypeOK, IInv
  <1>1. ASSUME NEW t \in Members, TimesOut(t) \/ StatementEnds(t) PROVE adrift' \in A
     <2>1. task[t].pc = "running" => task[t].sess \in Members
        BY DEF IInv, ConnInv
     <2> QED BY <1>0, <1>1, <2>1 DEF TimesOut, StatementEnds, At
  <1>2. ASSUME NEW t \in Tasks, Cut(t) PROVE adrift' \in A
     <2>1. t \in Members /\ task[t].pc = "running" => task[t].sess \in Members
        BY DEF IInv, ConnInv
     <2>2. adrift' = IF At(t, "running") THEN [adrift EXCEPT ![t] = task[t].sess] ELSE adrift
        BY <1>2 DEF Cut
     <2>3. CASE t \in Members
        BY <1>0, <2>1, <2>2, <2>3 DEF At
     <2>4. CASE t \notin Members
        BY <1>0, <2>2, <2>4
     <2> QED BY <2>3, <2>4
  <1>3. ASSUME NEW t \in Members, MemberStep(t) PROVE adrift' \in A
     BY <1>0, <1>1, <1>3 DEF MemberStep, Enter, Lock, Resolve, ResolveFails, Opened, OpenFails, Register,
        Execute, Finish, ConnectionFailed, After, Deliver, pool
  <1>4. ASSUME NEW t \in Tasks, Route(t) \/ RouteReader(t) \/ CloseStep(t) \/ AdminStep(t) PROVE adrift' \in A
     BY <1>0, <1>4 DEF Route, RouteReader, CloseStep, RemoveEntry, CloseLocked, AdminStep, LeaveCheck, Collect,
        Disconnect, pool
  <1>5. ASSUME NEW a \in Admins, AdminChange(a) PROVE adrift' \in A
     BY <1>0, <1>5 DEF AdminChange, Bind, EditProfile, Unbind, Publish, Revoke, RemoveBinder, Leave, Join,
        CloseSession, Change, pool
  <1>6. UNCHANGED vars => adrift' \in A
     BY <1>0 DEF vars
  <1>7. adrift' \in A
     BY <1>1, <1>2, <1>3, <1>4, <1>5, <1>6 DEF Next, Tasks, Members
  <1> QED BY <1>0, <1>7 DEF TypeOK

(* Whatever the order of queries, reads, handlers, revocations, timeouts and dropped
   requests, the slots, the sessions in them and the grants behind them stay consistent. *)
THEOREM ConnectionsConsistent == Spec => [](IInv /\ TypeOK)
  <1>1. Init => IInv /\ TypeOK
     BY InitInv DEF Init, IInv, TypeOK
  <1>2. IInv /\ TypeOK /\ [Next]_vars => IInv' /\ TypeOK'
     BY NextInv, AdriftStays
  <1> QED BY <1>1, <1>2, PTL DEF Spec

(* The statements of requests that still hold the mutex never share a connection, and no
   teardown closes it under them: two members that run on one session hold one mutex.  The
   statements of dropped and timed out requests, which run on, are not among them. *)
THEOREM StatementsAreAlone == Spec => []ExclusiveUse
  <1>1. IInv /\ TypeOK => ExclusiveUse
     <2> SUFFICES ASSUME IInv, TypeOK PROVE ExclusiveUse
        OBVIOUS
     <2>2. ASSUME NEW t \in Members, At(t, "running") PROVE sess[task[t].sess].state \in {"up", "bare", "cut"}
        BY <2>2 DEF IInv, ConnInv, At
     <2>3. ASSUME NEW t \in Members, NEW u \in Members \ {t}, At(t, "running"), At(u, "running"),
                  task[u].sess = task[t].sess
           PROVE  FALSE
        <3>1. /\ task[t].slot \in Members /\ slots[task[t].slot].holder = t /\ slots[task[t].slot].conn = task[t].sess
              /\ task[u].slot \in Members /\ slots[task[u].slot].holder = u /\ slots[task[u].slot].conn = task[u].sess
              /\ task[t].sess \in Members
           BY <2>3 DEF IInv, LockInv, ConnInv, At, HoldPcs
        <3>2. task[t].sess # None
           BY <3>1 DEF Tasks
        <3>3. task[t].slot = task[u].slot
           BY <2>3, <3>1, <3>2 DEF IInv, ConnInv
        <3> QED BY <3>1, <3>3
     <2> QED BY <2>2, <2>3 DEF ExclusiveUse
  <1> QED BY <1>1, ConnectionsConsistent, PTL

(* What an AI read delivers came from the profile and revision its grant pins. *)
THEOREM ReadsArePinned == Spec => []PublicReadsPinned
  <1>1. IInv => PublicReadsPinned
     BY DEF IInv, PinInv, PublicReadsPinned, At
  <1> QED BY <1>1, ConnectionsConsistent, PTL

(* A hidden session that is open and not given up is being opened, or is in a slot that the
   map or a waiting teardown leads to. *)
THEOREM TeardownsFindSessions == Spec => []NothingLeftBehind
  <1>1. IInv => NothingLeftBehind
     BY DEF IInv, BehindInv, Found, NothingLeftBehind
  <1> QED BY <1>1, ConnectionsConsistent, PTL
=============================================================================
