------------------------ MODULE DocumentActorProofs ------------------------
(***************************************************************************)
(* Durability of the document path for any number of tasks, operations and  *)
(* updates, under two conditions the code relies on: an update id names one *)
(* payload, and the snapshot endpoint is not used on the document.          *)
(***************************************************************************)
EXTENDS DocumentActor, FiniteSetTheorems, TLAPS

\* An (update_id, replica_id) pair is never reused for other operations.
IdsIdentify == \A u, v \in Updates : IdOf[u] = IdOf[v] => OpsOf[u] = OpsOf[v]

-----------------------------------------------------------------------------
(* The CRDT: a causally closed set is fully visible.                        *)
LEMMA VisibleClosed ==
  ASSUME NEW S, Closed(S)
  PROVE  Visible(S) = S
BY DEF Visible

LEMMA VisibleSubset ==
  ASSUME NEW S
  PROVE  Visible(S) \subseteq S
BY DEF Visible

(* Accepting an update keeps a closed replica closed.                       *)
LEMMA AcceptKeepsClosed ==
  ASSUME NEW S, NEW u \in Updates, Closed(S), ~Pending(S, u)
  PROVE  Closed(S \cup OpsOf[u])
BY DocumentAssumption DEF Closed, Pending

(* The last sequence of a gapless tail is the one before next_seq.          *)
LEMMA HighestOfTail ==
  ASSUME NEW lo \in Nat, NEW hi \in Nat, lo < hi,
         NEW S, S = {n \in 1..hi : lo < n /\ n < hi}
  PROVE  Highest(S, lo) = hi - 1
<1>1. CASE S = {}
  <2>1. hi = lo + 1
    <3> SUFFICES ASSUME lo + 1 < hi PROVE FALSE
      OBVIOUS
    <3>1. lo + 1 \in S
      OBVIOUS
    <3> QED BY <3>1, <1>1
  <2> QED BY <2>1, <1>1 DEF Highest
<1>2. CASE S # {}
  <2>1. hi - 1 \in S /\ \A n \in S : n <= hi - 1
    BY <1>2
  <2>2. \A m \in S : (\A n \in S : n <= m) => m = hi - 1
    BY <2>1
  <2>3. Highest(S, lo) = CHOOSE m \in S : \A n \in S : n <= m
    BY <1>2 DEF Highest
  <2> QED BY <2>1, <2>2, <2>3
<1> QED BY <1>1, <1>2

(* The initial row satisfies the invariant.                                 *)
LEMMA InitIInv == Init => IInv
<1> SUFFICES ASSUME Init PROVE IInv
  OBVIOUS
<1> USE DocumentAssumption
<1>1. TypeOK
  BY DEF Init, TypeOK, Row, Fields, NoFields, NothingLoaded, Steps
<1>2. IsFiniteSet(log)
  BY FS_EmptySet DEF Init
<1>3. TasksWellFormed
  BY DEF Init, TasksWellFormed, UnderLock
<1>4. LogIsGapless
  BY DEF Init, LogIsGapless
<1>5. LoadIsCurrent /\ ActorIsDatabase
  BY DEF Init, LoadIsCurrent, ActorIsDatabase, UnderLock
<1>6. DatabaseSound
  BY DEF Init, DatabaseSound, Stored, Closed
<1> QED BY <1>1, <1>2, <1>3, <1>4, <1>5, <1>6 DEF IInv

-----------------------------------------------------------------------------
(* Steps of a task that touch neither the database nor an actor.            *)

(* A request starts.                                                        *)
LEMMA StartStep ==
  ASSUME IInv, NEW w \in Workers,
         NEW u \in Updates \cup {None}, Start(w, u)
  PROVE  IInv'
<1> USE DocumentAssumption
<1>1. TypeOK'
  BY DEF IInv, TypeOK, Start, Release, Shown, Steps, Fields
<1>2. TasksWellFormed'
  BY DEF IInv, TypeOK, TasksWellFormed, Start, Release, UnderLock
<1>3. LogIsGapless' /\ IsFiniteSet(log)'
  BY DEF IInv, LogIsGapless, Start
<1>4. CASE row.exists
  <2>1. LoadIsCurrent'
    BY <1>4 DEF IInv, TypeOK, TasksWellFormed, LoadIsCurrent, Start, Release
  <2>2. ActorIsDatabase'
    BY <1>4 DEF IInv, TypeOK, TasksWellFormed, ActorIsDatabase, Start, Release, UnderLock, Stored
  <2>3. DatabaseSound'
    BY <1>4 DEF IInv, TypeOK, TasksWellFormed, DatabaseSound, ActorIsDatabase, Start, Release, Shown, Stored, UnderLock
  <2> QED BY <1>1, <1>2, <1>3, <2>1, <2>2, <2>3 DEF IInv
<1>5. CASE ~row.exists
  <2>1. ~row'.exists
    BY <1>5 DEF Start
  <2> QED BY <1>1, <1>2, <1>3, <2>1 DEF IInv
<1> QED BY <1>4, <1>5

(* A cache hit clones the Arc.                                              *)
LEMMA GetCachedStep ==
  ASSUME IInv, NEW w \in Workers, GetCached(w)
  PROVE  IInv'
<1> USE DocumentAssumption
<1>1. TypeOK'
  BY DEF IInv, TypeOK, GetCached, Release, Shown, Steps, Fields
<1>2. TasksWellFormed'
  BY DEF IInv, TypeOK, TasksWellFormed, GetCached, Release, UnderLock
<1>3. LogIsGapless' /\ IsFiniteSet(log)'
  BY DEF IInv, LogIsGapless, GetCached
<1>4. CASE row.exists
  <2>1. LoadIsCurrent'
    BY <1>4 DEF IInv, TypeOK, TasksWellFormed, LoadIsCurrent, GetCached, Release
  <2>2. ActorIsDatabase'
    BY <1>4 DEF IInv, TypeOK, TasksWellFormed, ActorIsDatabase, GetCached, Release, UnderLock, Stored
  <2>3. DatabaseSound'
    BY <1>4 DEF IInv, TypeOK, TasksWellFormed, DatabaseSound, ActorIsDatabase, GetCached, Release, Shown, Stored, UnderLock
  <2> QED BY <1>1, <1>2, <1>3, <2>1, <2>2, <2>3 DEF IInv
<1>5. CASE ~row.exists
  <2>1. ~row'.exists
    BY <1>5 DEF GetCached
  <2> QED BY <1>1, <1>2, <1>3, <2>1 DEF IInv
<1> QED BY <1>4, <1>5

(* A miss locks the map entry and reads the row.                            *)
LEMMA BeginLoadStep ==
  ASSUME IInv, NEW w \in Workers, BeginLoad(w)
  PROVE  IInv'
<1> USE DocumentAssumption
<1>1. TypeOK'
  BY DEF IInv, TypeOK, BeginLoad, Release, Shown, Steps, Fields, Row
<1>2. TasksWellFormed'
  BY DEF IInv, TypeOK, TasksWellFormed, BeginLoad, Release, UnderLock
<1>3. LogIsGapless' /\ IsFiniteSet(log)'
  BY DEF IInv, LogIsGapless, BeginLoad
<1>4. CASE row.exists
  <2>1. LoadIsCurrent'
    BY <1>4 DEF IInv, TypeOK, TasksWellFormed, LoadIsCurrent, BeginLoad, Release
  <2>2. ActorIsDatabase'
    BY <1>4 DEF IInv, TypeOK, TasksWellFormed, ActorIsDatabase, BeginLoad, Release, UnderLock, Stored
  <2>3. DatabaseSound'
    BY <1>4 DEF IInv, TypeOK, TasksWellFormed, DatabaseSound, ActorIsDatabase, BeginLoad, Release, Shown, Stored, UnderLock
  <2> QED BY <1>1, <1>2, <1>3, <2>1, <2>2, <2>3 DEF IInv
<1>5. CASE ~row.exists
  <2>1. ~row'.exists
    BY <1>5 DEF BeginLoad
  <2> QED BY <1>1, <1>2, <1>3, <2>1 DEF IInv
<1> QED BY <1>4, <1>5

(* The actor's mutex is taken.                                              *)
LEMMA LockStep ==
  ASSUME IInv, NEW w \in Workers, Lock(w)
  PROVE  IInv'
<1> USE DocumentAssumption
<1>1. TypeOK'
  BY DEF IInv, TypeOK, Lock, Release, Shown, Steps, Fields
<1>2. TasksWellFormed'
  BY DEF IInv, TypeOK, TasksWellFormed, Lock, Release, UnderLock
<1>3. LogIsGapless' /\ IsFiniteSet(log)'
  BY DEF IInv, LogIsGapless, Lock
<1>4. CASE row.exists
  <2>1. LoadIsCurrent'
    BY <1>4 DEF IInv, TypeOK, TasksWellFormed, LoadIsCurrent, Lock, Release
  <2>2. ActorIsDatabase'
    BY <1>4 DEF IInv, TypeOK, TasksWellFormed, ActorIsDatabase, Lock, Release, UnderLock, Stored
  <2>3. DatabaseSound'
    BY <1>4 DEF IInv, TypeOK, TasksWellFormed, DatabaseSound, ActorIsDatabase, Lock, Release, Shown, Stored, UnderLock
  <2> QED BY <1>1, <1>2, <1>3, <2>1, <2>2, <2>3 DEF IInv
<1>5. CASE ~row.exists
  <2>1. ~row'.exists
    BY <1>5 DEF Lock
  <2> QED BY <1>1, <1>2, <1>3, <2>1 DEF IInv
<1> QED BY <1>4, <1>5

(* A sync answer or a capture shows the committed replica.                  *)
LEMMA ReadStep ==
  ASSUME IInv, NEW w \in Workers, Read(w)
  PROVE  IInv'
<1> USE DocumentAssumption
<1>1. TypeOK'
  BY DEF IInv, TypeOK, Read, Release, Shown, Steps, Fields, TasksWellFormed, UnderLock
<1>2. TasksWellFormed'
  BY DEF IInv, TypeOK, TasksWellFormed, Read, Release, UnderLock
<1>3. LogIsGapless' /\ IsFiniteSet(log)'
  BY DEF IInv, LogIsGapless, Read
<1>4. CASE row.exists
  <2>1. LoadIsCurrent'
    BY <1>4 DEF IInv, TypeOK, TasksWellFormed, LoadIsCurrent, Read, Release
  <2>2. ActorIsDatabase'
    BY <1>4 DEF IInv, TypeOK, TasksWellFormed, ActorIsDatabase, Read, Release, UnderLock, Stored
  <2>3. DatabaseSound'
    BY <1>4 DEF IInv, TypeOK, TasksWellFormed, DatabaseSound, ActorIsDatabase, Read, Release, Shown, Stored, UnderLock
  <2> QED BY <1>1, <1>2, <1>3, <2>1, <2>2, <2>3 DEF IInv
<1>5. CASE ~row.exists
  <2>1. ~row'.exists
    BY <1>5 DEF Read
  <2> QED BY <1>1, <1>2, <1>3, <2>1 DEF IInv
<1> QED BY <1>4, <1>5

(* A refused update leaves no trace.                                        *)
LEMMA RefuseStep ==
  ASSUME IInv, NEW w \in Workers, Refuse(w)
  PROVE  IInv'
<1> USE DocumentAssumption
<1>1. TypeOK'
  BY DEF IInv, TypeOK, Refuse, Release, Shown, Steps, Fields
<1>2. TasksWellFormed'
  BY DEF IInv, TypeOK, TasksWellFormed, Refuse, Release, UnderLock
<1>3. LogIsGapless' /\ IsFiniteSet(log)'
  BY DEF IInv, LogIsGapless, Refuse
<1>4. CASE row.exists
  <2>1. LoadIsCurrent'
    BY <1>4 DEF IInv, TypeOK, TasksWellFormed, LoadIsCurrent, Refuse, Release
  <2>2. ActorIsDatabase'
    BY <1>4 DEF IInv, TypeOK, TasksWellFormed, ActorIsDatabase, Refuse, Release, UnderLock, Stored
  <2>3. DatabaseSound'
    BY <1>4 DEF IInv, TypeOK, TasksWellFormed, DatabaseSound, ActorIsDatabase, Refuse, Release, Shown, Stored, UnderLock
  <2> QED BY <1>1, <1>2, <1>3, <2>1, <2>2, <2>3 DEF IInv
<1>5. CASE ~row.exists
  <2>1. ~row'.exists
    BY <1>5 DEF Refuse
  <2> QED BY <1>1, <1>2, <1>3, <2>1 DEF IInv
<1> QED BY <1>4, <1>5

(* An update with nothing new goes on to its ACK.                           *)
LEMMA IdempotentStep ==
  ASSUME IInv, NEW w \in Workers, Idempotent(w)
  PROVE  IInv'
<1> USE DocumentAssumption
<1>1. TypeOK'
  BY DEF IInv, TypeOK, Idempotent, Release, Shown, Steps, Fields
<1>2. TasksWellFormed'
  BY DEF IInv, TypeOK, TasksWellFormed, Idempotent, Release, UnderLock
<1>3. LogIsGapless' /\ IsFiniteSet(log)'
  BY DEF IInv, LogIsGapless, Idempotent
<1>4. CASE row.exists
  <2>1. LoadIsCurrent'
    BY <1>4 DEF IInv, TypeOK, TasksWellFormed, LoadIsCurrent, Idempotent, Release
  <2>2. ActorIsDatabase'
    BY <1>4 DEF IInv, TypeOK, TasksWellFormed, ActorIsDatabase, Idempotent, Release, UnderLock, Stored, NoOp
  <2>3. DatabaseSound'
    BY <1>4 DEF IInv, TypeOK, TasksWellFormed, DatabaseSound, ActorIsDatabase, Idempotent, Release, Shown, Stored, UnderLock
  <2> QED BY <1>1, <1>2, <1>3, <2>1, <2>2, <2>3 DEF IInv
<1>5. CASE ~row.exists
  <2>1. ~row'.exists
    BY <1>5 DEF Idempotent
  <2> QED BY <1>1, <1>2, <1>3, <2>1 DEF IInv
<1> QED BY <1>4, <1>5

(* No compaction is due.                                                    *)
LEMMA SkipCompactStep ==
  ASSUME IInv, NEW w \in Workers, SkipCompact(w)
  PROVE  IInv'
<1> USE DocumentAssumption
<1>1. TypeOK'
  BY DEF IInv, TypeOK, SkipCompact, Release, Shown, Steps, Fields
<1>2. TasksWellFormed'
  BY DEF IInv, TypeOK, TasksWellFormed, SkipCompact, Release, UnderLock
<1>3. LogIsGapless' /\ IsFiniteSet(log)'
  BY DEF IInv, LogIsGapless, SkipCompact
<1>4. CASE row.exists
  <2>1. LoadIsCurrent'
    BY <1>4 DEF IInv, TypeOK, TasksWellFormed, LoadIsCurrent, SkipCompact, Release
  <2>2. ActorIsDatabase'
    BY <1>4 DEF IInv, TypeOK, TasksWellFormed, ActorIsDatabase, SkipCompact, Release, UnderLock, Stored
  <2>3. DatabaseSound'
    BY <1>4 DEF IInv, TypeOK, TasksWellFormed, DatabaseSound, ActorIsDatabase, SkipCompact, Release, Shown, Stored, UnderLock
  <2> QED BY <1>1, <1>2, <1>3, <2>1, <2>2, <2>3 DEF IInv
<1>5. CASE ~row.exists
  <2>1. ~row'.exists
    BY <1>5 DEF SkipCompact
  <2> QED BY <1>1, <1>2, <1>3, <2>1 DEF IInv
<1> QED BY <1>4, <1>5

(* The ACK shows the update's operations.                                   *)
LEMMA ReplyStep ==
  ASSUME IInv, NEW w \in Workers, Reply(w)
  PROVE  IInv'
<1> USE DocumentAssumption
<1>1. TypeOK'
  BY DEF IInv, TypeOK, Reply, Release, Shown, Steps, Fields, TasksWellFormed
<1>2. TasksWellFormed'
  BY DEF IInv, TypeOK, TasksWellFormed, Reply, Release, UnderLock
<1>3. LogIsGapless' /\ IsFiniteSet(log)'
  BY DEF IInv, LogIsGapless, Reply
<1>4. CASE row.exists
  <2>1. LoadIsCurrent'
    BY <1>4 DEF IInv, TypeOK, TasksWellFormed, LoadIsCurrent, Reply, Release
  <2>2. ActorIsDatabase'
    BY <1>4 DEF IInv, TypeOK, TasksWellFormed, ActorIsDatabase, Reply, Release, UnderLock, Stored
  <2>3. DatabaseSound'
    BY <1>4 DEF IInv, TypeOK, TasksWellFormed, DatabaseSound, ActorIsDatabase, Reply, Release, Shown, Stored, UnderLock
  <2> QED BY <1>1, <1>2, <1>3, <2>1, <2>2, <2>3 DEF IInv
<1>5. CASE ~row.exists
  <2>1. ~row'.exists
    BY <1>5 DEF Reply
  <2> QED BY <1>1, <1>2, <1>3, <2>1 DEF IInv
<1> QED BY <1>4, <1>5

-----------------------------------------------------------------------------
(* Steps that change the cache, an actor or the database.                   *)

(* Loading replays the whole tail of the log: the new actor is the          *)
(* database.                                                                *)
LEMMA FinishLoadStep ==
  ASSUME IInv, NEW w \in Workers, FinishLoad(w)
  PROVE  IInv'
<1> USE DocumentAssumption
<1> DEFINE tail == {e \in log : e.seq > loaded.seq}
           new == LoadedActor(loaded, tail)
<1>1. PICK a \in Actors :
        /\ a # cache /\ \A v \in Workers : actor[v] # a
        /\ mem' = [mem EXCEPT ![a] = new]
        /\ cache' = a
        /\ actor' = [actor EXCEPT ![w] = a]
  BY DEF FinishLoad
<1>2. /\ pc[w] = "loading" /\ loading' = None /\ loaded' = NothingLoaded
      /\ pc' = [pc EXCEPT ![w] = "borrowed"]
      /\ row' = row /\ log' = log /\ job' = job /\ ticket' = ticket /\ seen' = seen
  BY DEF FinishLoad
<1>3. IsFiniteSet(tail) /\ Cardinality(tail) \in Nat
  BY FS_Subset, FS_CardinalityType DEF IInv
<1>4. loaded.state \subseteq Ops /\ Cardinality(loaded.state) \in Nat /\ loaded.seq \in Nat
  <2>1. loaded.state \subseteq Ops /\ loaded.seq \in Nat
    BY DEF IInv, TypeOK
  <2> QED BY <2>1, FS_Subset, FS_CardinalityType
<1>5. new.committed \subseteq Ops
  <2>1. loaded.state \cup UNION {e.ops : e \in tail} \subseteq Ops
    BY <1>4 DEF IInv, TypeOK, LogRow
  <2> QED BY <2>1, VisibleSubset DEF LoadedActor
<1>6. row.exists =>
        /\ new.committed = Stored(row, log) /\ new.last_seq \in Nat
        /\ new.last_seq + 1 = row.next_seq
  <2> SUFFICES ASSUME row.exists
               PROVE  /\ new.committed = Stored(row, log) /\ new.last_seq \in Nat
                      /\ new.last_seq + 1 = row.next_seq
    OBVIOUS
  <2>1. loading = w /\ loading # None
    BY <1>2 DEF IInv, TasksWellFormed
  <2>2. loaded = [state |-> row.state, seq |-> row.snapshot_seq]
    BY <2>1 DEF IInv, LoadIsCurrent
  <2>3. row.snapshot_seq \in Nat /\ row.next_seq \in Nat /\ row.snapshot_seq < row.next_seq
    BY DEF IInv, TypeOK, Row, DatabaseSound
  <2>4. {e.seq : e \in log} = {n \in 1..row.next_seq : row.snapshot_seq < n /\ n < row.next_seq}
    BY DEF IInv, LogIsGapless
  <2>5. tail = log
    BY <2>2, <2>4
  <2>6. new.committed = Stored(row, log)
    BY <2>2, <2>5, VisibleClosed DEF LoadedActor, Stored, IInv, DatabaseSound
  <2>7. new.last_seq = row.next_seq - 1
    <3>1. new.last_seq = Highest({e.seq : e \in log}, row.snapshot_seq)
      BY <2>2, <2>5 DEF LoadedActor
    <3> QED BY <3>1, <2>3, <2>4, HighestOfTail
  <2> QED BY <2>3, <2>6, <2>7
<1>7. ~row.exists => tail = {} /\ new.last_seq = loaded.seq
  BY DEF IInv, TasksWellFormed, LoadedActor, Highest
<1>8. new \in Fields
  <2>1. new.last_seq \in Nat
    BY <1>4, <1>6, <1>7 DEF IInv, TypeOK
  <2> QED BY <1>3, <1>4, <1>5, <2>1 DEF LoadedActor, Fields
<1>9. TypeOK'
  BY <1>1, <1>2, <1>8 DEF IInv, TypeOK, Steps, NothingLoaded
<1>10. TasksWellFormed'
  BY <1>1, <1>2 DEF IInv, TypeOK, TasksWellFormed, UnderLock
<1>11. LogIsGapless' /\ IsFiniteSet(log)'
  BY <1>2 DEF IInv, LogIsGapless
<1>12. CASE row.exists
  <2>1. cache = None
    BY <1>2, <1>12 DEF IInv, TasksWellFormed, LoadIsCurrent
  <2>2. \A v \in Workers : actor[v] = None /\ pc[v] \notin UnderLock
    BY <1>12, <2>1 DEF IInv, ActorIsDatabase, TasksWellFormed
  <2>3. LoadIsCurrent'
    BY <1>2 DEF LoadIsCurrent
  <2>4. mem'[cache'] = new
    BY <1>1 DEF IInv, TypeOK
  <2>5. \A v \in Workers : pc'[v] \notin UnderLock
    BY <1>2, <2>2 DEF UnderLock, IInv, TypeOK
  <2>6. \A v \in Workers : actor'[v] # None => actor'[v] = cache'
    BY <1>1, <2>2 DEF IInv, TypeOK
  <2>7. \A v \in Workers : pc'[v] = "reply" => OpsOf[job'[v]] \subseteq Stored(row', log')
    BY <1>2, <1>12 DEF IInv, TypeOK, ActorIsDatabase
  <2>8. ActorIsDatabase'
    BY <1>2, <1>6, <1>12, <2>4, <2>5, <2>6, <2>7 DEF ActorIsDatabase, UnderLock
  <2>9. DatabaseSound'
    BY <1>2, <1>12 DEF IInv, DatabaseSound
  <2> QED BY <1>9, <1>10, <1>11, <2>3, <2>8, <2>9 DEF IInv
<1>13. CASE ~row.exists
  BY <1>2, <1>9, <1>10, <1>11, <1>13 DEF IInv
<1> QED BY <1>12, <1>13

(* The tail of the log after one more sequence number.                      *)
LEMMA TailGrows ==
  ASSUME NEW s \in Nat, NEW x \in Nat, s < x
  PROVE  {n \in 1..(x + 1) : s < n /\ n < x + 1} = {n \in 1..x : s < n /\ n < x} \cup {x}
OBVIOUS

(* Appending inserts a new row at next_seq: under the lock the actor holds  *)
(* every stored update, so an accepted one cannot be in the log already.    *)
LEMMA AppendStep ==
  ASSUME IdsIdentify, IInv, NEW w \in Workers, Append(w)
  PROVE  IInv'
<1> USE DocumentAssumption
<1> DEFINE u == job[w]
           f == mem[cache]
           e0 == [seq |-> row.next_seq, id |-> IdOf[u], ops |-> OpsOf[u]]
<1>1. /\ pc[w] = "locked" /\ u \in Updates /\ row.exists
      /\ Acceptable(mem[actor[w]], u)
      /\ pc' = [pc EXCEPT ![w] = "appended"]
      /\ cache' = cache /\ mem' = mem /\ loading' = loading /\ loaded' = loaded
      /\ job' = job /\ actor' = actor /\ seen' = seen
  BY DEF Append, IInv, TypeOK
<1>2. actor[w] = cache /\ cache # None /\ cache \in Actors
  BY <1>1 DEF IInv, TypeOK, TasksWellFormed, ActorIsDatabase, UnderLock
<1>3. \A v \in Workers \ {w} : pc[v] \notin UnderLock
  BY <1>1 DEF IInv, ActorIsDatabase, UnderLock
<1>4. Stored(row, log) = f.committed /\ f.last_seq + 1 = row.next_seq
  BY <1>1, <1>2, <1>3 DEF IInv, ActorIsDatabase, UnderLock
<1>5. {e \in log : e.id = IdOf[u]} = {}
  <2> SUFFICES ASSUME NEW e \in log, e.id = IdOf[u] PROVE FALSE
    OBVIOUS
  <2>1. e.ops = OpsOf[u]
    BY <1>1 DEF IInv, DatabaseSound, IdsIdentify
  <2>2. e.ops \subseteq Stored(row, log)
    BY DEF Stored
  <2> QED BY <1>1, <1>2, <1>4, <2>1, <2>2 DEF Acceptable, NoOp
<1>6. /\ log' = log \cup {e0}
      /\ row' = [row EXCEPT !.next_seq = @ + 1]
      /\ ticket' = [ticket EXCEPT ![w] = row.next_seq]
  BY <1>5 DEF Append
<1>7. e0 \in LogRow /\ e0.seq = row.next_seq /\ e0.id = IdOf[u] /\ e0.ops = OpsOf[u]
  BY <1>1 DEF IInv, TypeOK, Row, LogRow
<1> HIDE DEF e0
<1>8. TypeOK'
  BY <1>1, <1>6, <1>7 DEF IInv, TypeOK, Row, Steps
<1>9. IsFiniteSet(log)'
  BY <1>6, FS_AddElement DEF IInv
<1>10. TasksWellFormed'
  BY <1>1, <1>6 DEF IInv, TypeOK, Row, TasksWellFormed, UnderLock
<1>11. /\ row'.exists /\ row'.state = row.state /\ row'.snapshot_seq = row.snapshot_seq
       /\ row'.next_seq = row.next_seq + 1 /\ row.next_seq \in Nat /\ row.snapshot_seq \in Nat
       /\ row.snapshot_seq < row.next_seq
  BY <1>1, <1>6 DEF IInv, TypeOK, Row, DatabaseSound
<1>12. Stored(row', log') = Stored(row, log) \cup OpsOf[u]
  <2>1. UNION {e.ops : e \in log'} = (UNION {e.ops : e \in log}) \cup OpsOf[u]
    BY <1>6, <1>7
  <2> QED BY <2>1, <1>11 DEF Stored
<1>13. LogIsGapless'
  <2>1. {e.seq : e \in log} = {n \in 1..row.next_seq : row.snapshot_seq < n /\ n < row.next_seq}
    BY <1>1 DEF IInv, LogIsGapless
  <2>2. {e.seq : e \in log'} = {e.seq : e \in log} \cup {row.next_seq}
    BY <1>6, <1>7
  <2>3. {e.seq : e \in log'} = {n \in 1..row'.next_seq : row'.snapshot_seq < n /\ n < row'.next_seq}
    <3>1. {n \in 1..(row.next_seq + 1) : row.snapshot_seq < n /\ n < row.next_seq + 1}
            = {n \in 1..row.next_seq : row.snapshot_seq < n /\ n < row.next_seq} \cup {row.next_seq}
      BY <1>11, TailGrows
    <3> QED BY <3>1, <1>11, <2>1, <2>2
  <2>4. \A e \in log : e.seq # row.next_seq /\ e.id # IdOf[u]
    <3>1. \A e \in log : e.seq \in {n \in 1..row.next_seq : row.snapshot_seq < n /\ n < row.next_seq}
      BY <2>1
    <3> QED BY <3>1, <1>5, <1>11
  <2>5. \A e, g \in log' : e.seq = g.seq \/ e.id = g.id => e = g
    BY <1>6, <1>7, <2>4 DEF IInv, LogIsGapless
  <2> QED BY <1>11, <2>3, <2>5 DEF LogIsGapless
<1>14. LoadIsCurrent'
  BY <1>1, <1>2 DEF IInv, LoadIsCurrent
<1>15. ActorIsDatabase'
  <2>1. \A v \in Workers : actor'[v] # None => actor'[v] = cache'
    BY <1>1 DEF IInv, ActorIsDatabase
  <2>2. \A v, x \in Workers : pc'[v] \in UnderLock /\ pc'[x] \in UnderLock => v = x
    BY <1>1, <1>3 DEF IInv, TypeOK, UnderLock
  <2>3. pc'[w] = "appended" /\ ticket'[w] + 1 = row'.next_seq
    BY <1>1, <1>6, <1>11 DEF IInv, TypeOK
  <2>4. Stored(row', log') = mem'[cache'].committed \cup OpsOf[job'[w]]
    BY <1>1, <1>4, <1>12
  <2>5. \A v \in Workers :
          /\ pc'[v] = "applied" => OpsOf[job'[v]] \subseteq mem'[cache'].committed
          /\ pc'[v] = "reply" => OpsOf[job'[v]] \subseteq Stored(row', log')
    BY <1>1, <1>12 DEF IInv, TypeOK, ActorIsDatabase
  <2> QED BY <2>1, <2>2, <2>3, <2>4, <2>5 DEF ActorIsDatabase
<1>16. DatabaseSound'
  <2>1. Closed(Stored(row', log'))
    BY <1>1, <1>2, <1>4, <1>12, AcceptKeepsClosed DEF Acceptable, IInv, DatabaseSound
  <2>2. \A e \in log' : \E x \in Updates : e.id = IdOf[x] /\ e.ops = OpsOf[x]
    BY <1>1, <1>6, <1>7 DEF IInv, DatabaseSound
  <2> QED BY <1>1, <1>11, <1>12, <2>1, <2>2 DEF IInv, DatabaseSound
<1> QED BY <1>8, <1>9, <1>10, <1>13, <1>14, <1>15, <1>16 DEF IInv

(* Importing makes the actor equal to the database again.                   *)
LEMMA ImportStep ==
  ASSUME IInv, NEW w \in Workers, Import(w)
  PROVE  IInv'
<1> USE DocumentAssumption
<1> DEFINE u == job[w]
           a == actor[w]
<1>1. /\ pc[w] = "appended" /\ u \in Updates /\ a \in Actors
      /\ mem' = [mem EXCEPT ![a].committed = @ \cup OpsOf[u],
                            ![a].last_seq = ticket[w],
                            ![a].updates = @ + 1]
      /\ row' = row /\ log' = log /\ cache' = cache /\ loading' = loading
      /\ loaded' = loaded /\ ticket' = [ticket EXCEPT ![w] = 0] /\ seen' = seen
      /\ job' = job
      /\ \/ pc' = [pc EXCEPT ![w] = "reply"] /\ actor' = [actor EXCEPT ![w] = None]
         \/ pc' = [pc EXCEPT ![w] = "applied"] /\ actor' = actor
  BY DEF Import, Release, IInv, TypeOK, TasksWellFormed, UnderLock
<1>2. /\ mem'[a].committed = mem[a].committed \cup OpsOf[u]
      /\ mem'[a].last_seq = ticket[w]
      /\ mem' \in [Actors -> Fields]
  BY <1>1 DEF IInv, TypeOK, Fields
<1>3. TypeOK'
  BY <1>1, <1>2 DEF IInv, TypeOK, Steps
<1>4. TasksWellFormed'
  BY <1>1 DEF IInv, TypeOK, TasksWellFormed, UnderLock
<1>5. LogIsGapless' /\ IsFiniteSet(log)'
  BY <1>1 DEF IInv, LogIsGapless
<1>6. CASE row.exists
  <2>1. a = cache /\ cache # None
    BY <1>1, <1>6 DEF IInv, ActorIsDatabase
  <2>2. \A v \in Workers \ {w} : pc[v] \notin UnderLock
    BY <1>1, <1>6 DEF IInv, ActorIsDatabase, UnderLock
  <2>3. ticket[w] + 1 = row.next_seq /\ Stored(row, log) = mem[cache].committed \cup OpsOf[u]
    BY <1>1, <1>6, <2>1, <2>2 DEF IInv, ActorIsDatabase, UnderLock
  <2>4. mem'[cache'].last_seq + 1 = row'.next_seq /\ Stored(row', log') = mem'[cache'].committed
    BY <1>1, <1>2, <2>1, <2>3
  <2>5. \A v \in Workers : pc'[v] # "appended"
    BY <1>1, <2>2 DEF IInv, TypeOK, UnderLock
  <2>6. \A v \in Workers : actor'[v] # None => actor'[v] = cache'
    BY <1>1, <1>6 DEF IInv, TypeOK, ActorIsDatabase
  <2>7. \A v, x \in Workers : pc'[v] \in UnderLock /\ pc'[x] \in UnderLock => v = x
    BY <1>1, <2>2 DEF IInv, TypeOK, UnderLock
  <2>8. \A v \in Workers :
          /\ pc'[v] = "applied" => OpsOf[job'[v]] \subseteq mem'[cache'].committed
          /\ pc'[v] = "reply" => OpsOf[job'[v]] \subseteq Stored(row', log')
    BY <1>1, <1>2, <1>6, <2>1, <2>2, <2>3 DEF IInv, TypeOK, ActorIsDatabase, UnderLock
  <2>9. ActorIsDatabase'
    BY <2>4, <2>5, <2>6, <2>7, <2>8 DEF ActorIsDatabase
  <2>10. LoadIsCurrent' /\ DatabaseSound'
    BY <1>1, <1>6, <2>1 DEF IInv, LoadIsCurrent, DatabaseSound
  <2> QED BY <1>3, <1>4, <1>5, <2>9, <2>10 DEF IInv
<1>7. CASE ~row.exists
  BY <1>1, <1>3, <1>4, <1>5, <1>7 DEF IInv
<1> QED BY <1>6, <1>7

(* Compaction moves the log into the snapshot without changing the content. *)
LEMMA CompactStep ==
  ASSUME IInv, NEW w \in Workers, Compact(w)
  PROVE  IInv'
<1> USE DocumentAssumption
<1> DEFINE a == actor[w]
           f == mem[a]
<1>1. /\ pc[w] = "applied" /\ row.exists /\ a \in Actors /\ f \in Fields
      /\ row' = [row EXCEPT !.state = f.committed, !.snapshot_seq = f.last_seq]
      /\ log' = {e \in log : e.seq > f.last_seq}
      /\ mem' = [mem EXCEPT ![a].base = Cardinality(f.committed), ![a].updates = 0]
      /\ pc' = [pc EXCEPT ![w] = "reply"] /\ actor' = [actor EXCEPT ![w] = None]
      /\ job' = job /\ cache' = cache /\ loading' = loading /\ loaded' = loaded
      /\ ticket' = ticket /\ seen' = seen
  BY DEF Compact, Release, IInv, TypeOK, TasksWellFormed, UnderLock
<1>2. a = cache /\ cache # None /\ \A v \in Workers \ {w} : pc[v] \notin UnderLock
  BY <1>1 DEF IInv, ActorIsDatabase, UnderLock
<1>3. Stored(row, log) = f.committed /\ f.last_seq + 1 = row.next_seq
  BY <1>1, <1>2 DEF IInv, ActorIsDatabase, UnderLock
<1>4. Cardinality(f.committed) \in Nat
  BY <1>1, FS_Subset, FS_CardinalityType DEF Fields
<1>5. /\ mem'[a].committed = f.committed /\ mem'[a].last_seq = f.last_seq
      /\ mem' \in [Actors -> Fields]
  BY <1>1, <1>4 DEF IInv, TypeOK, Fields
<1>6. /\ row'.exists /\ row'.state = f.committed /\ row'.snapshot_seq = f.last_seq
      /\ row'.next_seq = row.next_seq /\ row' \in Row
      /\ f.last_seq \in Nat /\ row.next_seq \in Nat
  BY <1>1 DEF IInv, TypeOK, Row, Fields
<1>7. TypeOK'
  BY <1>1, <1>5, <1>6 DEF IInv, TypeOK, Steps
<1>8. TasksWellFormed'
  BY <1>1, <1>6 DEF IInv, TypeOK, TasksWellFormed, UnderLock
<1>9. log' = {}
  <2>1. {e.seq : e \in log} = {n \in 1..row.next_seq : row.snapshot_seq < n /\ n < row.next_seq}
    BY <1>1 DEF IInv, LogIsGapless
  <2>2. \A e \in log : e.seq \in {n \in 1..row.next_seq : row.snapshot_seq < n /\ n < row.next_seq}
    BY <2>1
  <2> QED BY <1>1, <1>3, <1>6, <2>2
<1>10. IsFiniteSet(log)' /\ LogIsGapless'
  BY <1>3, <1>6, <1>9, FS_EmptySet DEF LogIsGapless
<1>11. Stored(row', log') = Stored(row, log)
  BY <1>3, <1>6, <1>9 DEF Stored
<1>12. LoadIsCurrent'
  BY <1>1, <1>2 DEF IInv, LoadIsCurrent
<1>13. ActorIsDatabase'
  <2>1. \A v \in Workers : pc'[v] \notin UnderLock
    BY <1>1, <1>2 DEF IInv, TypeOK, UnderLock
  <2>2. \A v \in Workers : actor'[v] # None => actor'[v] = cache'
    BY <1>1, <1>2 DEF IInv, TypeOK, ActorIsDatabase
  <2>3. mem'[cache'].last_seq + 1 = row'.next_seq /\ Stored(row', log') = mem'[cache'].committed
    BY <1>1, <1>2, <1>3, <1>5, <1>6, <1>11
  <2>4. \A v \in Workers : pc'[v] = "reply" => OpsOf[job'[v]] \subseteq Stored(row', log')
    <3>1. OpsOf[job[w]] \subseteq Stored(row, log)
      BY <1>1, <1>2, <1>3 DEF IInv, ActorIsDatabase
    <3>2. \A v \in Workers : pc[v] = "reply" => OpsOf[job[v]] \subseteq Stored(row, log)
      BY <1>1 DEF IInv, ActorIsDatabase
    <3>3. \A v \in Workers : pc'[v] = "reply" => v = w \/ pc[v] = "reply"
      BY <1>1 DEF IInv, TypeOK
    <3> QED BY <1>1, <1>11, <3>1, <3>2, <3>3
  <2> QED BY <2>1, <2>2, <2>3, <2>4 DEF ActorIsDatabase, UnderLock
<1>14. DatabaseSound'
  <2>1. Closed(Stored(row, log)) /\ seen \subseteq Stored(row, log)
    BY <1>1 DEF IInv, DatabaseSound
  <2>2. row'.snapshot_seq < row'.next_seq
    BY <1>3, <1>6
  <2> HIDE DEF f, a
  <2> QED BY <1>1, <1>9, <1>11, <2>1, <2>2 DEF DatabaseSound
<1> QED BY <1>7, <1>8, <1>10, <1>12, <1>13, <1>14 DEF IInv

(* A compaction that the database refused moves only base_snapshot_bytes.   *)
LEMMA CompactFailsStep ==
  ASSUME IInv, NEW w \in Workers, CompactFails(w)
  PROVE  IInv'
<1> USE DocumentAssumption
<1> DEFINE a == actor[w]
           f == mem[a]
<1>1. /\ pc[w] = "applied" /\ a \in Actors /\ f \in Fields
      /\ mem' = [mem EXCEPT ![a].base = Cardinality(f.committed)]
      /\ pc' = [pc EXCEPT ![w] = "reply"] /\ actor' = [actor EXCEPT ![w] = None]
      /\ row' = row /\ log' = log
      /\ job' = job /\ cache' = cache /\ loading' = loading /\ loaded' = loaded
      /\ ticket' = ticket /\ seen' = seen
  BY DEF CompactFails, Release, IInv, TypeOK, TasksWellFormed, UnderLock
<1>2. Cardinality(f.committed) \in Nat
  BY <1>1, FS_Subset, FS_CardinalityType DEF Fields
<1>3. /\ \A b \in Actors : /\ mem'[b].committed = mem[b].committed
                           /\ mem'[b].last_seq = mem[b].last_seq
      /\ mem' \in [Actors -> Fields]
  BY <1>1, <1>2 DEF IInv, TypeOK, Fields
<1>4. TypeOK'
  BY <1>1, <1>3 DEF IInv, TypeOK, Steps
<1>5. TasksWellFormed'
  BY <1>1 DEF IInv, TypeOK, TasksWellFormed, UnderLock
<1>6. LogIsGapless' /\ IsFiniteSet(log)'
  BY <1>1 DEF IInv, LogIsGapless
<1>7. CASE row.exists
  <2>1. a = cache /\ cache # None /\ \A v \in Workers \ {w} : pc[v] \notin UnderLock
    BY <1>1, <1>7 DEF IInv, ActorIsDatabase, UnderLock
  <2>2. Stored(row, log) = f.committed /\ f.last_seq + 1 = row.next_seq
    BY <1>1, <1>7, <2>1 DEF IInv, ActorIsDatabase, UnderLock
  <2>3. mem'[cache'].last_seq + 1 = row'.next_seq /\ Stored(row', log') = mem'[cache'].committed
    BY <1>1, <1>3, <2>1, <2>2
  <2>4. \A v \in Workers : pc'[v] \notin UnderLock
    BY <1>1, <2>1 DEF IInv, TypeOK, UnderLock
  <2>5. \A v \in Workers : actor'[v] # None => actor'[v] = cache'
    BY <1>1, <1>7 DEF IInv, TypeOK, ActorIsDatabase
  <2>6. \A v \in Workers : pc'[v] = "reply" => OpsOf[job'[v]] \subseteq Stored(row', log')
    BY <1>1, <1>7, <2>1, <2>2 DEF IInv, TypeOK, ActorIsDatabase
  <2>7. ActorIsDatabase'
    BY <2>3, <2>4, <2>5, <2>6 DEF ActorIsDatabase, UnderLock
  <2>8. LoadIsCurrent' /\ DatabaseSound'
    BY <1>1, <1>7, <2>1 DEF IInv, LoadIsCurrent, DatabaseSound
  <2> QED BY <1>4, <1>5, <1>6, <2>7, <2>8 DEF IInv
<1>8. CASE ~row.exists
  BY <1>1, <1>4, <1>5, <1>6, <1>8 DEF IInv
<1> QED BY <1>7, <1>8

(* An actor nobody borrows can be dropped: a later load rebuilds it.        *)
LEMMA TrimStep ==
  ASSUME IInv, Trim
  PROVE  IInv'
<1> USE DocumentAssumption
<1>1. /\ cache \in Actors /\ loading = None /\ \A w \in Workers : actor[w] # cache
      /\ cache' = None /\ mem' = [mem EXCEPT ![cache] = NoFields]
      /\ row' = row /\ log' = log /\ loading' = loading /\ loaded' = loaded
      /\ pc' = pc /\ job' = job /\ actor' = actor /\ ticket' = ticket /\ seen' = seen
  BY DEF Trim, IInv, TypeOK
<1>2. TypeOK'
  BY <1>1 DEF IInv, TypeOK, NoFields, Fields
<1>3. TasksWellFormed' /\ LogIsGapless' /\ IsFiniteSet(log)'
  BY <1>1 DEF IInv, TasksWellFormed, LogIsGapless
<1>4. CASE row.exists
  <2>1. \A w \in Workers : actor[w] = None /\ pc[w] \notin UnderLock
    BY <1>1, <1>4 DEF IInv, ActorIsDatabase, TasksWellFormed
  <2>2. ActorIsDatabase'
    BY <1>1, <1>4, <2>1 DEF IInv, ActorIsDatabase, UnderLock
  <2>3. LoadIsCurrent' /\ DatabaseSound'
    BY <1>1, <1>4 DEF IInv, LoadIsCurrent, DatabaseSound
  <2> QED BY <1>2, <1>3, <2>2, <2>3 DEF IInv
<1>5. CASE ~row.exists
  BY <1>1, <1>2, <1>3, <1>5 DEF IInv
<1> QED BY <1>4, <1>5

(* Deletion empties the log with the row.                                   *)
LEMMA DeleteDocumentStep ==
  ASSUME IInv, DeleteDocument
  PROVE  IInv'
<1> USE DocumentAssumption
<1>1. /\ row' \in Row /\ ~row'.exists /\ row'.state = {} /\ log' = {}
      /\ UNCHANGED <<cache, mem, loading, loaded, pc, job, actor, ticket, seen>>
  BY DEF DeleteDocument, IInv, TypeOK, Row
<1>2. TypeOK'
  BY <1>1 DEF IInv, TypeOK
<1>3. TasksWellFormed'
  BY <1>1 DEF IInv, TasksWellFormed
<1>4. LogIsGapless' /\ IsFiniteSet(log)'
  BY <1>1, FS_EmptySet DEF LogIsGapless
<1> QED BY <1>1, <1>2, <1>3, <1>4 DEF IInv

(* Eviction follows a deletion.                                             *)
LEMMA EvictStep ==
  ASSUME IInv, Evict
  PROVE  IInv'
<1> USE DocumentAssumption
<1>1. /\ ~row.exists /\ cache' = None
      /\ UNCHANGED <<row, log, mem, loading, loaded, pc, job, actor, ticket, seen>>
  BY DEF Evict
<1>2. TypeOK' /\ TasksWellFormed' /\ LogIsGapless' /\ IsFiniteSet(log)'
  BY <1>1 DEF IInv, TypeOK, TasksWellFormed, LogIsGapless
<1> QED BY <1>1, <1>2 DEF IInv

(* A crash leaves only the database.                                        *)
LEMMA CrashStep ==
  ASSUME IInv, Crash
  PROVE  IInv'
<1> USE DocumentAssumption
<1>1. TypeOK'
  BY DEF IInv, TypeOK, Crash, NoFields, Fields, NothingLoaded, Steps
<1>2. TasksWellFormed'
  BY DEF IInv, TypeOK, TasksWellFormed, Crash, UnderLock
<1>3. LogIsGapless' /\ IsFiniteSet(log)'
  BY DEF IInv, LogIsGapless, Crash
<1>4. LoadIsCurrent' /\ ActorIsDatabase'
  BY DEF Crash, LoadIsCurrent, ActorIsDatabase, UnderLock
<1>5. row.exists => DatabaseSound'
  BY DEF IInv, DatabaseSound, Crash
<1>6. row' = row
  BY DEF Crash
<1> QED BY <1>1, <1>2, <1>3, <1>4, <1>5, <1>6 DEF IInv

-----------------------------------------------------------------------------
(* Every step keeps the invariant.                                          *)
LEMMA NextIInv ==
  ASSUME IdsIdentify, IInv, [Next]_vars
  PROVE  IInv'
<1>1. ASSUME NEW w \in Workers, WorkerStep(w)
      PROVE  IInv'
  BY <1>1, StartStep, GetCachedStep, BeginLoadStep, FinishLoadStep, LockStep,
     ReadStep, RefuseStep, IdempotentStep, AppendStep, ImportStep, CompactStep,
     CompactFailsStep, SkipCompactStep, ReplyStep DEF WorkerStep
<1>2. ASSUME Trim \/ DeleteDocument \/ Evict \/ Crash
      PROVE  IInv'
  BY <1>2, TrimStep, DeleteDocumentStep, EvictStep, CrashStep
<1>3. ASSUME UNCHANGED vars
      PROVE  IInv'
  BY <1>3 DEF vars, IInv, TypeOK, TasksWellFormed, LogIsGapless, LoadIsCurrent,
     ActorIsDatabase, DatabaseSound
<1> QED BY <1>1, <1>2, <1>3 DEF Next

(* The database, the cache and the tasks stay consistent, for every number  *)
(* of tasks, updates and operations.                                        *)
THEOREM DocumentPathConsistent ==
  ASSUME IdsIdentify
  PROVE  Spec => []IInv
BY InitIInv, NextIInv, PTL DEF Spec

(* What clients were shown as committed survives reconstruction             *)
(* (document_actor.rs:92-94).                                               *)
THEOREM AckedUpdatesSurvive ==
  ASSUME IdsIdentify
  PROVE  Spec => []AckedSurvives
<1>1. IInv => AckedSurvives
  BY VisibleClosed DEF IInv, DatabaseSound, AckedSurvives, Content
<1> QED BY <1>1, DocumentPathConsistent, PTL

(* All tasks share one actor that equals the database whenever its mutex    *)
(* is free (document_registry.rs:20-22).                                    *)
THEOREM ActorStaysCurrent ==
  ASSUME IdsIdentify
  PROVE  Spec => []OneCurrentActor
<1>1. IInv => OneCurrentActor
  BY VisibleClosed DEF IInv, ActorIsDatabase, DatabaseSound, OneCurrentActor, Content, UnderLock
<1> QED BY <1>1, DocumentPathConsistent, PTL

(* The update log is the gapless tail after the snapshot                    *)
(* (metadata lib.rs:4375-4377).                                             *)
THEOREM LogStaysGapless ==
  ASSUME IdsIdentify
  PROVE  Spec => []LogIsGapless
<1>1. IInv => LogIsGapless
  BY DEF IInv
<1> QED BY <1>1, DocumentPathConsistent, PTL

-----------------------------------------------------------------------------
(* Refinement.                                                              *)

(* Under the invariant the abstract content is what the database stores.    *)
LEMMA ContentIsStored ==
  IInv => Content = Stored(row, log) /\ Content \in SUBSET Ops
<1> SUFFICES ASSUME IInv PROVE Content = Stored(row, log) /\ Content \in SUBSET Ops
  OBVIOUS
<1>1. CASE row.exists
  <2>1. Content = Stored(row, log)
    BY <1>1, VisibleClosed DEF IInv, DatabaseSound, Content
  <2>2. row.state \subseteq Ops /\ \A e \in log : e.ops \subseteq Ops
    BY DEF IInv, TypeOK, Row, LogRow
  <2> QED BY <2>1, <2>2 DEF Stored
<1>2. CASE ~row.exists
  <2>1. Stored(row, log) = {}
    BY <1>2 DEF IInv, TasksWellFormed, Stored
  <2> QED BY <2>1, VisibleSubset DEF Content
<1> QED BY <1>1, <1>2

(* Compaction does not change what is stored.                               *)
LEMMA CompactKeepsContent ==
  ASSUME IInv, NEW w \in Workers, Compact(w)
  PROVE  Stored(row', log') = Stored(row, log)
<1> USE DocumentAssumption
<1> DEFINE a == actor[w]
           f == mem[a]
<1>1. /\ pc[w] = "applied" /\ row.exists /\ f \in Fields
      /\ row' = [row EXCEPT !.state = f.committed, !.snapshot_seq = f.last_seq]
      /\ log' = {e \in log : e.seq > f.last_seq}
  BY DEF Compact, IInv, TypeOK, TasksWellFormed, UnderLock
<1>2. a = cache /\ cache # None /\ \A v \in Workers \ {w} : pc[v] \notin UnderLock
  BY <1>1 DEF IInv, ActorIsDatabase, TasksWellFormed, UnderLock
<1>3. Stored(row, log) = f.committed /\ f.last_seq + 1 = row.next_seq
  BY <1>1, <1>2 DEF IInv, ActorIsDatabase, UnderLock
<1>4. \A e \in log : e.seq \in {n \in 1..row.next_seq : row.snapshot_seq < n /\ n < row.next_seq}
  BY <1>1 DEF IInv, LogIsGapless
<1>5. log' = {} /\ row'.state = f.committed
  BY <1>1, <1>3, <1>4 DEF IInv, TypeOK, Row, Fields
<1> QED BY <1>3, <1>5 DEF Stored

(* The initial row is an abstract initial state.                            *)
LEMMA InitRefines == Init => Promise!Init
<1> SUFFICES ASSUME Init PROVE Promise!Init
  OBVIOUS
<1>1. Content \in SUBSET Ops
  BY InitIInv, ContentIsStored
<1> QED BY <1>1 DEF Init, Promise!Init

(* Every step is an abstract step or a stutter.                             *)
LEMMA StepRefines ==
  ASSUME IdsIdentify, IInv, IInv', [Next]_vars
  PROVE  [Promise!Next]_(Promise!vars)
<1> USE DocumentAssumption
<1>1. /\ Content = Stored(row, log) /\ Content \in SUBSET Ops
      /\ Content' = Stored(row', log') /\ Content' \in SUBSET Ops
  <2>1. Content = Stored(row, log) /\ Content \in SUBSET Ops
    BY ContentIsStored
  <2>2. (Content = Stored(row, log) /\ Content \in SUBSET Ops)'
    BY ContentIsStored, PTL
  <2> QED BY <2>1, <2>2
<1>2. ASSUME UNCHANGED <<row, log, seen>>
      PROVE  UNCHANGED Promise!vars
  BY <1>2 DEF Promise!vars, Content
<1>3. ASSUME NEW w \in Workers, Read(w) \/ Reply(w)
      PROVE  Promise!Show \/ UNCHANGED Promise!vars
  <2>1. row' = row /\ log' = log /\ Content' = Content
    BY <1>3 DEF Read, Reply, Content
  <2>2. CASE ~row.exists
    BY <1>2, <1>3, <2>1, <2>2 DEF Read, Reply, Shown
  <2>3. CASE row.exists
    <3>1. seen \subseteq seen'
      BY <1>3, <2>3 DEF Read, Reply, Shown
    <3>2. seen' \subseteq Content
      BY <1>1, <2>1, <2>3 DEF IInv, DatabaseSound
    <3> QED BY <2>1, <2>3, <3>1, <3>2 DEF Promise!Show
  <2> QED BY <2>2, <2>3
<1>4. ASSUME NEW w \in Workers, Append(w)
      PROVE  Promise!Commit
  <2>1. row.exists /\ row'.exists /\ seen' = seen
    BY <1>4 DEF Append, IInv, TypeOK, Row
  <2>2. row'.state = row.state /\ log \subseteq log'
    BY <1>4 DEF Append, IInv, TypeOK, Row
  <2>3. Content \subseteq Content'
    BY <1>1, <2>2 DEF Stored
  <2> QED BY <1>1, <2>1, <2>3 DEF Promise!Commit, IInv, TypeOK, Row
<1>5. ASSUME NEW w \in Workers, Compact(w)
      PROVE  UNCHANGED Promise!vars
  <2>1. row.exists /\ row' \in Row /\ row'.exists = row.exists /\ seen' = seen
    BY <1>5 DEF Compact, IInv, TypeOK, Row
  <2>2. Content' = Content
    BY <1>1, <1>5, CompactKeepsContent
  <2> QED BY <2>1, <2>2 DEF Promise!vars
<1>6. ASSUME DeleteDocument
      PROVE  Promise!Delete
  <2>1. row.exists /\ row'.exists = FALSE /\ row'.state = {} /\ log' = {} /\ seen' = seen
    BY <1>6 DEF DeleteDocument, IInv, TypeOK, Row
  <2>2. Content' = {}
    BY <1>1, <2>1 DEF Stored
  <2> QED BY <2>1, <2>2 DEF Promise!Delete
<1>7. ASSUME NEW w \in Workers, WorkerStep(w)
      PROVE  Promise!Next \/ UNCHANGED Promise!vars
  <2>1. CASE Read(w) \/ Reply(w)
    BY <2>1, <1>3 DEF Promise!Next
  <2>2. CASE Append(w)
    BY <2>2, <1>4 DEF Promise!Next
  <2>3. CASE Compact(w)
    BY <2>3, <1>5
  <2>4. CASE \/ \E u \in Updates \cup {None} : Start(w, u)
             \/ GetCached(w) \/ BeginLoad(w) \/ FinishLoad(w)
             \/ Lock(w) \/ Refuse(w) \/ Idempotent(w)
    BY <2>4, <1>2 DEF Start, GetCached, BeginLoad, FinishLoad, Lock, Refuse, Idempotent
  <2>5. CASE Import(w) \/ CompactFails(w) \/ SkipCompact(w)
    BY <2>5, <1>2 DEF Import, CompactFails, SkipCompact
  <2> QED BY <1>7, <2>1, <2>2, <2>3, <2>4, <2>5 DEF WorkerStep
<1>8. ASSUME Trim \/ Evict \/ Crash
      PROVE  UNCHANGED Promise!vars
  BY <1>8, <1>2 DEF Trim, Evict, Crash
<1>9. ASSUME UNCHANGED vars
      PROVE  UNCHANGED Promise!vars
  BY <1>9, <1>2 DEF vars
<1> QED BY <1>6, <1>7, <1>8, <1>9 DEF Next, Promise!Next

(* The detailed document path implements the promise of DurableDocument:    *)
(* content grows by commits, clients are shown only content                 *)
(* (document_actor.rs:91-94).                                               *)
THEOREM PathImplementsPromise ==
  ASSUME IdsIdentify
  PROVE  Spec => ImplementsPromise
<1>1. Init => Promise!Init
  BY InitRefines
<1>2. IInv /\ IInv' /\ [Next]_vars => [Promise!Next]_(Promise!vars)
  BY StepRefines
<1> QED BY <1>1, <1>2, DocumentPathConsistent, PTL DEF Spec, ImplementsPromise, Promise!Spec
=============================================================================
