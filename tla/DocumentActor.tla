--------------------------- MODULE DocumentActor ---------------------------
(***************************************************************************)
(* The durable path of one collaborative document: the SQLite row and its   *)
(* update log (crates/metadata/src/lib.rs), the process-wide cache of       *)
(* loaded actors (crates/server/src/document_registry.rs), the actor itself *)
(* (document_actor.rs) and the blocking tasks that serve room messages and  *)
(* workspace restores through it (http.rs).                                 *)
(*                                                                          *)
(* A CRDT state is the set of operations it contains; Deps gives the        *)
(* operations an operation causally needs.  An encoded update is the set of *)
(* operations it carries.  Sizes are counted in operations for a snapshot   *)
(* and in updates for the log, so updates_since_snapshot stands for         *)
(* bytes_since_snapshot too.                                                *)
(***************************************************************************)
EXTENDS Naturals, FiniteSets

CONSTANTS
  Ops,        \* CRDT operations
  Deps,       \* [Ops -> SUBSET Ops], direct causal dependencies
  Updates,    \* updates that clients submit or the server authors
  OpsOf,      \* [Updates -> SUBSET Ops], what an update carries
  Ids,        \* (update_id, replica_id) pairs
  IdOf,       \* [Updates -> Ids], the pair an update is submitted under
  Replacements,  \* the updates the server authors (author_replacement)
  Seed,       \* the operations of the text a document is created with
  Invalid,    \* updates refused by decoding, size or shape checks
  Workers,    \* blocking tasks
  Actors,     \* identities of Arc<Mutex<DocumentActor>> allocations
  None,
  SnapshotThreshold,  \* snapshot_update_threshold
  MaxHistory          \* max_document_history_bytes

ASSUME DocumentAssumption ==
  /\ Deps \in [Ops -> SUBSET Ops]
  /\ OpsOf \in [Updates -> SUBSET Ops]
  /\ IdOf \in [Updates -> Ids]
  /\ Replacements \subseteq Updates /\ Invalid \subseteq Updates
  /\ None \notin Actors /\ None \notin Workers /\ None \notin Updates
  /\ SnapshotThreshold \in Nat \ {0} /\ MaxHistory \in Nat
  /\ Seed \subseteq Ops /\ \A o \in Seed : Deps[o] \subseteq Seed
  /\ IsFiniteSet(Ops)

VARIABLES
  row,      \* the document row: exists, crdt_state, snapshot_seq, next_update_seq
  log,      \* the document_update rows
  cache,    \* the registry's entry for the document: an actor or None
  mem,      \* actor -> its fields
  loading,  \* the task that holds the registry entry while it loads, or None
  loaded,   \* what that task has read of the row so far
  pc,       \* where each task is
  job,      \* the update a task serves; None for a read (sync, capture)
  actor,    \* the Arc a task holds
  ticket,   \* the server_seq append_document_update returned to a task
  seen      \* operations clients were shown as committed

vars == <<row, log, cache, mem, loading, loaded, pc, job, actor, ticket, seen>>

Row == [exists : BOOLEAN, state : SUBSET Ops, snapshot_seq : Nat, next_seq : Nat]
LogRow == [seq : Nat, id : Ids, ops : SUBSET Ops]
Fields == [committed : SUBSET Ops, last_seq : Nat, updates : Nat, base : Nat]
Steps == {"idle", "start", "loading", "borrowed", "locked", "appended", "applied", "reply"}
UnderLock == {"locked", "appended", "applied"}

TypeOK ==
  /\ row \in Row
  /\ log \in SUBSET LogRow
  /\ cache \in Actors \cup {None}
  /\ mem \in [Actors -> Fields]
  /\ loading \in Workers \cup {None}
  /\ loaded \in [state : SUBSET Ops, seq : Nat]
  /\ pc \in [Workers -> Steps]
  /\ job \in [Workers -> Updates \cup {None}]
  /\ actor \in [Workers -> Actors \cup {None}]
  /\ ticket \in [Workers -> Nat]
  /\ seen \in SUBSET Ops

-----------------------------------------------------------------------------
(* The CRDT (sift_doc::TextReplica over Loro).                              *)

Closed(S) == \A o \in S : Deps[o] \subseteq S

\* What a replica shows after importing S: operations whose dependencies are
\* missing stay pending.
Visible(S) == UNION {T \in SUBSET S : Closed(T)}

\* ImportOutcome of an update on a committed replica.
Pending(C, u) == \E o \in OpsOf[u] : ~(Deps[o] \subseteq C \cup OpsOf[u])
NoOp(C, u) == OpsOf[u] \subseteq C

\* What the row and its log hold, and what a reconstruction makes of it.
Stored(r, l) == r.state \cup UNION {e.ops : e \in l}
Content == Visible(Stored(row, log))

Highest(S, default) == IF S = {} THEN default ELSE CHOOSE m \in S : \A n \in S : n <= m

NoFields == [committed |-> {}, last_seq |-> 0, updates |-> 0, base |-> 0]
NothingLoaded == [state |-> {}, seq |-> 0]

Init ==
  /\ row = [exists |-> TRUE, state |-> Seed, snapshot_seq |-> 0, next_seq |-> 1]
  /\ log = {}
  /\ cache = None
  /\ mem = [a \in Actors |-> NoFields]
  /\ loading = None
  /\ loaded = NothingLoaded
  /\ pc = [w \in Workers |-> "idle"]
  /\ job = [w \in Workers |-> None]
  /\ actor = [w \in Workers |-> None]
  /\ ticket = [w \in Workers |-> 0]
  /\ seen = {}

-----------------------------------------------------------------------------
(* Registry: get_or_load.                                                   *)

\* The closure ends: the guard and the Arc are dropped; an error answers the
\* request at once.
Release(w, next) ==
  /\ pc' = [pc EXCEPT ![w] = next]
  /\ actor' = [actor EXCEPT ![w] = None]
  /\ job' = IF next = "idle" THEN [job EXCEPT ![w] = None] ELSE job

\* A room message or a restore reaches its blocking task.  handle_document_
\* sync and handle_document_update first read the row and stop without one.
Start(w, u) ==
  /\ pc[w] = "idle"
  /\ row.exists
  /\ pc' = [pc EXCEPT ![w] = "start"]
  /\ job' = [job EXCEPT ![w] = u]
  /\ UNCHANGED <<row, log, cache, mem, loading, loaded, actor, ticket, seen>>

\* A cached actor is shared.
GetCached(w) ==
  /\ pc[w] = "start" /\ loading = None /\ cache # None
  /\ actor' = [actor EXCEPT ![w] = cache]
  /\ pc' = [pc EXCEPT ![w] = "borrowed"]
  /\ UNCHANGED <<row, log, cache, mem, loading, loaded, job, ticket, seen>>

\* On a miss the task keeps the vacant map entry locked while it loads: first
\* the row ...
BeginLoad(w) ==
  /\ pc[w] = "start" /\ loading = None /\ cache = None
  /\ \/ /\ row.exists
        /\ loading' = w
        /\ loaded' = [state |-> row.state, seq |-> row.snapshot_seq]
        /\ pc' = [pc EXCEPT ![w] = "loading"]
        /\ UNCHANGED <<job, actor>>
     \/ /\ ~row.exists
        /\ Release(w, "idle")
        /\ UNCHANGED <<loading, loaded>>
  /\ UNCHANGED <<row, log, cache, mem, ticket, seen>>

LoadedActor(l, rows) ==
  [committed |-> Visible(l.state \cup UNION {e.ops : e \in rows}),
   last_seq  |-> Highest({e.seq : e \in rows}, l.seq),
   updates   |-> Cardinality(rows),
   base      |-> Cardinality(l.state)]

\* Defect: the log is read from the wrong end, so its tail is not replayed.
FinishLoadNoTail(w) ==
  /\ pc[w] = "loading"
  /\ \E a \in Actors :
       /\ a # cache /\ \A v \in Workers : actor[v] # a
       /\ mem' = [mem EXCEPT ![a] = LoadedActor(loaded, {e \in log : e.seq <= loaded.seq})]
       /\ cache' = a
       /\ actor' = [actor EXCEPT ![w] = a]
  /\ loading' = None
  /\ loaded' = NothingLoaded
  /\ pc' = [pc EXCEPT ![w] = "borrowed"]
  /\ UNCHANGED <<row, log, job, ticket, seen>>

\* ... then the log after its snapshot_seq; the new actor enters the cache.
FinishLoad(w) ==
  /\ pc[w] = "loading"
  /\ \E a \in Actors :
       /\ a # cache /\ \A v \in Workers : actor[v] # a
       /\ mem' = [mem EXCEPT ![a] = LoadedActor(loaded, {e \in log : e.seq > loaded.seq})]
       /\ cache' = a
       /\ actor' = [actor EXCEPT ![w] = a]
  /\ loading' = None
  /\ loaded' = NothingLoaded
  /\ pc' = [pc EXCEPT ![w] = "borrowed"]
  /\ UNCHANGED <<row, log, job, ticket, seen>>

\* Defect: trim_idle_cache without the strong_count test.
TrimBorrowed ==
  /\ cache # None /\ loading = None
  /\ cache' = None
  /\ UNCHANGED <<row, log, mem, loading, loaded, pc, job, actor, ticket, seen>>

\* trim_idle_cache, run by a miss on another document, drops the actor when
\* no task holds its Arc.
Trim ==
  /\ cache # None /\ loading = None
  /\ \A w \in Workers : actor[w] # cache
  /\ cache' = None
  /\ mem' = [mem EXCEPT ![cache] = NoFields]
  /\ UNCHANGED <<row, log, loading, loaded, pc, job, actor, ticket, seen>>

-----------------------------------------------------------------------------
(* The actor, under its mutex.                                              *)

Lock(w) ==
  /\ pc[w] = "borrowed"
  /\ \A v \in Workers : actor[v] = actor[w] => pc[v] \notin UnderLock
  /\ pc' = [pc EXCEPT ![w] = "locked"]
  /\ UNCHANGED <<row, log, cache, mem, loading, loaded, job, actor, ticket, seen>>

\* Promises are about an existing document.
Shown(S) == IF row.exists THEN seen \cup S ELSE seen

\* version_vector, snapshot, updates_since, text: a sync answer or a capture.
Read(w) ==
  /\ pc[w] = "locked" /\ job[w] = None
  /\ Release(w, "idle")
  /\ seen' = Shown(mem[actor[w]].committed)
  /\ UNCHANGED <<row, log, cache, mem, loading, loaded, ticket>>

TooLarge(f) == f.base + f.updates + 1 > MaxHistory

\* The checks of apply_update on a throwaway fork.  For a replacement, which
\* is authored on the committed state and skipped when the text is equal, they
\* say which operations it can consist of.
Acceptable(f, u) ==
  /\ u \notin Invalid
  /\ ~Pending(f.committed, u)
  /\ ~NoOp(f.committed, u)
  /\ ~TooLarge(f)

\* InvalidUpdate, DependenciesMissing, DocumentTooLarge, DocumentNotFound, a
\* SQLite error, or a replacement equal to the text: nothing changes.
Refuse(w) ==
  LET f == mem[actor[w]]
      u == job[w]
  IN /\ pc[w] = "locked" /\ u # None
     /\ NoOp(f.committed, u) => u \in Replacements \cup Invalid
     /\ Release(w, "idle")
     /\ UNCHANGED <<row, log, cache, mem, loading, loaded, ticket, seen>>

\* Nothing new: ACK without a row or a broadcast.
Idempotent(w) ==
  /\ pc[w] = "locked" /\ job[w] # None
  /\ job[w] \notin Replacements \cup Invalid
  /\ NoOp(mem[actor[w]].committed, job[w])
  /\ pc' = [pc EXCEPT ![w] = "applied"]
  /\ UNCHANGED <<row, log, cache, mem, loading, loaded, job, actor, ticket, seen>>

\* Defect: the sequence is allocated but the row is written behind.
AppendWriteBehind(w) ==
  /\ pc[w] = "locked" /\ job[w] # None
  /\ Acceptable(mem[actor[w]], job[w])
  /\ row.exists
  /\ ticket' = [ticket EXCEPT ![w] = row.next_seq]
  /\ row' = [row EXCEPT !.next_seq = @ + 1]
  /\ pc' = [pc EXCEPT ![w] = "appended"]
  /\ UNCHANGED <<log, cache, mem, loading, loaded, job, actor, seen>>

\* append_document_update: one transaction that finds a row of the same
\* (update_id, replica_id), or inserts the next one.
Append(w) ==
  LET u == job[w]
      same == {e \in log : e.id = IdOf[u]}
  IN /\ pc[w] = "locked" /\ u # None
     /\ Acceptable(mem[actor[w]], u)
     /\ row.exists
     /\ \/ /\ same = {}
           /\ log' = log \cup {[seq |-> row.next_seq, id |-> IdOf[u], ops |-> OpsOf[u]]}
           /\ row' = [row EXCEPT !.next_seq = @ + 1]
           /\ ticket' = [ticket EXCEPT ![w] = row.next_seq]
        \/ /\ \E e \in same : ticket' = [ticket EXCEPT ![w] = e.seq]
           /\ UNCHANGED <<row, log>>
     /\ pc' = [pc EXCEPT ![w] = "appended"]
     /\ UNCHANGED <<cache, mem, loading, loaded, job, actor, seen>>

\* Only now is the committed replica touched.  author_replacement ends here;
\* a room update goes on to the compaction test.
Import(w) ==
  LET a == actor[w]
      u == job[w]
  IN /\ pc[w] = "appended"
     /\ mem' = [mem EXCEPT ![a].committed = @ \cup OpsOf[u],
                           ![a].last_seq = ticket[w],
                           ![a].updates = @ + 1]
     /\ \/ /\ u \in Replacements
           /\ Release(w, "reply")
        \/ /\ u \notin Replacements
           /\ pc' = [pc EXCEPT ![w] = "applied"]
           /\ UNCHANGED <<job, actor>>
     /\ ticket' = [ticket EXCEPT ![w] = 0]
     /\ UNCHANGED <<row, log, cache, loading, loaded, seen>>

ShouldCompact(f) == f.updates >= SnapshotThreshold

\* Defect: the snapshot is stored without deleting the rows it covers.
CompactKeepsRows(w) ==
  LET a == actor[w]
      f == mem[a]
  IN /\ pc[w] = "applied" /\ ShouldCompact(f) /\ row.exists
     /\ row' = [row EXCEPT !.state = f.committed, !.snapshot_seq = f.last_seq]
     /\ mem' = [mem EXCEPT ![a].base = Cardinality(f.committed), ![a].updates = 0]
     /\ Release(w, "reply")
     /\ UNCHANGED <<log, cache, loading, loaded, ticket, seen>>

\* compact: replace_document_snapshot stores the committed replica and deletes
\* the rows through last_seq in one transaction.
Compact(w) ==
  LET a == actor[w]
      f == mem[a]
  IN /\ pc[w] = "applied" /\ ShouldCompact(f) /\ row.exists
     /\ row' = [row EXCEPT !.state = f.committed, !.snapshot_seq = f.last_seq]
     /\ log' = {e \in log : e.seq > f.last_seq}
     /\ mem' = [mem EXCEPT ![a].base = Cardinality(f.committed), ![a].updates = 0]
     /\ Release(w, "reply")
     /\ UNCHANGED <<cache, loading, loaded, ticket, seen>>

\* A failed compaction is ignored; only base_snapshot_bytes has moved.
CompactFails(w) ==
  LET a == actor[w]
      f == mem[a]
  IN /\ pc[w] = "applied" /\ ShouldCompact(f)
     /\ mem' = [mem EXCEPT ![a].base = Cardinality(f.committed)]
     /\ Release(w, "reply")
     /\ UNCHANGED <<row, log, cache, loading, loaded, ticket, seen>>

SkipCompact(w) ==
  /\ pc[w] = "applied" /\ ~ShouldCompact(mem[actor[w]])
  /\ Release(w, "reply")
  /\ UNCHANGED <<row, log, cache, mem, loading, loaded, ticket, seen>>

\* The ACK (and the broadcast), or a socket that is gone.
Reply(w) ==
  /\ pc[w] = "reply"
  /\ Release(w, "idle")
  /\ seen' \in {seen, Shown(OpsOf[job[w]])}
  /\ UNCHANGED <<row, log, cache, mem, loading, loaded, ticket>>

-----------------------------------------------------------------------------
(* The rest of the process.                                                 *)

\* delete_document_for_principal, delete_workspace*, a restore that removes
\* the node: the update log is deleted with the row.
DeleteDocument ==
  /\ row.exists
  /\ row' = [row EXCEPT !.exists = FALSE, !.state = {}]
  /\ log' = {}
  /\ UNCHANGED <<cache, mem, loading, loaded, pc, job, actor, ticket, seen>>

\* DocumentRegistry::evict, called after a deletion whether or not a task
\* still holds the actor.
Evict ==
  /\ ~row.exists /\ cache # None /\ loading = None
  /\ cache' = None
  /\ UNCHANGED <<row, log, mem, loading, loaded, pc, job, actor, ticket, seen>>

\* The process stops and starts again: only the database survives.
Crash ==
  /\ cache' = None
  /\ mem' = [a \in Actors |-> NoFields]
  /\ loading' = None /\ loaded' = NothingLoaded
  /\ pc' = [w \in Workers |-> "idle"]
  /\ job' = [w \in Workers |-> None]
  /\ actor' = [w \in Workers |-> None]
  /\ ticket' = [w \in Workers |-> 0]
  /\ UNCHANGED <<row, log, seen>>

WorkerStep(w) ==
  \/ \E u \in Updates \cup {None} : Start(w, u)
  \/ GetCached(w) \/ BeginLoad(w) \/ FinishLoad(w)
  \/ Lock(w) \/ Read(w) \/ Refuse(w) \/ Idempotent(w)
  \/ Append(w) \/ Import(w)
  \/ Compact(w) \/ CompactFails(w) \/ SkipCompact(w)
  \/ Reply(w)

Next ==
  \/ \E w \in Workers : WorkerStep(w)
  \/ Trim \/ DeleteDocument \/ Evict \/ Crash

Spec == Init /\ [][Next]_vars

-----------------------------------------------------------------------------
(* Every operation a client was shown as committed survives reconstruction  *)
(* from the database, whatever is cached, compacted, retried or lost        *)
(* (document_actor.rs:92-94).                                               *)
AckedSurvives == row.exists => seen \subseteq Content

(* An existing document has one actor: every task works on the cached one,  *)
(* which, whenever its mutex is free, holds exactly what a reconstruction   *)
(* would (document_registry.rs:20-22).                                      *)
OneCurrentActor ==
  row.exists =>
    /\ \A w \in Workers : actor[w] # None => actor[w] = cache
    /\ cache # None /\ (\A w \in Workers : pc[w] \notin UnderLock)
         => mem[cache].committed = Content

(* The log is the gapless tail after the snapshot, one row per sequence     *)
(* number, and never holds one update twice (metadata lib.rs:4375-4377).    *)
LogIsGapless ==
  /\ {e.seq : e \in log} = {n \in 1..row.next_seq : row.exists /\ row.snapshot_seq < n /\ n < row.next_seq}
  /\ \A e, f \in log : e.seq = f.seq \/ e.id = f.id => e = f

(* The conjuncts below make the properties above inductive; they speak of   *)
(* an existing document, except the first.                                  *)

\* Deleted rows stay empty, a task holds an Arc exactly while it uses the
\* actor, and at most one task loads.
TasksWellFormed ==
  /\ ~row.exists => row.state = {} /\ log = {}
  /\ \A w \in Workers :
       /\ actor[w] # None <=> pc[w] \in {"borrowed"} \cup UnderLock
       /\ pc[w] \in {"appended", "applied", "reply"} => job[w] # None
       /\ loading = w <=> pc[w] = "loading"

\* While a task loads, no actor exists and nobody can change what it read.
LoadIsCurrent ==
  loading # None =>
    /\ cache = None
    /\ loaded = [state |-> row.state, seq |-> row.snapshot_seq]

\* One actor, one lock holder; the database is the actor plus the update
\* that is appended and not yet imported.
ActorIsDatabase ==
  /\ \A w \in Workers : actor[w] # None => actor[w] = cache
  /\ \A v, w \in Workers : pc[v] \in UnderLock /\ pc[w] \in UnderLock => v = w
  /\ cache # None =>
       \/ \E w \in Workers :
            /\ pc[w] = "appended" /\ ticket[w] + 1 = row.next_seq
            /\ Stored(row, log) = mem[cache].committed \cup OpsOf[job[w]]
       \/ /\ \A w \in Workers : pc[w] # "appended"
          /\ mem[cache].last_seq + 1 = row.next_seq
          /\ Stored(row, log) = mem[cache].committed
  /\ \A w \in Workers :
       /\ pc[w] = "applied" => OpsOf[job[w]] \subseteq mem[cache].committed
       /\ pc[w] = "reply" => OpsOf[job[w]] \subseteq Stored(row, log)

\* The database is causally closed and holds what clients were shown; its log
\* is the gapless tail after the snapshot.
DatabaseSound ==
  /\ Closed(Stored(row, log))
  /\ seen \subseteq Stored(row, log)
  /\ row.snapshot_seq < row.next_seq
  /\ \A e \in log : \E u \in Updates : e.id = IdOf[u] /\ e.ops = OpsOf[u]

IInv ==
  /\ TypeOK
  /\ IsFiniteSet(log)
  /\ TasksWellFormed
  /\ LogIsGapless
  /\ row.exists => LoadIsCurrent /\ ActorIsDatabase /\ DatabaseSound

Promise == INSTANCE DurableDocument WITH live <- row.exists, content <- Content

(* The durable path implements the abstract promise: content grows only by  *)
(* commits, and clients are shown nothing else (document_actor.rs:91-94).   *)
ImplementsPromise == Promise!Spec
=============================================================================
