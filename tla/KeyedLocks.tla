----------------------------- MODULE KeyedLocks -----------------------------
(***************************************************************************)
(* Keyed async mutexes whose map entries live only as long as a caller      *)
(* owns a gate (crates/server/src/keyed_lock.rs).  The server serialises    *)
(* workspace, repository and administration mutations with them.            *)
(*                                                                          *)
(* A gate is an Arc<Mutex<()>>; Gates are the identities such an allocation *)
(* can have.  The map entry holds one strong reference, each caller holds   *)
(* one (its KeyedGate) and a caller of lock_owned holds a second one in its *)
(* guard.  DashMap runs `entry` and the closure of `remove_if` under the    *)
(* shard lock of the key, so each is one step.                              *)
(***************************************************************************)
EXTENDS Naturals, FiniteSets

CONSTANTS
  Procs,   \* the tasks that mutate keyed state
  Keys,    \* the keys they name
  Gates,   \* identities of Arc<Mutex<()>> allocations
  None     \* absence of a gate or of an owner

ASSUME NoneAssumption == None \notin Gates /\ None \notin Procs

VARIABLES
  entries,  \* the DashMap: key -> the gate it stores, or None
  pc,       \* where each task is in gate / lock / unlock / drop
  key,      \* the key of the KeyedGate a task owns
  gate,     \* the Arc its KeyedGate holds (None when it owns no gate)
  guardArc, \* the second Arc, inside the OwnedMutexGuard of lock_owned
  owner     \* the holder of each mutex

vars == <<entries, pc, key, gate, guardArc, owner>>

States == {"idle", "gated", "waiting", "locked"}

TypeOK ==
  /\ entries \in [Keys -> Gates \cup {None}]
  /\ pc \in [Procs -> States]
  /\ key \in [Procs -> Keys]
  /\ gate \in [Procs -> Gates \cup {None}]
  /\ guardArc \in [Procs -> Gates \cup {None}]
  /\ owner \in [Gates -> Procs \cup {None}]

-----------------------------------------------------------------------------
(* Arc identities: an allocation is live while something refers to it.      *)

Live(g) ==
  \/ \E k \in Keys : entries[k] = g
  \/ \E p \in Procs : gate[p] = g \/ guardArc[p] = g

\* Arc::strong_count(current) == 1 inside remove_if, after p's own Arc went:
\* the map entry is the only reference left.
LastReference(p, g) ==
  /\ \A q \in Procs \ {p} : gate[q] # g
  /\ \A q \in Procs : guardArc[q] # g

Init ==
  /\ entries = [k \in Keys |-> None]
  /\ pc = [p \in Procs |-> "idle"]
  /\ key \in [Procs -> Keys]
  /\ gate = [p \in Procs |-> None]
  /\ guardArc = [p \in Procs |-> None]
  /\ owner = [g \in Gates |-> None]

-----------------------------------------------------------------------------
(* KeyedLocks::gate: find or insert the entry and clone its Arc.            *)
Gate(p, k) ==
  /\ pc[p] = "idle"
  /\ \E g \in Gates :
       /\ IF entries[k] = None THEN ~Live(g) ELSE g = entries[k]
       /\ entries' = [entries EXCEPT ![k] = g]
       /\ gate' = [gate EXCEPT ![p] = g]
       /\ owner' = IF entries[k] = None THEN [owner EXCEPT ![g] = None] ELSE owner
  /\ key' = [key EXCEPT ![p] = k]
  /\ pc' = [pc EXCEPT ![p] = "gated"]
  /\ UNCHANGED guardArc

(* KeyedGate::lock(&self): the future borrows the gate and queues on the    *)
(* mutex.                                                                   *)
Lock(p) ==
  /\ pc[p] = "gated"
  /\ pc' = [pc EXCEPT ![p] = "waiting"]
  /\ UNCHANGED <<entries, key, gate, guardArc, owner>>

(* KeyedGate::lock_owned(self): as lock, on a clone of the Arc that the     *)
(* future, and then the guard, owns.                                        *)
LockOwned(p) ==
  /\ pc[p] = "gated"
  /\ guardArc' = [guardArc EXCEPT ![p] = gate[p]]
  /\ pc' = [pc EXCEPT ![p] = "waiting"]
  /\ UNCHANGED <<entries, key, gate, owner>>

(* The tokio mutex grants the lock to a waiter.                             *)
Acquire(p) ==
  /\ pc[p] = "waiting"
  /\ owner[gate[p]] = None
  /\ owner' = [owner EXCEPT ![gate[p]] = p]
  /\ pc' = [pc EXCEPT ![p] = "locked"]
  /\ UNCHANGED <<entries, key, gate, guardArc>>

(* KeyedGate::try_lock: takes the lock only when it is free; on             *)
(* TryLockError the caller keeps its gate.                                  *)
TryLock(p) ==
  /\ pc[p] = "gated"
  /\ owner[gate[p]] = None
  /\ owner' = [owner EXCEPT ![gate[p]] = p]
  /\ pc' = [pc EXCEPT ![p] = "locked"]
  /\ UNCHANGED <<entries, key, gate, guardArc>>

(* A task that is dropped while it waits (a cancelled request) releases the *)
(* Arc of its lock_owned future and leaves the queue.                       *)
CancelWait(p) ==
  /\ pc[p] = "waiting"
  /\ guardArc' = [guardArc EXCEPT ![p] = None]
  /\ pc' = [pc EXCEPT ![p] = "gated"]
  /\ UNCHANGED <<entries, key, gate, owner>>

\* Defect: _gate declared before _guard, so the gate is dropped while the
\* guard's Arc is still alive.
UnlockGateFirst(p) ==
  /\ pc[p] = "locked"
  /\ entries' = IF LastReference(p, gate[p])
                THEN [entries EXCEPT ![key[p]] = None] ELSE entries
  /\ owner' = [owner EXCEPT ![gate[p]] = None]
  /\ gate' = [gate EXCEPT ![p] = None]
  /\ guardArc' = [guardArc EXCEPT ![p] = None]
  /\ pc' = [pc EXCEPT ![p] = "idle"]
  /\ UNCHANGED key

\* Defect: the guard goes away without unlocking (mem::forget).
UnlockForgotten(p) ==
  /\ pc[p] = "locked"
  /\ guardArc' = [guardArc EXCEPT ![p] = None]
  /\ pc' = [pc EXCEPT ![p] = "gated"]
  /\ UNCHANGED <<entries, key, gate, owner>>

(* Dropping the MutexGuard, or the _guard field of an OwnedKeyedGuard,      *)
(* which is declared before _gate: the mutex is unlocked and the guard's    *)
(* Arc released while the KeyedGate still exists.                           *)
Unlock(p) ==
  /\ pc[p] = "locked"
  /\ owner' = [owner EXCEPT ![gate[p]] = None]
  /\ guardArc' = [guardArc EXCEPT ![p] = None]
  /\ pc' = [pc EXCEPT ![p] = "gated"]
  /\ UNCHANGED <<entries, key, gate>>

\* Defect: an unconditional DashMap::remove instead of remove_if.
DropGateAlwaysRemoves(p) ==
  /\ pc[p] = "gated"
  /\ entries' = [entries EXCEPT ![key[p]] = None]
  /\ gate' = [gate EXCEPT ![p] = None]
  /\ pc' = [pc EXCEPT ![p] = "idle"]
  /\ UNCHANGED <<key, guardArc, owner>>

(* Drop for KeyedGate: under the map lock, release this caller's Arc and    *)
(* remove the entry when it stores the same gate and nobody else refers to  *)
(* it.                                                                      *)
DropGate(p) ==
  /\ pc[p] = "gated"
  /\ entries' = IF entries[key[p]] = gate[p] /\ LastReference(p, gate[p])
                THEN [entries EXCEPT ![key[p]] = None] ELSE entries
  /\ gate' = [gate EXCEPT ![p] = None]
  /\ pc' = [pc EXCEPT ![p] = "idle"]
  /\ UNCHANGED <<key, guardArc, owner>>

Next ==
  \E p \in Procs :
    \/ \E k \in Keys : Gate(p, k)
    \/ Lock(p)
    \/ LockOwned(p)
    \/ Acquire(p)
    \/ TryLock(p)
    \/ CancelWait(p)
    \/ Unlock(p)
    \/ DropGate(p)

(* A holder finishes its mutation and releases the lock (the guards are     *)
(* scoped), and tokio's mutex is FIFO: a waiter that is not cancelled is    *)
(* granted a lock that becomes free again and again.                        *)
Fairness ==
  \A p \in Procs : /\ WF_vars(Unlock(p))
                   /\ SF_vars(Acquire(p))

Spec == Init /\ [][Next]_vars /\ Fairness

-----------------------------------------------------------------------------
(* Two tasks never hold the lock of one key together, although the entry of *)
(* the key may have been removed and created again in between, with another *)
(* mutex.                                                                   *)
MutualExclusion ==
  \A p, q \in Procs :
    p # q /\ pc[p] = "locked" /\ pc[q] = "locked" => key[p] # key[q]

(* The map holds an entry for a key exactly while some caller owns a gate   *)
(* for it: no idle entry is left behind by concurrent drops, and no gate in *)
(* use is ever unreachable through the map (keyed_lock.rs:1-2).             *)
EntriesAreOwned ==
  \A k \in Keys : (entries[k] # None) <=> (\E p \in Procs : gate[p] # None /\ key[p] = k)

(* The facts that make mutual exclusion inductive: a caller's gate is the   *)
(* one the map stores under its key, no two keys share a mutex, a guard's   *)
(* Arc never outlives the gate, and the mutex of a locked gate is owned by  *)
(* the task that locked it.                                                 *)
GateIsCurrent ==
  \A p \in Procs :
    /\ pc[p] = "idle" <=> gate[p] = None
    /\ gate[p] # None => entries[key[p]] = gate[p]
    /\ guardArc[p] # None => guardArc[p] = gate[p] /\ pc[p] \in {"waiting", "locked"}
    /\ pc[p] = "locked" => owner[gate[p]] = p

KeysHaveOwnMutex ==
  \A k, l \in Keys : entries[k] # None /\ entries[k] = entries[l] => k = l

IInv == TypeOK /\ GateIsCurrent /\ KeysHaveOwnMutex /\ EntriesAreOwned

(* A task that waits for a key gets it, or gives up.                        *)
WaiterServed ==
  \A p \in Procs : pc[p] = "waiting" ~> pc[p] # "waiting"

=============================================================================
