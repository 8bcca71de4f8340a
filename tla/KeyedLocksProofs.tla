-------------------------- MODULE KeyedLocksProofs --------------------------
(* Mutual exclusion and entry ownership of the keyed locks, for any number  *)
(* of tasks, keys and allocations.                                          *)
EXTENDS KeyedLocks, TLAPS

(* The empty map satisfies the inductive invariant.                         *)
LEMMA InitIInv == Init => IInv
BY NoneAssumption
   DEF Init, IInv, TypeOK, GateIsCurrent, KeysHaveOwnMutex, EntriesAreOwned, States

(* Creating or cloning a gate keeps the invariant: an inserted mutex is a   *)
(* fresh allocation, and a cloned one is the entry itself.                  *)
LEMMA GateStep ==
  ASSUME IInv, NEW p \in Procs, NEW k \in Keys, Gate(p, k)
  PROVE  IInv'
<1> USE NoneAssumption
<1>1. PICK g \in Gates :
        /\ IF entries[k] = None THEN ~Live(g) ELSE g = entries[k]
        /\ entries' = [entries EXCEPT ![k] = g]
        /\ gate' = [gate EXCEPT ![p] = g]
        /\ owner' = IF entries[k] = None THEN [owner EXCEPT ![g] = None] ELSE owner
  BY DEF Gate
<1>2. /\ pc[p] = "idle"
      /\ key' = [key EXCEPT ![p] = k]
      /\ pc' = [pc EXCEPT ![p] = "gated"]
      /\ guardArc' = guardArc
  BY DEF Gate
<1>3. gate[p] = None /\ guardArc[p] = None
  BY <1>2 DEF IInv, TypeOK, GateIsCurrent
<1>4. TypeOK'
  BY <1>1, <1>2 DEF IInv, TypeOK, States
<1>5. \A q \in Procs \ {p} : gate[q] = g => entries[k] = g
  BY <1>1 DEF Live
<1>6. \A l \in Keys \ {k} : entries[l] # g
  BY <1>1 DEF Live, IInv, KeysHaveOwnMutex
<1>7. GateIsCurrent'
  <2> SUFFICES ASSUME NEW q \in Procs
               PROVE  /\ pc'[q] = "idle" <=> gate'[q] = None
                      /\ gate'[q] # None => entries'[key'[q]] = gate'[q]
                      /\ guardArc'[q] # None =>
                           guardArc'[q] = gate'[q] /\ pc'[q] \in {"waiting", "locked"}
                      /\ pc'[q] = "locked" => owner'[gate'[q]] = q
    BY DEF GateIsCurrent
  <2>1. CASE q = p
    BY <2>1, <1>1, <1>2, <1>3 DEF IInv, TypeOK
  <2>2. CASE q # p
    <3>1. /\ gate'[q] = gate[q] /\ key'[q] = key[q] /\ pc'[q] = pc[q]
          /\ guardArc'[q] = guardArc[q]
      BY <2>2, <1>1, <1>2 DEF IInv, TypeOK
    <3>2. gate[q] # None => entries'[key[q]] = gate[q]
      BY <2>2, <1>1, <1>5 DEF IInv, TypeOK, GateIsCurrent, Live
    <3>3. pc[q] = "locked" => owner'[gate[q]] = q
      BY <2>2, <1>1, <1>5 DEF IInv, TypeOK, GateIsCurrent
    <3> QED BY <3>1, <3>2, <3>3 DEF IInv, GateIsCurrent
  <2> QED BY <2>1, <2>2
<1>8. KeysHaveOwnMutex'
  BY <1>1, <1>6 DEF IInv, TypeOK, KeysHaveOwnMutex
<1>9. EntriesAreOwned'
  <2>1. \A q \in Procs \ {p} : gate'[q] = gate[q] /\ key'[q] = key[q]
    BY <1>1, <1>2 DEF IInv, TypeOK
  <2>2. gate'[p] = g /\ key'[p] = k
    BY <1>1, <1>2 DEF IInv, TypeOK
  <2>3. \A l \in Keys : entries'[l] = IF l = k THEN g ELSE entries[l]
    BY <1>1 DEF IInv, TypeOK
  <2> QED BY <2>1, <2>2, <2>3, <1>3 DEF IInv, EntriesAreOwned
<1> QED BY <1>4, <1>7, <1>8, <1>9 DEF IInv

(* The steps that neither touch the map nor a gate keep the invariant.      *)
LEMMA MutexStep ==
  ASSUME IInv, NEW p \in Procs,
         Lock(p) \/ LockOwned(p) \/ Acquire(p) \/ TryLock(p) \/ CancelWait(p) \/ Unlock(p)
  PROVE  IInv'
<1> USE NoneAssumption
<1>1. entries' = entries /\ key' = key /\ gate' = gate
  BY DEF Lock, LockOwned, Acquire, TryLock, CancelWait, Unlock
<1>2. gate[p] \in Gates
  BY DEF IInv, TypeOK, GateIsCurrent, Lock, LockOwned, Acquire, TryLock, CancelWait, Unlock
<1>3. KeysHaveOwnMutex' /\ EntriesAreOwned'
  BY <1>1 DEF IInv, KeysHaveOwnMutex, EntriesAreOwned
<1>4. CASE Lock(p)
  BY <1>1, <1>2, <1>3, <1>4 DEF Lock, IInv, TypeOK, GateIsCurrent, States
<1>5. CASE LockOwned(p)
  BY <1>1, <1>2, <1>3, <1>5 DEF LockOwned, IInv, TypeOK, GateIsCurrent, States
<1>6. CASE Acquire(p)
  BY <1>1, <1>2, <1>3, <1>6 DEF Acquire, IInv, TypeOK, GateIsCurrent, States
<1>7. CASE TryLock(p)
  BY <1>1, <1>2, <1>3, <1>7 DEF TryLock, IInv, TypeOK, GateIsCurrent, States
<1>8. CASE CancelWait(p)
  BY <1>1, <1>2, <1>3, <1>8 DEF CancelWait, IInv, TypeOK, GateIsCurrent, States
<1>9. CASE Unlock(p)
  BY <1>1, <1>2, <1>3, <1>9 DEF Unlock, IInv, TypeOK, GateIsCurrent, States
<1> QED BY <1>4, <1>5, <1>6, <1>7, <1>8, <1>9

(* Dropping a gate keeps the invariant: the entry goes exactly when no      *)
(* other caller refers to it.                                               *)
LEMMA DropStep ==
  ASSUME IInv, NEW p \in Procs, DropGate(p)
  PROVE  IInv'
<1> USE NoneAssumption
<1> DEFINE g == gate[p]
           k == key[p]
<1>1. /\ pc[p] = "gated" /\ g \in Gates /\ k \in Keys /\ entries[k] = g
      /\ guardArc[p] = None
  BY DEF DropGate, IInv, TypeOK, GateIsCurrent
<1>2. /\ gate' = [gate EXCEPT ![p] = None]
      /\ pc' = [pc EXCEPT ![p] = "idle"]
      /\ key' = key /\ guardArc' = guardArc /\ owner' = owner
      /\ entries' = IF LastReference(p, g) THEN [entries EXCEPT ![k] = None] ELSE entries
  BY <1>1 DEF DropGate
<1>3. \A l \in Keys : entries'[l] = IF l = k /\ LastReference(p, g) THEN None ELSE entries[l]
  BY <1>1, <1>2 DEF IInv, TypeOK
<1>4. TypeOK'
  BY <1>1, <1>2 DEF IInv, TypeOK, States
<1>5. \A q \in Procs : guardArc[q] = g => q # p /\ gate[q] = g
  BY <1>1 DEF IInv, GateIsCurrent
<1>6. GateIsCurrent'
  <2>1. \A q \in Procs \ {p} : gate[q] # None /\ LastReference(p, g) => key[q] # k
    BY <1>1 DEF LastReference, IInv, GateIsCurrent
  <2> QED BY <2>1, <1>1, <1>2, <1>3 DEF IInv, TypeOK, GateIsCurrent
<1>7. KeysHaveOwnMutex'
  BY <1>1, <1>3 DEF IInv, KeysHaveOwnMutex
<1>8. EntriesAreOwned'
  <2>1. /\ gate'[p] = None
        /\ \A q \in Procs \ {p} : gate'[q] = gate[q]
    BY <1>2 DEF IInv, TypeOK
  <2>2. ~LastReference(p, g) => \E q \in Procs \ {p} : gate[q] = g
    BY <1>5 DEF LastReference
  <2>3. \A q \in Procs : gate[q] = g => key[q] = k
    BY <1>1 DEF IInv, TypeOK, GateIsCurrent, KeysHaveOwnMutex
  <2>4. \A q \in Procs \ {p} : LastReference(p, g) => gate[q] # g
    BY DEF LastReference
  <2>5. \A q \in Procs : gate[q] # None /\ key[q] = k => gate[q] = g
    BY <1>1 DEF IInv, GateIsCurrent
  <2>6. \A l \in Keys \ {k} :
          (entries'[l] # None) <=> (\E q \in Procs : gate'[q] # None /\ key[q] = l)
    BY <2>1, <1>1, <1>3 DEF IInv, EntriesAreOwned
  <2>7. (entries'[k] # None) <=> (\E q \in Procs : gate'[q] # None /\ key[q] = k)
    BY <2>1, <2>2, <2>3, <2>4, <2>5, <1>1, <1>3
  <2> QED BY <2>6, <2>7, <1>1, <1>2 DEF EntriesAreOwned
<1> QED BY <1>4, <1>6, <1>7, <1>8 DEF IInv

(* Every step of the keyed locks keeps the inductive invariant.             *)
LEMMA NextIInv == IInv /\ [Next]_vars => IInv'
<1> SUFFICES ASSUME IInv, [Next]_vars PROVE IInv'
  OBVIOUS
<1>1. CASE Next
  <2> PICK p \in Procs :
        \/ \E k \in Keys : Gate(p, k)
        \/ Lock(p) \/ LockOwned(p) \/ Acquire(p) \/ TryLock(p) \/ CancelWait(p) \/ Unlock(p)
        \/ DropGate(p)
    BY <1>1 DEF Next
  <2> QED BY GateStep, MutexStep, DropStep
<1>2. CASE UNCHANGED vars
  BY <1>2 DEF vars, IInv, TypeOK, GateIsCurrent, KeysHaveOwnMutex, EntriesAreOwned
<1> QED BY <1>1, <1>2

(* The variables keep their types in every behaviour.                       *)
THEOREM TypeCorrect == Spec => []TypeOK
<1>1. IInv => TypeOK BY DEF IInv
<1> QED BY <1>1, InitIInv, NextIInv, PTL DEF Spec

(* Two tasks never hold one key's lock together, for any number of tasks    *)
(* and keys (keyed_lock.rs gate, lock, lock_owned, try_lock, drop).         *)
THEOREM LocksExclude == Spec => []MutualExclusion
<1>1. IInv => MutualExclusion
  BY NoneAssumption DEF IInv, TypeOK, GateIsCurrent, MutualExclusion
<1> QED BY <1>1, InitIInv, NextIInv, PTL DEF Spec

(* A map entry exists exactly while a caller owns a gate for its key: no    *)
(* entry leaks and no owned gate is unreachable (keyed_lock.rs:1-2).        *)
THEOREM EntriesNeverLeak == Spec => []EntriesAreOwned
<1>1. IInv => EntriesAreOwned BY DEF IInv
<1> QED BY <1>1, InitIInv, NextIInv, PTL DEF Spec
=============================================================================
