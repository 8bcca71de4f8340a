---------------------- MODULE ExtensionRuntimesProofs -----------------------
(***************************************************************************)
(* Proofs about ExtensionRuntimes: permits, the restart budget, the drain  *)
(* and what is published, for any tenants, calls, administrators, limits   *)
(* and numbers of runtimes, revisions and faults.                          *)
(***************************************************************************)
EXTENDS ExtensionRuntimes, FiniteSetTheorems, WellFoundedInduction, TLAPS

Slots == [here : BOOLEAN, lock : BOOLEAN, gen : Up \cup {"none", "down"}, fails : Nat,
          quarantined : BOOLEAN]
RuntimeRecs == [built : Nat \cup {-1}, accepting : BOOLEAN]

\* The types, without the bounds that the accounts give.
Shape ==
    /\ lifecycle \in Lifecycles /\ revision \in Nat
    /\ registry \in [Registries -> 0..MaxRuntimes] /\ monitor \in 0..MaxRuntimes
    /\ runtime \in [Runtimes -> RuntimeRecs]
    /\ slot \in [Runtimes -> [Tenants -> Slots]]
    /\ permits \in [Tenants -> Int]
    /\ call \in [Calls -> CallRecs]
    /\ admin \in [Admins -> RefreshRecs]
    /\ drain \in [Runtimes -> DrainRecs]
    /\ left \in Bounds /\ unfinished \in BOOLEAN
    /\ spent \in [Runtimes -> [Tenants -> Int]]
    /\ \A a \in Admins : admin[a].pc = "restore" => admin[a].restore # "none"

Starting == {"backoff", "start"}

\* A call under way is at a slot of its runtime; those of start_eager belong to the refresh
\* that waits for them.
CallAt(c) ==
    /\ call[c].pc = "idle" => call[c].r = None
    /\ call[c].pc # "idle" => call[c].r \in Runtimes /\ call[c].t \in Tenants
    /\ call[c].pc = "done" => c \in Starts
    /\ c \in Starts /\ call[c].pc # "idle" =>
          /\ admin[c[1]].pc = "eager" /\ call[c].r = admin[c[1]].r /\ call[c].t = c[2]

\* Who holds the lock of a slot has found it there, and starts a generation only when there is
\* none and the slot is not quarantined.
CallHolds(c) ==
    /\ call[c].pc \in Holding \cup {"wait"} => SlotOf(c).here
    /\ call[c].pc \in Holding => SlotOf(c).lock
    /\ call[c].pc \in Starting => SlotOf(c).gen = "none" /\ ~SlotOf(c).quarantined
CallInv == \A c \in Calls : CallAt(c) /\ CallHolds(c)

\* The lock of a slot has one holder.
LockInv ==
    \A c, d \in Calls :
        (/\ call[c].pc \in Holding /\ call[d].pc \in Holding
         /\ call[c].r = call[d].r /\ call[c].t = call[d].t) => c = d

\* A quarantined slot is empty, and a slot whose budget is exceeded is quarantined.
SlotFit(s) ==
    /\ s.gen # "none" => s.here /\ ~s.quarantined
    /\ s.fails <= MaxFailures + 1
    /\ s.fails = MaxFailures + 1 => s.quarantined
SlotInv == \A r \in Runtimes, t \in Tenants : SlotFit(slot[r][t])

Used(r) == runtime[r].built # -1

\* What is referred to is in memory.
RefInv ==
    /\ \A r \in Runtimes : ~Used(r) =>
          /\ runtime[r] = NoRuntime /\ drain[r].pc = "none"
          /\ monitor # r /\ \A k \in Registries : registry[k] # r
          /\ \A c \in Calls : call[c].r # r
          /\ \A a \in Admins : admin[a].r # r
    /\ \A a \in Admins : admin[a].pc = "eager" => admin[a].r \in Runtimes

\* A refresh has its runtime to itself until the monitor is swapped, and only the runtime that
\* was the monitor's is drained.
OwnInv ==
    /\ \A a, b \in Admins : admin[a].r = admin[b].r /\ admin[a].r # None => a = b
    /\ \A a \in Admins : admin[a].r = monitor => monitor = None
    /\ \A r \in Runtimes : drain[r].pc # "none" =>
          r # monitor /\ \A a \in Admins : admin[a].r # r

Bit(b) == IF b THEN 1 ELSE 0

AccountInv ==
    \A t \in Tenants :
        /\ permits[t] = Cardinality(GensOf(t)) + Cardinality(StartsOf(t))
        /\ permits[t] <= PerTenant

SpentInv ==
    \A r \in Runtimes, t \in Tenants :
        spent[r][t] = Cardinality(StartsAt(r, t)) + Bit(slot[r][t].gen # "none")

\* A slot the drain has been to starts nothing, and what is up in it will be shut down.  What
\* is to be shut down stays in its slot.
Swept(r, t) ==
    /\ \A c \in Calls : call[c].r = r /\ call[c].t = t => call[c].pc \notin Starting
    /\ slot[r][t].gen \in Up =>
          \E i \in 1..Len(drain[r].victims) : drain[r].victims[i] = t

HeldVictims(r) ==
    \A i \in 1..Len(drain[r].victims) : slot[r][drain[r].victims[i]].gen # "none"

DrainInv ==
    \A r \in Runtimes :
        /\ drain[r].pc \in {"none", "close"} /\ Used(r) => runtime[r].accepting
        /\ drain[r].pc \in {"list", "collect", "done"} => ~runtime[r].accepting
        /\ drain[r].pc \in {"collect", "done"} =>
              \A t \in Tenants \ drain[r].todo : Swept(r, t)
        /\ drain[r].pc = "collect" => HeldVictims(r)
        /\ drain[r].pc # "collect" => drain[r].victims = <<>>
        /\ drain[r].pc = "done" => drain[r].todo = {}

IInv ==
    /\ Shape /\ CallInv /\ LockInv /\ SlotInv /\ RefInv /\ OwnInv
    /\ AccountInv /\ SpentInv /\ DrainInv

\* No two refreshes overlap.
OneRefresh ==
    \A a, b \in Admins : admin[a].pc # "idle" /\ admin[b].pc # "idle" => a = b

\* The registries that a refresh at p has replaced.
Replaced(p) ==
    CASE p = "actions"   -> {"formatters"}
      [] p = "providers" -> {"formatters", "actions"}
      [] p = "swap"      -> Registries
      [] OTHER           -> {}

\* No refresh is under way; a failed activation may still restore its selection.
Settled == \A a \in Admins : admin[a].pc \in {"idle", "restore"}

\* What a refresh has replaced names its runtime, and a finished refresh leaves every registry
\* with the runtime that the monitor watches.
ServeInv ==
    /\ \A a \in Admins : \A k \in Replaced(admin[a].pc) : registry[k] = admin[a].r
    /\ Settled /\ ~unfinished => \A k \in Registries : registry[k] = monitor

\* r was built from the selection in the store.
Current(r) ==
    IF lifecycle = "ready" THEN r # None /\ runtime[r].built = revision ELSE r = None

\* What a refresh is about to publish is current, and so is what the last one has published.
CurrentInv ==
    /\ Settled /\ ~unfinished => Current(monitor)
    /\ \A a \in Admins :
          /\ admin[a].pc \in {"eager", "swap"} \cup Registries => Current(admin[a].r)
          /\ admin[a].pc = "eager" => lifecycle = "ready"
          /\ admin[a].pc = "rebuild" => lifecycle = "quarantined" /\ admin[a].r = None

\* No registry names a runtime that is being drained, finished refresh or not.
Undrained ==
    \A k \in Registries : registry[k] # None => drain[registry[k]].pc = "none"

JInv == ServeInv /\ CurrentInv

-----------------------------------------------------------------------------
(* Records and counts. *)

(* The constants as the assumption gives them. *)
LEMMA Constants ==
    /\ MaxRuntimes \in Nat /\ MaxRuntimes > 0 /\ MaxFailures \in Nat /\ PerTenant \in Nat
    /\ Eager \subseteq Tenants /\ Clients \cap Starts = {}
    /\ \A r \in Runtimes : r \in Nat /\ r # None /\ r \in 0..MaxRuntimes
    /\ \A r \in 0..MaxRuntimes : r # None => r \in Runtimes
    /\ None \in 0..MaxRuntimes /\ 1 \in Runtimes
  BY RuntimesAssumption DEF Starts, Runtimes, None

LEMMA FaultedOK == left \in Bounds /\ left.faults > 0 => Faulted \in Bounds
  BY DEF Bounds, Faulted

(* Calls and runtimes can be counted. *)
LEMMA CallsFinite == IsFiniteSet(Calls) /\ IsFiniteSet(Runtimes)
<1>1. IsFiniteSet(Eager)
  BY RuntimesAssumption, FS_Subset
<1>2. IsFiniteSet(Starts)
  BY <1>1, RuntimesAssumption, FS_Product DEF Starts
<1>3. IsFiniteSet(Calls)
  BY <1>2, RuntimesAssumption, FS_Union DEF Calls
<1>4. IsFiniteSet(Runtimes)
  BY Constants, FS_Interval DEF Runtimes
<1> QED
  BY <1>3, <1>4

LEMMA CountsFinite ==
    ASSUME NEW r, NEW t
    PROVE  /\ IsFiniteSet(GensOf(t)) /\ IsFiniteSet(StartsOf(t)) /\ IsFiniteSet(StartsAt(r, t))
           /\ Cardinality(GensOf(t)) \in Nat /\ Cardinality(StartsOf(t)) \in Nat
           /\ Cardinality(StartsAt(r, t)) \in Nat
<1>1. GensOf(t) \in SUBSET Runtimes /\ StartsOf(t) \in SUBSET Calls /\ StartsAt(r, t) \in SUBSET Calls
  BY DEF GensOf, StartsOf, StartsAt
<1> QED
  BY <1>1, CallsFinite, FS_Subset, FS_CardinalityType

LEMMA CountsFinitePrimed ==
    ASSUME NEW r, NEW t
    PROVE  /\ IsFiniteSet(GensOf(t)') /\ IsFiniteSet(StartsOf(t)') /\ IsFiniteSet(StartsAt(r, t)')
           /\ Cardinality(GensOf(t)') \in Nat /\ Cardinality(StartsOf(t)') \in Nat
           /\ Cardinality(StartsAt(r, t)') \in Nat
<1>1. GensOf(t)' \in SUBSET Runtimes /\ StartsOf(t)' \in SUBSET Calls /\ StartsAt(r, t)' \in SUBSET Calls
  BY DEF GensOf, StartsOf, StartsAt
<1> QED
  BY <1>1, CallsFinite, FS_Subset, FS_CardinalityType

(* A set that at most one element enters or leaves. *)
LEMMA CountMoves ==
    ASSUME NEW S, NEW T, NEW x, IsFiniteSet(S), IsFiniteSet(T), \A y : y # x => (y \in S <=> y \in T)
    PROVE  /\ Cardinality(S) \in Nat /\ Cardinality(T) \in Nat
           /\ Cardinality(T) = Cardinality(S) + Bit(x \in T) - Bit(x \in S)
<1>1. Cardinality(S) \in Nat /\ Cardinality(T) \in Nat
  BY FS_CardinalityType
<1>2. CASE x \in T /\ x \in S
  <2>1. S = T
    BY <1>2
  <2> QED
    BY <1>1, <1>2, <2>1 DEF Bit
<1>3. CASE x \notin T /\ x \notin S
  <2>1. S = T
    BY <1>3
  <2> QED
    BY <1>1, <1>3, <2>1 DEF Bit
<1>4. CASE x \in T /\ x \notin S
  <2>1. T = S \cup {x}
    BY <1>4
  <2>2. Cardinality(T) = Cardinality(S) + 1
    BY <2>1, <1>4, FS_AddElement
  <2> QED
    BY <1>1, <1>4, <2>2 DEF Bit
<1>5. CASE x \notin T /\ x \in S
  <2>1. S = T \cup {x}
    BY <1>5
  <2>2. Cardinality(S) = Cardinality(T) + 1
    BY <2>1, <1>5, FS_AddElement
  <2> QED
    BY <1>1, <1>5, <2>2 DEF Bit
<1> QED
  BY <1>2, <1>3, <1>4, <1>5

(* The first runtime number that is free. *)
LEMMA FreshFree ==
    ASSUME Shape, Unused # {}
    PROVE  Fresh \in Runtimes /\ ~Used(Fresh) /\ Fresh # None
<1>1. Unused \subseteq Nat
  BY Constants DEF Unused
<1>2. \E r \in Unused : \A q \in Unused : ~(<<q, r>> \in OpToRel(<, Nat))
  BY <1>1, NatLessThanWellFounded, WFMin
<1>3. \E r \in Unused : \A q \in Unused : r <= q
  <2>1. PICK r \in Unused : \A q \in Unused : ~(<<q, r>> \in OpToRel(<, Nat))
    BY <1>2
  <2>2. ASSUME NEW q \in Unused PROVE r <= q
    <3>1. q \in Nat /\ r \in Nat
      BY <1>1
    <3>2. ~(q < r)
      BY <2>1, <3>1 DEF OpToRel
    <3> QED
      BY <3>1, <3>2
  <2> QED
    BY <2>2
<1>4. Fresh \in Unused
  BY <1>3 DEF Fresh
<1>5. Fresh \in Runtimes /\ runtime[Fresh] = NoRuntime
  BY <1>4 DEF Unused
<1> QED
  BY <1>5, Constants DEF Used, NoRuntime, Runtime

(* One slot is replaced. *)
LEMMA SlotSet ==
    ASSUME NEW A, NEW S \in [Runtimes -> [Tenants -> A]], NEW r \in Runtimes, NEW t \in Tenants, NEW s
    PROVE  LET T == [S EXCEPT ![r][t] = s] IN
           /\ s \in A => T \in [Runtimes -> [Tenants -> A]]
           /\ T[r][t] = s
           /\ \A q \in Runtimes, u \in Tenants : q # r \/ u # t => T[q][u] = S[q][u]
<1>1. [S EXCEPT ![r][t] = s] = [S EXCEPT ![r] = [S[r] EXCEPT ![t] = s]]
  OBVIOUS
<1>2. S[r] \in [Tenants -> A]
  OBVIOUS
<1>3. /\ [S[r] EXCEPT ![t] = s][t] = s
      /\ \A u \in Tenants \ {t} : [S[r] EXCEPT ![t] = s][u] = S[r][u]
      /\ s \in A => [S[r] EXCEPT ![t] = s] \in [Tenants -> A]
  BY <1>2
<1> QED
  BY <1>1, <1>3

(* What the fields of a slot become. *)
LEMMA SlotFields ==
    ASSUME NEW s \in Slots
    PROVE  /\ s.here \in BOOLEAN /\ s.lock \in BOOLEAN /\ s.quarantined \in BOOLEAN /\ s.fails \in Nat
           /\ \A b \in BOOLEAN : LET h == [s EXCEPT !.here = b] IN
                 /\ h \in Slots /\ h.here = b /\ h.lock = s.lock /\ h.gen = s.gen
                 /\ h.fails = s.fails /\ h.quarantined = s.quarantined
           /\ \A b \in BOOLEAN : LET h == [s EXCEPT !.lock = b] IN
                 /\ h \in Slots /\ h.here = s.here /\ h.lock = b /\ h.gen = s.gen
                 /\ h.fails = s.fails /\ h.quarantined = s.quarantined
           /\ \A g \in Up \cup {"none", "down"} : LET h == [s EXCEPT !.gen = g] IN
                 /\ h \in Slots /\ h.here = s.here /\ h.lock = s.lock /\ h.gen = g
                 /\ h.fails = s.fails /\ h.quarantined = s.quarantined
           /\ \A n \in Nat : LET h == [s EXCEPT !.fails = n] IN
                 /\ h \in Slots /\ h.here = s.here /\ h.lock = s.lock /\ h.gen = s.gen
                 /\ h.fails = n /\ h.quarantined = s.quarantined
  BY DEF Slots

(* record_failure *)
LEMMA Charged ==
    ASSUME NEW s \in Slots
    PROVE  /\ Charge(s) \in Slots /\ Charge(s).here = s.here /\ Charge(s).lock = s.lock
           /\ Charge(s).gen = s.gen /\ Charge(s).fails = s.fails + 1
           /\ Charge(s).quarantined <=> s.fails >= MaxFailures
<1> DEFINE q == s.fails >= MaxFailures
<1>1. q \in BOOLEAN /\ s.fails + 1 \in Nat
  BY Constants DEF Slots
<1>2. ASSUME NEW n \in Nat, NEW b \in BOOLEAN
      PROVE  LET h == Slot(s.here, s.lock, s.gen, n, b) IN
             /\ h \in Slots /\ h.here = s.here /\ h.lock = s.lock /\ h.gen = s.gen
             /\ h.fails = n /\ h.quarantined = b
  BY DEF Slots, Slot
<1>3. Charge(s) = Slot(s.here, s.lock, s.gen, s.fails + 1, q)
  BY DEF Charge
<1> HIDE DEF q
<1>4. /\ Charge(s) \in Slots /\ Charge(s).here = s.here /\ Charge(s).lock = s.lock
      /\ Charge(s).gen = s.gen /\ Charge(s).fails = s.fails + 1 /\ Charge(s).quarantined = q
  BY <1>1, <1>2, <1>3
<1> QED
  BY <1>4 DEF q

(* What process() leaves of a call. *)
LEMMA CallFields ==
    ASSUME NEW p \in CallPcs, NEW r \in 0..MaxRuntimes, NEW t \in Tenants \cup {None}, NEW b \in BOOLEAN
    PROVE  /\ Call(p, r, t, b) \in CallRecs
           /\ Call(p, r, t, b).pc = p /\ Call(p, r, t, b).r = r /\ Call(p, r, t, b).t = t
           /\ Call(p, r, t, b).ok = b
  BY DEF CallRecs, Call

LEMMA NoCallFields ==
    /\ NoCall \in CallRecs /\ NoCall.pc = "idle" /\ NoCall.r = None /\ NoCall.t = None
  BY Constants DEF CallRecs, Call, NoCall, CallPcs

-----------------------------------------------------------------------------
(* Steps of one call. *)

\* The call c, at a slot, moves on and leaves everybody else alone.
Moves(c, r, t) ==
    /\ call[c].pc # "idle" /\ call[c].r = r /\ call[c].t = t
    /\ \A d \in Calls \ {c} : call'[d] = call[d]
    /\ \/ call'[c].pc = "idle" /\ call'[c].r = None /\ c \notin Starts
       \/ /\ call'[c].pc # "idle" /\ call'[c].r = r /\ call'[c].t = t
          /\ call'[c].pc = "done" => c \in Starts
    /\ \A q \in Runtimes, u \in Tenants : q # r \/ u # t => slot'[q][u] = slot[q][u]

\* Only the holder of the lock changes what it guards, and only while the runtime accepts is a
\* start begun.
Guarded(c, s, z, acc) ==
    /\ SlotFit(z) /\ (s.here => z.here)
    /\ call'[c].pc \in Holding \cup {"wait"} => z.here
    /\ call'[c].pc \in Holding => z.lock
    /\ call'[c].pc \in Starting =>
          z.gen = "none" /\ ~z.quarantined /\ (call[c].pc \in Starting \/ acc)
    /\ \/ call[c].pc \in Holding
       \/ /\ z.gen = s.gen /\ (z.quarantined <=> s.quarantined) /\ (s.lock => z.lock)
          /\ call'[c].pc \in Holding => ~s.lock
    /\ z.gen \in Up => s.gen \in Up \/ call[c].pc = "start"
    /\ z.gen = "none" => s.gen = "none" \/ acc

LEMMA MovesKeeps ==
    ASSUME IInv, Shape', UNCHANGED <<store, manager, runtime, admin, drain>>,
           NEW c \in Calls, NEW r \in Runtimes, NEW t \in Tenants, Moves(c, r, t),
           Guarded(c, slot[r][t], slot'[r][t], runtime[r].accepting)
    PROVE  CallInv' /\ LockInv' /\ SlotInv' /\ RefInv' /\ OwnInv' /\ DrainInv'
<1> DEFINE s == slot[r][t]
           z == slot'[r][t]
<1>1. /\ CallInv /\ LockInv /\ SlotInv /\ RefInv /\ OwnInv /\ DrainInv
      /\ admin' = admin /\ runtime' = runtime /\ drain' = drain /\ registry' = registry
      /\ monitor' = monitor
  BY DEF IInv, manager
<1>2. ASSUME NEW d \in Calls \ {c}, call[d].pc \in Holding, call[d].r = r, call[d].t = t
      PROVE  call[c].pc \notin Holding
  BY <1>1, <1>2 DEF LockInv, Moves
<1>3. ASSUME NEW d \in Calls PROVE CallAt(d)'
  <2>1. CASE d = c
    BY <1>1, <2>1 DEF Moves, CallInv, CallAt
  <2>2. CASE d # c
    <3>1. call'[d] = call[d]
      BY <2>2 DEF Moves
    <3> QED
      BY <1>1, <3>1 DEF CallInv, CallAt
  <2> QED
    BY <2>1, <2>2
<1>4. ASSUME NEW d \in Calls PROVE CallHolds(d)'
  <2>1. CASE d = c
    <3>1. CASE call'[c].pc = "idle"
      BY <3>1, <2>1 DEF CallHolds, Holding, Starting
    <3>2. CASE call'[c].pc # "idle"
      <4>1. SlotOf(d)' = z
        BY <2>1, <3>2 DEF SlotOf, Moves
      <4> QED
        BY <2>1, <4>1 DEF CallHolds, Guarded
    <3> QED
      BY <3>1, <3>2
  <2>2. CASE d # c /\ call[d].pc # "idle"
    <3>1. call'[d] = call[d] /\ call[d].r \in Runtimes /\ call[d].t \in Tenants
      BY <1>1, <2>2 DEF Moves, CallInv, CallAt
    <3>2. CASE call[d].r # r \/ call[d].t # t
      <4>1. SlotOf(d)' = SlotOf(d)
        BY <3>1, <3>2 DEF Moves, SlotOf
      <4> QED
        BY <1>1, <3>1, <4>1 DEF CallInv, CallHolds
    <3>3. CASE call[d].r = r /\ call[d].t = t
      <4>1. SlotOf(d)' = z /\ SlotOf(d) = s
        BY <3>1, <3>3 DEF SlotOf
      <4>2. CallHolds(d)
        BY <1>1 DEF CallInv
      <4>3. call[d].pc \in Holding => call[c].pc \notin Holding
        BY <1>2, <2>2, <3>3
      <4>4. call[d].pc \in Starting => call[d].pc \in Holding
        BY DEF Starting, Holding
      <4> HIDE DEF s, z
      <4>5. Guarded(c, s, z, runtime[r].accepting)
        BY DEF s, z
      <4> QED
        BY <3>1, <4>1, <4>2, <4>3, <4>4, <4>5 DEF CallHolds, Guarded
    <3> QED
      BY <3>2, <3>3
  <2>3. CASE d # c /\ call[d].pc = "idle"
    <3>1. call'[d] = call[d]
      BY <2>3 DEF Moves
    <3> QED
      BY <2>3, <3>1 DEF CallHolds, Holding, Starting
  <2> QED
    BY <2>1, <2>2, <2>3
<1>5. CallInv'
  BY <1>3, <1>4 DEF CallInv
<1>6. LockInv'
  <2>1. ASSUME NEW d \in Calls \ {c}, call'[d].pc \in Holding, call'[c].pc \in Holding,
               call'[d].r = call'[c].r, call'[d].t = call'[c].t
        PROVE  FALSE
    <3>1. call[d].pc \in Holding /\ call[d].r = r /\ call[d].t = t
      <4>1. call'[c].pc # "idle"
        BY <2>1 DEF Holding
      <4> QED
        BY <2>1, <4>1 DEF Moves
    <3>2. call[c].pc \notin Holding
      BY <1>2, <3>1
    <3>3. ~slot[r][t].lock
      BY <2>1, <3>2 DEF Guarded
    <3>4. SlotOf(d).lock /\ SlotOf(d) = slot[r][t]
      BY <1>1, <3>1 DEF CallInv, CallHolds, SlotOf
    <3> QED
      BY <3>3, <3>4
  <2>2. ASSUME NEW d \in Calls, NEW e \in Calls, call'[d].pc \in Holding, call'[e].pc \in Holding,
               call'[d].r = call'[e].r, call'[d].t = call'[e].t
        PROVE  d = e
    <3>1. CASE d # c /\ e # c
      BY <1>1, <2>2, <3>1 DEF Moves, LockInv
    <3>2. CASE d = c \/ e = c
      BY <2>1, <2>2, <3>2
    <3> QED
      BY <3>1, <3>2
  <2> QED
    BY <2>2 DEF LockInv
<1>7. SlotInv'
  BY <1>1 DEF SlotInv, Moves, Guarded
<1>8. RefInv'
  <2>1. ASSUME NEW q \in Runtimes, ~Used(q), NEW d \in Calls PROVE call'[d].r # q
    <3>1. call[d].r # q /\ call[c].r # q /\ q # None
      BY <1>1, <2>1, Constants DEF RefInv
    <3> QED
      BY <3>1 DEF Moves
  <2> QED
    BY <1>1, <2>1 DEF RefInv, Used
<1>9. OwnInv'
  BY <1>1 DEF OwnInv
<1>10. ASSUME NEW q \in Runtimes, drain[q].pc \in {"collect", "done"}, NEW u \in Tenants \ drain[q].todo
       PROVE  Swept(q, u)'
  <2>1. Swept(q, u) /\ ~runtime[q].accepting
    BY <1>1, <1>10 DEF DrainInv
  <2>2. ASSUME NEW d \in Calls, call'[d].r = q, call'[d].t = u PROVE call'[d].pc \notin Starting
    <3>1. CASE d # c
      <4>1. call'[d] = call[d]
        BY <3>1 DEF Moves
      <4> QED
        BY <2>1, <2>2, <4>1 DEF Swept
    <3>2. CASE d = c /\ call'[c].pc # "idle"
      <4>1. call[c].r = q /\ call[c].t = u /\ r = q
        BY <2>2, <3>2 DEF Moves
      <4>2. call[c].pc \notin Starting
        BY <2>1, <4>1 DEF Swept
      <4> QED
        BY <2>1, <3>2, <4>1, <4>2 DEF Guarded
    <3>3. CASE d = c /\ call'[c].pc = "idle"
      BY <3>3 DEF Starting
    <3> QED
      BY <3>1, <3>2, <3>3
  <2>3. ASSUME slot'[q][u].gen \in Up PROVE slot[q][u].gen \in Up
    <3>1. CASE q # r \/ u # t
      BY <2>3, <3>1 DEF Moves
    <3>2. CASE q = r /\ u = t
      <4>1. call[c].pc # "start"
        BY <2>1, <3>2 DEF Swept, Moves, Starting
      <4> QED
        BY <2>3, <3>2, <4>1 DEF Guarded
    <3> QED
      BY <3>1, <3>2
  <2> QED
    BY <1>1, <2>1, <2>2, <2>3 DEF Swept
<1>11. ASSUME NEW q \in Runtimes, drain[q].pc = "collect" PROVE HeldVictims(q)'
  <2>1. HeldVictims(q) /\ ~runtime[q].accepting /\ drain[q].victims \in Seq(Tenants)
    BY <1>1, <1>11 DEF DrainInv, IInv, Shape, DrainRecs
  <2>2. ASSUME NEW i \in 1..Len(drain[q].victims) PROVE slot'[q][drain[q].victims[i]].gen # "none"
    <3> DEFINE u == drain[q].victims[i]
    <3>1. u \in Tenants /\ slot[q][u].gen # "none"
      BY <2>1 DEF HeldVictims
    <3> HIDE DEF u
    <3>2. slot'[q][u].gen # "none"
      BY <2>1, <3>1 DEF Moves, Guarded
    <3> QED
      BY <3>2 DEF u
  <2> QED
    BY <1>1, <2>2 DEF HeldVictims
<1>12. DrainInv'
  BY <1>1, <1>10, <1>11 DEF DrainInv, Used
<1> QED
  BY <1>5, <1>6, <1>7, <1>8, <1>9, <1>12

(* The counts follow the permit and the start that c takes or gives back. *)
LEMMA MovesCounted ==
    ASSUME IInv, Shape', NEW c \in Calls, NEW r \in Runtimes, NEW t \in Tenants, Moves(c, r, t),
           NEW d \in Int,
           d = Bit(slot'[r][t].gen # "none") - Bit(slot[r][t].gen # "none")
               + Bit(call'[c].pc = "start") - Bit(call[c].pc = "start"),
           permits'[t] = permits[t] + d, permits'[t] <= PerTenant,
           \A u \in Tenants \ {t} : permits'[u] = permits[u],
           spent'[r][t] = spent[r][t] + d,
           \A q \in Runtimes, u \in Tenants : q # r \/ u # t => spent'[q][u] = spent[q][u]
    PROVE  AccountInv' /\ SpentInv'
<1> DEFINE g == Bit(slot[r][t].gen # "none")
           gg == Bit(slot'[r][t].gen # "none")
           b == Bit(call[c].pc = "start")
           bb == Bit(call'[c].pc = "start")
<1>1. AccountInv /\ SpentInv
  BY DEF IInv
<1>2. g \in Int /\ gg \in Int /\ b \in Int /\ bb \in Int
  BY DEF Bit
<1>3. Cardinality(GensOf(t)') = Cardinality(GensOf(t)) + gg - g
  <2>1. \A y : y # r => (y \in GensOf(t) <=> y \in GensOf(t)')
    BY DEF GensOf, Moves
  <2>2. (r \in GensOf(t) <=> slot[r][t].gen # "none") /\ (r \in GensOf(t)' <=> slot'[r][t].gen # "none")
    BY DEF GensOf
  <2>3. Bit(r \in GensOf(t)) = g /\ Bit(r \in GensOf(t)') = gg
    BY <2>2 DEF Bit
  <2> HIDE DEF g, gg
  <2> QED
    BY <2>1, <2>3, CountMoves, CountsFinite, CountsFinitePrimed
<1>4. \A u \in Tenants \ {t} : GensOf(u)' = GensOf(u)
  BY DEF GensOf, Moves
<1>5. /\ Cardinality(StartsOf(t)') = Cardinality(StartsOf(t)) + bb - b
      /\ Cardinality(StartsAt(r, t)') = Cardinality(StartsAt(r, t)) + bb - b
  <2>1. /\ \A y : y # c => (y \in StartsOf(t) <=> y \in StartsOf(t)')
        /\ \A y : y # c => (y \in StartsAt(r, t) <=> y \in StartsAt(r, t)')
    BY DEF StartsOf, StartsAt, Moves
  <2>2. /\ c \in StartsOf(t) <=> call[c].pc = "start"
        /\ c \in StartsOf(t)' <=> call'[c].pc = "start"
        /\ c \in StartsAt(r, t) <=> call[c].pc = "start"
        /\ c \in StartsAt(r, t)' <=> call'[c].pc = "start"
    BY DEF StartsOf, StartsAt, Moves
  <2>3. /\ Bit(c \in StartsOf(t)) = b /\ Bit(c \in StartsOf(t)') = bb
        /\ Bit(c \in StartsAt(r, t)) = b /\ Bit(c \in StartsAt(r, t)') = bb
    BY <2>2 DEF Bit
  <2> HIDE DEF b, bb
  <2>4. Cardinality(StartsOf(t)') = Cardinality(StartsOf(t)) + bb - b
    BY <2>1, <2>3, CountMoves, CountsFinite, CountsFinitePrimed
  <2>5. Cardinality(StartsAt(r, t)') = Cardinality(StartsAt(r, t)) + bb - b
    BY <2>1, <2>3, CountMoves, CountsFinite, CountsFinitePrimed
  <2> QED
    BY <2>4, <2>5
<1>6. ASSUME NEW u \in Tenants \ {t} PROVE StartsOf(u)' = StartsOf(u)
  BY DEF StartsOf, Moves
<1>7. ASSUME NEW q \in Runtimes, NEW u \in Tenants, q # r \/ u # t PROVE StartsAt(q, u)' = StartsAt(q, u)
  BY <1>7 DEF StartsOf, StartsAt, Moves
<1>8. AccountInv'
  <2>1. ASSUME NEW u \in Tenants
        PROVE  permits'[u] = Cardinality(GensOf(u)') + Cardinality(StartsOf(u)') /\ permits'[u] <= PerTenant
    <3>1. permits[u] = Cardinality(GensOf(u)) + Cardinality(StartsOf(u)) /\ permits[u] <= PerTenant
      BY <1>1 DEF AccountInv
    <3>2. CASE u # t
      BY <1>4, <1>6, <3>1, <3>2
    <3>3. CASE u = t
      <4>1. d = gg - g + bb - b
        OBVIOUS
      <4>2. Cardinality(GensOf(t)) \in Nat /\ Cardinality(StartsOf(t)) \in Nat
        BY CountsFinite
      <4>3. permits[t] = Cardinality(GensOf(t)) + Cardinality(StartsOf(t))
        BY <3>1, <3>3
      <4> HIDE DEF g, gg, b, bb
      <4>4. \A x, y \in Int : (x + y) + (gg - g + bb - b) = (x + gg - g) + (y + bb - b)
        BY <1>2
      <4>5. (Cardinality(GensOf(t)) + Cardinality(StartsOf(t))) + (gg - g + bb - b)
            = (Cardinality(GensOf(t)) + gg - g) + (Cardinality(StartsOf(t)) + bb - b)
        BY <4>2, <4>4
      <4>6. permits'[t] = (Cardinality(GensOf(t)) + Cardinality(StartsOf(t))) + (gg - g + bb - b)
        BY <4>1, <4>3
      <4>7. permits'[t] = Cardinality(GensOf(t)') + Cardinality(StartsOf(t)')
        BY <1>3, <1>5, <4>6, <4>5
      <4> QED
        BY <3>3, <4>7
    <3> QED
      BY <3>2, <3>3
  <2> QED
    BY <2>1 DEF AccountInv
<1>9. SpentInv'
  <2>1. ASSUME NEW q \in Runtimes, NEW u \in Tenants
        PROVE  spent'[q][u] = Cardinality(StartsAt(q, u)') + Bit(slot'[q][u].gen # "none")
    <3>1. spent[q][u] = Cardinality(StartsAt(q, u)) + Bit(slot[q][u].gen # "none")
      BY <1>1 DEF SpentInv
    <3>2. CASE q # r \/ u # t
      <4>1. slot'[q][u] = slot[q][u]
        BY <3>2 DEF Moves
      <4> QED
        BY <1>7, <3>1, <3>2, <4>1
    <3>3. CASE q = r /\ u = t
      <4>1. d = gg - g + bb - b
        OBVIOUS
      <4>2. Cardinality(StartsAt(q, u)) \in Nat
        BY CountsFinite
      <4>3. spent[r][t] = Cardinality(StartsAt(r, t)) + g
        BY <3>1, <3>3
      <4> HIDE DEF g, gg, b, bb
      <4>4. spent'[r][t] = Cardinality(StartsAt(r, t)') + gg
        BY <1>2, <1>5, <3>3, <4>1, <4>2, <4>3
      <4> QED
        BY <3>3, <4>4 DEF gg
    <3> QED
      BY <3>2, <3>3
  <2> QED
    BY <2>1 DEF SpentInv
<1> QED
  BY <1>8, <1>9

\* d permits and starts more for t, and for its slot in r.
Counts(r, t, d) ==
    /\ permits'[t] = permits[t] + d /\ permits'[t] <= PerTenant
    /\ \A u \in Tenants \ {t} : permits'[u] = permits[u]
    /\ spent'[r][t] = spent[r][t] + d
    /\ \A q \in Runtimes, u \in Tenants : q # r \/ u # t => spent'[q][u] = spent[q][u]

\* The bits that c changes at its slot.
Balance(c, s, z) ==
    Bit(z.gen # "none") - Bit(s.gen # "none") + Bit(call'[c].pc = "start") - Bit(call[c].pc = "start")

(* A step of a call keeps the invariant. *)
LEMMA StepKeeps ==
    ASSUME IInv, Shape', UNCHANGED <<store, manager, runtime, admin, drain>>,
           NEW c \in Calls, NEW r \in Runtimes, NEW t \in Tenants, Moves(c, r, t),
           Guarded(c, slot[r][t], slot'[r][t], runtime[r].accepting),
           NEW d \in Int, d = Balance(c, slot[r][t], slot'[r][t]), Counts(r, t, d)
    PROVE  IInv'
<1>1. CallInv' /\ LockInv' /\ SlotInv' /\ RefInv' /\ OwnInv' /\ DrainInv'
  BY MovesKeeps
<1>2. AccountInv' /\ SpentInv'
  BY MovesCounted DEF Counts, Balance
<1> QED
  BY <1>1, <1>2 DEF IInv

(* Nothing is counted. *)
LEMMA CountsSame ==
    ASSUME IInv, NEW r \in Runtimes, NEW t \in Tenants, permits' = permits, spent' = spent
    PROVE  Counts(r, t, 0)
<1>1. permits[t] \in Int /\ spent[r][t] \in Int /\ permits[t] <= PerTenant
  BY DEF IInv, Shape, AccountInv
<1> QED
  BY <1>1 DEF Counts

LEMMA GotoOK ==
    ASSUME Shape, NEW c \in Calls, NEW p \in CallPcs, Goto(c, p)
    PROVE  /\ call' \in [Calls -> CallRecs] /\ call'[c].pc = p
           /\ call'[c].r = call[c].r /\ call'[c].t = call[c].t
           /\ \A d \in Calls \ {c} : call'[d] = call[d]
<1> DEFINE w == [call[c] EXCEPT !.pc = p]
<1>1. call[c] \in CallRecs /\ call \in [Calls -> CallRecs]
  BY DEF Shape
<1>2. w \in CallRecs /\ w.pc = p /\ w.r = call[c].r /\ w.t = call[c].t
  BY <1>1 DEF CallRecs
<1>3. call' = [call EXCEPT ![c] = w]
  BY DEF Goto
<1> HIDE DEF w
<1> QED
  BY <1>1, <1>2, <1>3

LEMMA ReturnOK ==
    ASSUME Shape, NEW c \in Calls, NEW ok \in BOOLEAN, Return(c, ok)
    PROVE  /\ call' \in [Calls -> CallRecs]
           /\ c \notin Starts => call'[c].pc = "idle" /\ call'[c].r = None
           /\ c \in Starts => /\ call'[c].pc = "done" /\ call'[c].r = call[c].r
                              /\ call'[c].t = call[c].t
           /\ \A d \in Calls \ {c} : call'[d] = call[d]
<1> DEFINE w == IF c \in Starts THEN Call("done", call[c].r, call[c].t, ok) ELSE NoCall
<1>1. call[c] \in CallRecs /\ call \in [Calls -> CallRecs]
  BY DEF Shape
<1>2. /\ w \in CallRecs
      /\ c \notin Starts => w.pc = "idle" /\ w.r = None
      /\ c \in Starts => w.pc = "done" /\ w.r = call[c].r /\ w.t = call[c].t
  <2>1. "done" \in CallPcs /\ call[c].r \in 0..MaxRuntimes /\ call[c].t \in Tenants \cup {None}
    BY <1>1 DEF CallRecs, CallPcs
  <2> QED
    BY <2>1, CallFields, NoCallFields
<1>3. call' = [call EXCEPT ![c] = w]
  BY DEF Return
<1> HIDE DEF w
<1> QED
  BY <1>1, <1>2, <1>3

LEMMA SetSlotOK ==
    ASSUME Shape, NEW c \in Calls, call[c].r \in Runtimes, call[c].t \in Tenants,
           NEW s \in Slots, SetSlot(c, s)
    PROVE  /\ slot' \in [Runtimes -> [Tenants -> Slots]] /\ slot'[call[c].r][call[c].t] = s
           /\ \A q \in Runtimes, u \in Tenants :
                 q # call[c].r \/ u # call[c].t => slot'[q][u] = slot[q][u]
  BY SlotSet DEF Shape, SetSlot

(* What Spend and the limiter count. *)
LEMMA SpendOK ==
    ASSUME Shape, NEW c \in Calls, call[c].r \in Runtimes, call[c].t \in Tenants,
           NEW d \in Int, Spend(c, d), permits' = [permits EXCEPT ![call[c].t] = @ + d],
           permits[call[c].t] + d <= PerTenant
    PROVE  /\ Counts(call[c].r, call[c].t, d)
           /\ permits' \in [Tenants -> Int] /\ spent' \in [Runtimes -> [Tenants -> Int]]
<1> DEFINE r == call[c].r
           t == call[c].t
           n == spent[r][t] + d
<1>1. /\ spent \in [Runtimes -> [Tenants -> Int]] /\ permits \in [Tenants -> Int]
      /\ n \in Int /\ permits[t] \in Int
  BY DEF Shape
<1>2. spent' = [spent EXCEPT ![r][t] = n]
  BY DEF Spend
<1>3. /\ spent' \in [Runtimes -> [Tenants -> Int]] /\ spent'[r][t] = n
      /\ \A q \in Runtimes, u \in Tenants : q # r \/ u # t => spent'[q][u] = spent[q][u]
  <2> HIDE DEF n
  <2> QED
    BY <1>1, <1>2, SlotSet
<1>4. /\ permits' \in [Tenants -> Int] /\ permits'[t] = permits[t] + d
      /\ \A u \in Tenants \ {t} : permits'[u] = permits[u]
  BY <1>1
<1> QED
  BY <1>3, <1>4 DEF Counts

LEMMA ShapeStays ==
    ASSUME Shape, UNCHANGED <<store, manager, runtime, admin, drain, unfinished>>,
           call' \in [Calls -> CallRecs], slot' \in [Runtimes -> [Tenants -> Slots]],
           permits' \in [Tenants -> Int], spent' \in [Runtimes -> [Tenants -> Int]],
           left' \in Bounds
    PROVE  Shape'
  BY DEF Shape, store, manager

(* What is known of a call at its slot. *)
LEMMA AtCall ==
    ASSUME IInv, NEW c \in Calls, call[c].pc # "idle"
    PROVE  /\ call[c].r \in Runtimes /\ call[c].t \in Tenants
           /\ SlotOf(c) = slot[call[c].r][call[c].t] /\ SlotOf(c) \in Slots
           /\ SlotFit(SlotOf(c)) /\ CallHolds(c)
           /\ SlotOf(c).here \in BOOLEAN /\ SlotOf(c).lock \in BOOLEAN
           /\ SlotOf(c).quarantined \in BOOLEAN
<1>1. call[c].r \in Runtimes /\ call[c].t \in Tenants /\ CallHolds(c)
  BY DEF IInv, CallInv, CallAt
<1>2. SlotOf(c) = slot[call[c].r][call[c].t] /\ SlotOf(c) \in Slots
  BY <1>1 DEF IInv, Shape, SlotOf
<1> QED
  BY <1>1, <1>2, SlotFields DEF IInv, SlotInv

(* A call that returns or goes on has moved. *)
LEMMA GotoMoves ==
    ASSUME IInv, NEW c \in Calls, call[c].pc # "idle", NEW p \in CallPcs \ {"idle", "done"}, Goto(c, p),
           \A q \in Runtimes, u \in Tenants :
                 q # call[c].r \/ u # call[c].t => slot'[q][u] = slot[q][u]
    PROVE  Moves(c, call[c].r, call[c].t) /\ call' \in [Calls -> CallRecs] /\ call'[c].pc = p
<1>1. /\ call' \in [Calls -> CallRecs] /\ call'[c].pc = p
      /\ call'[c].r = call[c].r /\ call'[c].t = call[c].t
      /\ \A d \in Calls \ {c} : call'[d] = call[d]
  BY GotoOK DEF IInv
<1> QED
  BY <1>1 DEF Moves

LEMMA ReturnMoves ==
    ASSUME IInv, NEW c \in Calls, call[c].pc # "idle", NEW ok \in BOOLEAN, Return(c, ok),
           \A q \in Runtimes, u \in Tenants :
                 q # call[c].r \/ u # call[c].t => slot'[q][u] = slot[q][u]
    PROVE  /\ Moves(c, call[c].r, call[c].t) /\ call' \in [Calls -> CallRecs]
           /\ call'[c].pc \in {"idle", "done"}
           /\ call'[c].pc \notin Holding \cup {"wait"} /\ call'[c].pc \notin Starting
           /\ call'[c].pc # "start"
<1>1. /\ call' \in [Calls -> CallRecs]
      /\ c \notin Starts => call'[c].pc = "idle" /\ call'[c].r = None
      /\ c \in Starts => /\ call'[c].pc = "done" /\ call'[c].r = call[c].r
                         /\ call'[c].t = call[c].t
      /\ \A d \in Calls \ {c} : call'[d] = call[d]
  BY ReturnOK DEF IInv
<1> QED
  BY <1>1 DEF Moves, Holding, Starting

LEMMA EnterKeeps ==
    ASSUME IInv, NEW c \in Calls, Enter(c)
    PROVE  IInv'
<1> DEFINE r == call[c].r
           t == call[c].t
<1>1. /\ call[c].pc = "enter" /\ slot' = slot /\ permits' = permits /\ spent' = spent
      /\ left' = left
      /\ UNCHANGED <<store, manager, runtime, admin, drain, unfinished>>
  BY DEF Enter, history
<1>2. /\ r \in Runtimes /\ t \in Tenants /\ SlotOf(c) = slot[r][t]
      /\ SlotFit(slot[r][t]) /\ Shape
  BY <1>1, AtCall DEF IInv
<1>3. CASE Goto(c, "slot")
  <2>1. Moves(c, r, t) /\ call' \in [Calls -> CallRecs] /\ call'[c].pc = "slot"
    BY <1>1, <1>3, GotoMoves DEF CallPcs
  <2>2. Shape'
    BY <1>1, <1>2, <2>1, ShapeStays DEF Shape
  <2>3. Guarded(c, slot[r][t], slot'[r][t], runtime[r].accepting)
    BY <1>1, <1>2, <2>1 DEF Guarded, Holding, Starting
  <2>4. 0 = Balance(c, slot[r][t], slot'[r][t]) /\ Counts(r, t, 0)
    BY <1>1, <1>2, <2>1, CountsSame DEF Balance, Bit
  <2> QED
    BY <1>1, <1>2, <2>1, <2>2, <2>3, <2>4, StepKeeps
<1>4. CASE Return(c, FALSE)
  <2>1. /\ Moves(c, r, t) /\ call' \in [Calls -> CallRecs]
        /\ call'[c].pc \notin Holding \cup {"wait"} /\ call'[c].pc \notin Starting
        /\ call'[c].pc # "start"
    BY <1>1, <1>4, ReturnMoves
  <2>2. Shape'
    BY <1>1, <1>2, <2>1, ShapeStays DEF Shape
  <2>3. Guarded(c, slot[r][t], slot'[r][t], runtime[r].accepting)
    BY <1>1, <1>2, <2>1 DEF Guarded, Holding
  <2>4. 0 = Balance(c, slot[r][t], slot'[r][t]) /\ Counts(r, t, 0)
    BY <1>1, <1>2, <2>1, CountsSame DEF Balance, Bit
  <2> QED
    BY <1>1, <1>2, <2>1, <2>2, <2>3, <2>4, StepKeeps
<1> QED
  BY <1>3, <1>4 DEF Enter

(* The steps that only note something in the slot. *)
LEMMA NoteKeeps ==
    ASSUME IInv, NEW c \in Calls, call[c].pc # "idle", NEW z \in Slots, SetSlot(c, z),
           permits' = permits, spent' = spent, left' = left,
           UNCHANGED <<store, manager, runtime, admin, drain, unfinished>>,
           \/ \E p \in CallPcs \ {"idle", "done"} : Goto(c, p)
           \/ \E ok \in BOOLEAN : Return(c, ok),
           Guarded(c, SlotOf(c), z, runtime[call[c].r].accepting),
           0 = Balance(c, SlotOf(c), z)
    PROVE  IInv'
<1> DEFINE r == call[c].r
           t == call[c].t
<1>1. r \in Runtimes /\ t \in Tenants /\ SlotOf(c) = slot[r][t] /\ Shape
  BY AtCall DEF IInv
<1>2. /\ slot' \in [Runtimes -> [Tenants -> Slots]] /\ slot'[r][t] = z
      /\ \A q \in Runtimes, u \in Tenants : q # r \/ u # t => slot'[q][u] = slot[q][u]
  BY <1>1, SetSlotOK
<1>3. Moves(c, r, t) /\ call' \in [Calls -> CallRecs]
  BY <1>2, GotoMoves, ReturnMoves
<1>4. Shape'
  BY <1>1, <1>2, <1>3, ShapeStays DEF Shape
<1>5. Counts(r, t, 0)
  BY <1>1, CountsSame
<1> QED
  BY <1>1, <1>2, <1>3, <1>4, <1>5, StepKeeps

LEMMA GetSlotKeeps ==
    ASSUME IInv, NEW c \in Calls, GetSlot(c)
    PROVE  IInv'
<1> DEFINE z == [SlotOf(c) EXCEPT !.here = TRUE]
<1>1. /\ call[c].pc = "slot" /\ SetSlot(c, z) /\ Goto(c, "wait")
      /\ permits' = permits /\ spent' = spent /\ left' = left
      /\ UNCHANGED <<store, manager, runtime, admin, drain, unfinished>>
  BY DEF GetSlot, history
<1>2. SlotOf(c) \in Slots /\ SlotFit(SlotOf(c)) /\ Shape
  BY <1>1, AtCall DEF IInv
<1>3. /\ z \in Slots /\ z.here /\ z.lock = SlotOf(c).lock /\ z.gen = SlotOf(c).gen
      /\ z.fails = SlotOf(c).fails /\ z.quarantined = SlotOf(c).quarantined
  BY <1>2, SlotFields
<1>4. "wait" \in CallPcs \ {"idle", "done"}
  BY DEF CallPcs
<1>5. call'[c].pc = "wait"
  BY <1>1, <1>2, <1>4, GotoOK
<1> HIDE DEF z
<1>6. Guarded(c, SlotOf(c), z, runtime[call[c].r].accepting)
  BY <1>1, <1>2, <1>3, <1>5 DEF Guarded, Holding, Starting, SlotFit
<1>7. 0 = Balance(c, SlotOf(c), z)
  BY <1>1, <1>3, <1>5 DEF Balance, Bit
<1> QED
  BY <1>1, <1>3, <1>4, <1>6, <1>7, NoteKeeps

LEMMA LockKeeps ==
    ASSUME IInv, NEW c \in Calls, Lock(c)
    PROVE  IInv'
<1> DEFINE z == [SlotOf(c) EXCEPT !.lock = TRUE]
<1>1. /\ call[c].pc = "wait" /\ ~SlotOf(c).lock /\ SetSlot(c, z) /\ Goto(c, "locked")
      /\ permits' = permits /\ spent' = spent /\ left' = left
      /\ UNCHANGED <<store, manager, runtime, admin, drain, unfinished>>
  BY DEF Lock, history
<1>2. SlotOf(c) \in Slots /\ SlotFit(SlotOf(c)) /\ Shape /\ SlotOf(c).here
  BY <1>1, AtCall DEF IInv, CallHolds
<1>3. /\ z \in Slots /\ z.here = SlotOf(c).here /\ z.lock /\ z.gen = SlotOf(c).gen
      /\ z.fails = SlotOf(c).fails /\ z.quarantined = SlotOf(c).quarantined
  BY <1>2, SlotFields
<1>4. "locked" \in CallPcs \ {"idle", "done"}
  BY DEF CallPcs, Holding
<1>5. call'[c].pc = "locked"
  BY <1>1, <1>2, <1>4, GotoOK
<1> HIDE DEF z
<1>6. Guarded(c, SlotOf(c), z, runtime[call[c].r].accepting)
  BY <1>1, <1>2, <1>3, <1>5 DEF Guarded, Holding, Starting, SlotFit
<1>7. 0 = Balance(c, SlotOf(c), z)
  BY <1>1, <1>3, <1>5 DEF Balance, Bit
<1> QED
  BY <1>1, <1>3, <1>4, <1>6, <1>7, NoteKeeps

(* The lock is given back and nothing else changes. *)
LEMMA LeaveKeeps ==
    ASSUME IInv, NEW c \in Calls, call[c].pc \in {"locked", "backoff"}, NEW ok \in BOOLEAN, Leave(c, ok),
           left' = left, UNCHANGED <<store, manager, runtime, admin, drain, unfinished>>
    PROVE  IInv'
<1> DEFINE z == [SlotOf(c) EXCEPT !.lock = FALSE]
<1>1. /\ call[c].pc \in Holding /\ call[c].pc # "idle" /\ call[c].pc # "start"
      /\ SetSlot(c, z) /\ Return(c, ok) /\ permits' = permits /\ spent' = spent
  BY DEF Leave, Unlocked, Holding
<1>2. SlotOf(c) \in Slots /\ SlotFit(SlotOf(c)) /\ call[c].r \in Runtimes /\ call[c].t \in Tenants /\ Shape
  BY <1>1, AtCall DEF IInv
<1>3. /\ z \in Slots /\ z.here = SlotOf(c).here /\ z.gen = SlotOf(c).gen
      /\ z.fails = SlotOf(c).fails /\ z.quarantined = SlotOf(c).quarantined
  BY <1>2, SlotFields
<1>4. /\ call'[c].pc \notin Holding \cup {"wait"} /\ call'[c].pc \notin Starting
      /\ call'[c].pc # "start"
  <2>1. \A q \in Runtimes, u \in Tenants :
            q # call[c].r \/ u # call[c].t => slot'[q][u] = slot[q][u]
    BY <1>1, <1>2, <1>3, SetSlotOK
  <2> QED
    BY <1>1, <2>1, ReturnMoves
<1> HIDE DEF z
<1>5. Guarded(c, SlotOf(c), z, runtime[call[c].r].accepting)
  BY <1>1, <1>2, <1>3, <1>4 DEF Guarded, SlotFit
<1>6. 0 = Balance(c, SlotOf(c), z)
  BY <1>1, <1>3, <1>4 DEF Balance, Bit
<1> QED
  BY <1>1, <1>3, <1>5, <1>6, NoteKeeps

(* The steps that take or give back a permit. *)
LEMMA CountedKeeps ==
    ASSUME IInv, NEW c \in Calls, call[c].pc # "idle", NEW z \in Slots,
           slot' \in [Runtimes -> [Tenants -> Slots]], slot'[call[c].r][call[c].t] = z,
           \A q \in Runtimes, u \in Tenants :
                 q # call[c].r \/ u # call[c].t => slot'[q][u] = slot[q][u],
           left' \in Bounds, UNCHANGED <<store, manager, runtime, admin, drain, unfinished>>,
           \/ \E p \in CallPcs \ {"idle", "done"} : Goto(c, p)
           \/ \E ok \in BOOLEAN : Return(c, ok),
           Guarded(c, SlotOf(c), z, runtime[call[c].r].accepting),
           NEW d \in Int, d = Balance(c, SlotOf(c), z), Spend(c, d),
           permits' = [permits EXCEPT ![call[c].t] = @ + d], permits[call[c].t] + d <= PerTenant
    PROVE  IInv'
<1> DEFINE r == call[c].r
           t == call[c].t
<1>1. r \in Runtimes /\ t \in Tenants /\ SlotOf(c) = slot[r][t] /\ Shape
  BY AtCall DEF IInv
<1>2. Moves(c, r, t) /\ call' \in [Calls -> CallRecs]
  BY GotoMoves, ReturnMoves
<1>3. /\ Counts(r, t, d)
      /\ permits' \in [Tenants -> Int] /\ spent' \in [Runtimes -> [Tenants -> Int]]
  BY <1>1, SpendOK
<1>4. Shape'
  BY <1>1, <1>2, <1>3, ShapeStays
<1> QED
  BY <1>1, <1>2, <1>3, <1>4, StepKeeps

LEMMA Released ==
    ASSUME IInv, NEW t \in Tenants, Release(t)
    PROVE  permits' = [permits EXCEPT ![t] = @ + (-1)] /\ permits[t] + (-1) <= PerTenant
<1>1. permits[t] \in Int /\ permits[t] <= PerTenant /\ PerTenant \in Nat
  BY Constants DEF IInv, Shape, AccountInv
<1>2. permits[t] - 1 = permits[t] + (-1)
  BY <1>1
<1>3. permits' = [permits EXCEPT ![t] = permits[t] - 1]
  BY DEF Release
<1>4. permits' = [permits EXCEPT ![t] = permits[t] + (-1)]
  BY <1>2, <1>3, Zenon
<1> QED
  BY <1>1, <1>4

(* A generation that went down is dropped and charged. *)
LEMMA ReplaceDownKeeps ==
    ASSUME IInv, NEW c \in Calls, call[c].pc = "locked", runtime[call[c].r].accepting,
           SlotOf(c).gen = "down", Replace(c),
           left' = left, UNCHANGED <<store, manager, runtime, admin, drain, unfinished>>
    PROVE  IInv'
<1> DEFINE s == SlotOf(c)
           y == [s EXCEPT !.gen = "none"]
           x == Charge(y)
           z == IF x.quarantined THEN Unlocked(x) ELSE x
<1>1. /\ s \in Slots /\ SlotFit(s) /\ call[c].r \in Runtimes /\ call[c].t \in Tenants /\ Shape
      /\ s.here /\ s.lock /\ s.fails \in Nat /\ call[c].pc # "idle" /\ s.gen = "down"
      /\ call[c].pc \in Holding /\ call[c].pc # "start"
  BY AtCall, SlotFields DEF IInv, CallHolds, Holding
<1>2. y \in Slots /\ y.here = s.here /\ y.lock = s.lock /\ y.gen = "none" /\ y.fails = s.fails
  <2>1. "none" \in Up \cup {"none", "down"}
    OBVIOUS
  <2> HIDE DEF s
  <2> QED
    BY <1>1, <2>1 DEF Slots
<1>3. /\ x \in Slots /\ x.here = s.here /\ x.lock = s.lock /\ x.gen = "none"
      /\ x.fails = s.fails + 1 /\ (x.quarantined <=> s.fails >= MaxFailures)
  <2> HIDE DEF y
  <2> QED
    BY <1>2, Charged
<1>4. /\ IF x.quarantined THEN Return(c, FALSE) /\ SetSlot(c, Unlocked(x))
         ELSE Goto(c, "backoff") /\ SetSlot(c, x)
      /\ Release(call[c].t) /\ Spend(c, -1)
  BY <1>1 DEF Replace
<1> HIDE DEF s, y, x
<1>5. s.fails <= MaxFailures
  BY <1>1, Constants DEF SlotFit
<1>6. Unlocked(x) \in Slots /\ Unlocked(x).here = x.here /\ Unlocked(x).gen = x.gen
      /\ Unlocked(x).fails = x.fails /\ Unlocked(x).quarantined = x.quarantined
  BY <1>3, SlotFields DEF Unlocked
<1>7. /\ z \in Slots /\ z.here /\ z.gen = "none" /\ z.fails = s.fails + 1
      /\ (z.quarantined <=> s.fails >= MaxFailures)
      /\ ~x.quarantined => z.lock
  BY <1>1, <1>3, <1>6
<1>8. SlotFit(z)
  BY <1>1, <1>5, <1>7, Constants DEF SlotFit
<1>9. /\ slot' \in [Runtimes -> [Tenants -> Slots]] /\ slot'[call[c].r][call[c].t] = z
      /\ \A q \in Runtimes, u \in Tenants :
            q # call[c].r \/ u # call[c].t => slot'[q][u] = slot[q][u]
  <2>1. SetSlot(c, z)
    BY <1>4
  <2> HIDE DEF z
  <2> QED
    BY <1>1, <1>7, <2>1, SetSlotOK
<1>10. "backoff" \in CallPcs \ {"idle", "done"}
  BY DEF CallPcs, Holding
<1>11. IF x.quarantined
       THEN /\ call'[c].pc \notin Holding \cup {"wait"} /\ call'[c].pc \notin Starting
            /\ call'[c].pc # "start"
       ELSE call'[c].pc = "backoff"
  BY <1>1, <1>4, <1>9, <1>10, ReturnMoves, GotoMoves
<1>12. Guarded(c, s, z, runtime[call[c].r].accepting)
  <2>1. ~x.quarantined => ~z.quarantined
    OBVIOUS
  <2> HIDE DEF z
  <2>2. CASE x.quarantined
    BY <1>1, <1>7, <1>8, <1>11, <2>2 DEF Guarded, Up
  <2>3. CASE ~x.quarantined
    BY <1>1, <1>7, <1>8, <1>11, <2>1, <2>3 DEF Guarded, Up
  <2> QED
    BY <2>2, <2>3
<1>13. -1 = Balance(c, s, z)
  <2>1. call'[c].pc # "start" /\ z.gen = "none"
    BY <1>7, <1>11
  <2> HIDE DEF z
  <2> QED
    BY <1>1, <2>1 DEF Balance, Bit
<1>14. permits' = [permits EXCEPT ![call[c].t] = @ + (-1)] /\ permits[call[c].t] + (-1) <= PerTenant
  BY <1>1, <1>4, Released
<1>15. left' \in Bounds
  BY <1>1 DEF Shape
<1>16. s = SlotOf(c)
  BY DEF s
<1> HIDE DEF z
<1>17. \/ \E p \in CallPcs \ {"idle", "done"} : Goto(c, p)
       \/ \E ok \in BOOLEAN : Return(c, ok)
  BY <1>4, <1>10
<1>18. -1 \in Int /\ Spend(c, -1)
  BY <1>4
<1> QED
  BY <1>1, <1>7, <1>9, <1>12, <1>13, <1>14, <1>15, <1>16, <1>17, <1>18, CountedKeeps

(* An empty slot refuses or lets its caller go on. *)
LEMMA ReplaceEmptyKeeps ==
    ASSUME IInv, NEW c \in Calls, call[c].pc = "locked", runtime[call[c].r].accepting,
           SlotOf(c).gen = "none", Replace(c),
           left' = left, UNCHANGED <<store, manager, runtime, admin, drain, unfinished>>
    PROVE  IInv'
<1> DEFINE s == SlotOf(c)
<1>1. /\ s \in Slots /\ SlotFit(s) /\ call[c].r \in Runtimes /\ call[c].t \in Tenants /\ Shape
      /\ s.here /\ s.lock /\ call[c].pc # "idle" /\ s.gen = "none"
      /\ call[c].pc \in Holding /\ call[c].pc # "start"
  BY AtCall DEF IInv, CallHolds, Holding
<1>2. /\ IF s.quarantined THEN Return(c, FALSE) /\ SetSlot(c, Unlocked(s))
         ELSE Goto(c, "backoff") /\ SetSlot(c, s)
      /\ permits' = permits /\ spent' = spent
  BY <1>1 DEF Replace
<1>3. CASE s.quarantined
  <2>1. Leave(c, FALSE)
    BY <1>2, <1>3 DEF Leave
  <2> QED
    BY <2>1, LeaveKeeps
<1>4. CASE ~s.quarantined
  <2>1. "backoff" \in CallPcs \ {"idle", "done"}
    BY DEF CallPcs, Holding
  <2>2. call'[c].pc = "backoff"
    BY <1>1, <1>2, <1>4, <2>1, GotoOK
  <2>3. Guarded(c, s, s, runtime[call[c].r].accepting)
    <3> HIDE DEF s
    <3> QED
      BY <1>1, <1>4, <2>2 DEF Guarded
  <2>4. 0 = Balance(c, s, s)
    <3> HIDE DEF s
    <3> QED
      BY <1>1, <2>2 DEF Balance, Bit
  <2> QED
    BY <1>1, <1>2, <1>4, <2>1, <2>3, <2>4, NoteKeeps
<1> QED
  BY <1>3, <1>4

LEMMA InspectKeeps ==
    ASSUME IInv, NEW c \in Calls, Inspect(c)
    PROVE  IInv'
<1>1. /\ call[c].pc = "locked" /\ left' = left
      /\ UNCHANGED <<store, manager, runtime, admin, drain, unfinished>>
  BY DEF Inspect
<1>2. SlotOf(c).gen \in Up \cup {"none", "down"}
  BY <1>1, AtCall DEF Slots
<1>3. CASE Leave(c, FALSE) \/ Leave(c, TRUE)
  BY <1>1, <1>3, LeaveKeeps
<1>4. CASE runtime[call[c].r].accepting /\ SlotOf(c).gen \notin Up /\ Replace(c)
  BY <1>1, <1>2, <1>4, ReplaceDownKeeps, ReplaceEmptyKeeps
<1> QED
  BY <1>3, <1>4 DEF Inspect

LEMMA AdmitKeeps ==
    ASSUME IInv, NEW c \in Calls, Admit(c)
    PROVE  IInv'
<1> DEFINE s == SlotOf(c)
<1>1. /\ call[c].pc = "backoff" /\ left' = left
      /\ UNCHANGED <<store, manager, runtime, admin, drain, unfinished>>
  BY DEF Admit
<1>2. CASE Leave(c, FALSE)
  BY <1>1, <1>2, LeaveKeeps
<1>3. CASE /\ Admissible(call[c].t) /\ Acquire(call[c].t) /\ Spend(c, 1)
           /\ Goto(c, "start") /\ slot' = slot
  <2>1. /\ s \in Slots /\ SlotFit(s) /\ call[c].r \in Runtimes /\ call[c].t \in Tenants /\ Shape
        /\ s.here /\ s.lock /\ s.gen = "none" /\ ~s.quarantined
        /\ s = slot[call[c].r][call[c].t]
    BY <1>1, AtCall DEF IInv, CallHolds, Holding, Starting
  <2>2. "start" \in CallPcs \ {"idle", "done"}
    BY DEF CallPcs, Holding
  <2>3. call'[c].pc = "start"
    BY <1>3, <2>1, <2>2, GotoOK
  <2>4. Guarded(c, s, s, runtime[call[c].r].accepting)
    <3> HIDE DEF s
    <3> QED
      BY <1>1, <2>1, <2>3 DEF Guarded, Holding, Starting
  <2>5. 1 = Balance(c, s, s)
    <3> HIDE DEF s
    <3> QED
      BY <1>1, <2>1, <2>3 DEF Balance, Bit
  <2>6. permits[call[c].t] + 1 <= PerTenant /\ permits' = [permits EXCEPT ![call[c].t] = @ + 1]
    <3>1. permits[call[c].t] \in Int /\ permits[call[c].t] < PerTenant
      BY <1>3, <2>1 DEF Shape, Admissible
    <3> QED
      BY <1>3, <3>1, Constants DEF Acquire
  <2>7. left' \in Bounds /\ slot' \in [Runtimes -> [Tenants -> Slots]]
        /\ slot'[call[c].r][call[c].t] = s
    BY <1>1, <1>3, <2>1 DEF Shape
  <2>8. /\ call[c].pc # "idle" /\ 1 \in Int
        /\ \A q \in Runtimes, u \in Tenants :
              q # call[c].r \/ u # call[c].t => slot'[q][u] = slot[q][u]
        /\ \E p \in CallPcs \ {"idle", "done"} : Goto(c, p)
    BY <1>1, <1>3, <2>2
  <2> QED
    BY <1>1, <1>3, <2>1, <2>4, <2>5, <2>6, <2>7, <2>8, CountedKeeps
<1> QED
  BY <1>2, <1>3 DEF Admit

LEMMA StartedKeeps ==
    ASSUME IInv, NEW c \in Calls, Started(c)
    PROVE  IInv'
<1> DEFINE s == SlotOf(c)
           y == [s EXCEPT !.gen = "ready"]
           z == Unlocked(y)
<1>1. /\ call[c].pc = "start" /\ SetSlot(c, z) /\ Return(c, TRUE)
      /\ permits' = permits /\ spent' = spent /\ left' = left
      /\ UNCHANGED <<store, manager, runtime, admin, drain, unfinished>>
  BY DEF Started, history
<1>2. /\ s \in Slots /\ SlotFit(s) /\ call[c].r \in Runtimes /\ call[c].t \in Tenants /\ Shape
      /\ s.here /\ s.gen = "none" /\ ~s.quarantined /\ call[c].pc # "idle" /\ call[c].pc \in Holding
  BY <1>1, AtCall DEF IInv, CallHolds, Holding, Starting
<1>3. /\ z \in Slots /\ z.here = s.here /\ z.gen = "ready" /\ z.fails = s.fails
      /\ z.quarantined = s.quarantined
  <2> HIDE DEF s
  <2> QED
    BY <1>2 DEF Slots, Unlocked, Up
<1> HIDE DEF s, y, z
<1>4. /\ call'[c].pc \notin Holding \cup {"wait"} /\ call'[c].pc \notin Starting
      /\ call'[c].pc # "start"
  <2>1. \A q \in Runtimes, u \in Tenants :
            q # call[c].r \/ u # call[c].t => slot'[q][u] = slot[q][u]
    BY <1>1, <1>2, <1>3, SetSlotOK
  <2> QED
    BY <1>1, <1>2, <2>1, ReturnMoves
<1>5. Guarded(c, s, z, runtime[call[c].r].accepting)
  BY <1>1, <1>2, <1>3, <1>4 DEF Guarded, SlotFit
<1>6. 0 = Balance(c, s, z)
  BY <1>1, <1>2, <1>3, <1>4 DEF Balance, Bit
<1> QED
  BY <1>1, <1>2, <1>3, <1>5, <1>6, NoteKeeps DEF s

(* A start ends without a generation and its permit is dropped. *)
LEMMA GiveBackKeeps ==
    ASSUME IInv, NEW c \in Calls, call[c].pc = "start", NEW z \in Slots, SetSlot(c, z), SlotFit(z),
           z.here, z.gen = "none", Return(c, FALSE), Release(call[c].t), Spend(c, -1),
           left' \in Bounds, UNCHANGED <<store, manager, runtime, admin, drain, unfinished>>
    PROVE  IInv'
<1> DEFINE s == SlotOf(c)
<1>1. /\ s \in Slots /\ call[c].r \in Runtimes /\ call[c].t \in Tenants /\ Shape
      /\ s.gen = "none" /\ call[c].pc # "idle" /\ call[c].pc \in Holding
  BY AtCall DEF IInv, CallHolds, Holding, Starting
<1>2. /\ slot' \in [Runtimes -> [Tenants -> Slots]] /\ slot'[call[c].r][call[c].t] = z
      /\ \A q \in Runtimes, u \in Tenants :
            q # call[c].r \/ u # call[c].t => slot'[q][u] = slot[q][u]
  BY <1>1, SetSlotOK
<1>3. /\ call'[c].pc \notin Holding \cup {"wait"} /\ call'[c].pc \notin Starting
      /\ call'[c].pc # "start"
  BY <1>1, <1>2, ReturnMoves
<1> HIDE DEF s
<1>4. Guarded(c, s, z, runtime[call[c].r].accepting)
  BY <1>1, <1>3 DEF Guarded, Up
<1>5. -1 = Balance(c, s, z) /\ -1 \in Int
  BY <1>1, <1>3 DEF Balance, Bit
<1>6. permits' = [permits EXCEPT ![call[c].t] = @ + (-1)] /\ permits[call[c].t] + (-1) <= PerTenant
  BY <1>1, Released
<1> QED
  BY <1>1, <1>2, <1>4, <1>5, <1>6, CountedKeeps DEF s

LEMMA StartFailedKeeps ==
    ASSUME IInv, NEW c \in Calls, StartFailed(c)
    PROVE  IInv'
<1> DEFINE s == SlotOf(c)
           x == Charge(s)
           z == Unlocked(x)
<1>1. /\ call[c].pc = "start" /\ left.faults > 0 /\ left' = Faulted
      /\ SetSlot(c, z) /\ Return(c, FALSE) /\ Release(call[c].t) /\ Spend(c, -1)
      /\ UNCHANGED <<store, manager, runtime, admin, drain, unfinished>>
  BY DEF StartFailed
<1>2. /\ s \in Slots /\ SlotFit(s) /\ Shape /\ s.here /\ s.gen = "none" /\ ~s.quarantined
      /\ s.fails \in Nat
  BY <1>1, AtCall, SlotFields DEF IInv, CallHolds, Holding, Starting
<1>3. /\ x \in Slots /\ x.here /\ x.gen = "none" /\ x.fails = s.fails + 1
      /\ (x.quarantined <=> s.fails >= MaxFailures)
  <2> HIDE DEF s
  <2> QED
    BY <1>2, Charged
<1> HIDE DEF s, x
<1>4. /\ z \in Slots /\ z.here = x.here /\ z.gen = x.gen /\ z.fails = x.fails
      /\ z.quarantined = x.quarantined
  BY <1>3, SlotFields DEF Unlocked
<1> HIDE DEF z
<1>5. SlotFit(z)
  BY <1>2, <1>3, <1>4, Constants DEF SlotFit
<1>6. left' \in Bounds
  BY <1>1, <1>2, FaultedOK DEF Shape
<1> QED
  BY <1>1, <1>3, <1>4, <1>5, <1>6, GiveBackKeeps

LEMMA CancelKeeps ==
    ASSUME IInv, NEW c \in Calls, Cancel(c)
    PROVE  IInv'
<1> DEFINE s == SlotOf(c)
<1>1. /\ call[c].pc \in {"slot", "wait", "backoff", "start"} /\ Return(c, FALSE)
      /\ call[c].pc # "idle" /\ left' = left
      /\ UNCHANGED <<store, manager, runtime, admin, drain, unfinished>>
  BY DEF Cancel
<1>2. /\ s \in Slots /\ SlotFit(s) /\ Shape /\ CallHolds(c) /\ call[c].r \in Runtimes
      /\ call[c].t \in Tenants /\ s = slot[call[c].r][call[c].t]
  BY <1>1, AtCall DEF IInv
<1>3. CASE call[c].pc \in {"slot", "wait"}
  <2>1. slot' = slot /\ permits' = permits /\ spent' = spent
    BY <1>3 DEF Cancel, Holding
  <2>2. /\ Moves(c, call[c].r, call[c].t) /\ call' \in [Calls -> CallRecs]
        /\ call'[c].pc \notin Holding \cup {"wait"} /\ call'[c].pc \notin Starting
        /\ call'[c].pc # "start"
    BY <1>1, <2>1, ReturnMoves
  <2>3. Shape'
    BY <1>1, <1>2, <2>1, <2>2, ShapeStays DEF Shape
  <2> HIDE DEF s
  <2>4. Guarded(c, s, s, runtime[call[c].r].accepting)
    BY <1>2, <2>2 DEF Guarded, Holding
  <2>5. 0 = Balance(c, s, s)
    BY <1>3, <2>2 DEF Balance, Bit
  <2>6. Counts(call[c].r, call[c].t, 0)
    BY <1>2, <2>1, CountsSame
  <2>7. slot'[call[c].r][call[c].t] = s
    BY <1>2, <2>1
  <2> QED
    BY <1>1, <1>2, <2>2, <2>3, <2>4, <2>5, <2>6, <2>7, StepKeeps
<1>4. CASE call[c].pc = "backoff"
  <2>1. Leave(c, FALSE)
    BY <1>1, <1>4 DEF Cancel, Leave, Holding
  <2> QED
    BY <1>1, <1>4, <2>1, LeaveKeeps
<1>5. CASE call[c].pc = "start"
  <2>1. SetSlot(c, Unlocked(s)) /\ Release(call[c].t) /\ Spend(c, -1)
    BY <1>5 DEF Cancel, Holding
  <2>2. s.here /\ s.gen = "none"
    BY <1>2, <1>5 DEF CallHolds, Holding, Starting
  <2> HIDE DEF s
  <2>3. /\ Unlocked(s) \in Slots /\ Unlocked(s).here = s.here /\ Unlocked(s).gen = s.gen
        /\ Unlocked(s).fails = s.fails /\ Unlocked(s).quarantined = s.quarantined
    BY <1>2, SlotFields DEF Unlocked
  <2>4. SlotFit(Unlocked(s))
    BY <1>2, <2>3 DEF SlotFit
  <2>5. left' \in Bounds
    BY <1>1, <1>2 DEF Shape
  <2> QED
    BY <1>1, <1>5, <2>1, <2>2, <2>3, <2>4, <2>5, GiveBackKeeps
<1> QED
  BY <1>1, <1>3, <1>4, <1>5

-----------------------------------------------------------------------------
(* Steps of the handlers and refreshes. *)

\* Calls come and go, none of which is at its slot yet or still.
Passing(d) ==
    \/ call'[d] = call[d]
    \/ call[d].pc \notin Holding \cup {"wait"} /\ call'[d].pc \notin Holding \cup {"wait"}

LEMMA PassingKeeps ==
    ASSUME IInv, slot' = slot, permits' = permits, spent' = spent,
           \A d \in Calls : Passing(d) /\ CallAt(d)'
    PROVE  /\ CallInv' /\ LockInv' /\ SlotInv' /\ AccountInv' /\ SpentInv'
           /\ \A r \in Runtimes, t \in Tenants :
                 Swept(r, t) /\ drain'[r].victims = drain[r].victims => Swept(r, t)'
<1>1. CallInv /\ LockInv /\ SlotInv /\ AccountInv /\ SpentInv
  BY DEF IInv
<1>2. Starting \subseteq Holding /\ "start" \in Holding
  BY DEF Starting, Holding
<1>3. ASSUME NEW d \in Calls PROVE CallHolds(d)'
  <2>1. CASE call'[d] = call[d]
    BY <1>1, <2>1 DEF CallInv, CallHolds, SlotOf
  <2>2. CASE call'[d].pc \notin Holding \cup {"wait"}
    BY <1>2, <2>2 DEF CallHolds
  <2> QED
    BY <2>1, <2>2 DEF Passing
<1>4. CallInv'
  BY <1>3 DEF CallInv
<1>5. LockInv'
  BY <1>1 DEF LockInv, Passing
<1>6. SlotInv'
  BY <1>1 DEF SlotInv
<1>7. \A t : GensOf(t)' = GensOf(t) /\ StartsOf(t)' = StartsOf(t)
  BY <1>2 DEF GensOf, StartsOf, Passing
<1>8. \A r, t : StartsAt(r, t)' = StartsAt(r, t)
  BY <1>2 DEF StartsAt, StartsOf, Passing
<1>9. AccountInv' /\ SpentInv'
  BY <1>1, <1>7, <1>8 DEF AccountInv, SpentInv
<1>10. ASSUME NEW r \in Runtimes, NEW t \in Tenants, Swept(r, t), drain'[r].victims = drain[r].victims
       PROVE  Swept(r, t)'
  <2>1. \A d \in Calls : call'[d].r = r /\ call'[d].t = t => call'[d].pc \notin Starting
    BY <1>2, <1>10 DEF Swept, Passing
  <2> QED
    BY <1>10, <2>1 DEF Swept
<1> QED
  BY <1>4, <1>5, <1>6, <1>9, <1>10

(* The refresh a lets go of its runtime or keeps it, and may publish it. *)
LEMMA AdminKeeps ==
    ASSUME IInv, Shape', NEW a \in Admins, \A b \in Admins \ {a} : admin'[b] = admin[b],
           admin'[a].r \in {None, admin[a].r}, admin'[a].pc # "eager",
           slot' = slot, permits' = permits, spent' = spent, runtime' = runtime, drain' = drain,
           monitor' = monitor, \A k \in Registries : registry'[k] \in {registry[k], admin[a].r},
           \A d \in Calls : Passing(d) /\ CallAt(d)' /\ call'[d].r \in {None, call[d].r}
    PROVE  IInv'
<1>1. CallInv' /\ LockInv' /\ SlotInv' /\ AccountInv' /\ SpentInv'
  BY PassingKeeps
<1>2. RefInv /\ OwnInv /\ DrainInv
  BY DEF IInv
<1>3. RefInv'
  <2>1. \A r \in Runtimes : r # None
    BY Constants
  <2> QED
    BY <1>2, <2>1 DEF RefInv, Used
<1>4. OwnInv'
  <2>1. \A r \in Runtimes : r # None
    BY Constants
  <2>2. ASSUME NEW b \in Admins, NEW d \in Admins, admin'[b].r = admin'[d].r, admin'[b].r # None
        PROVE  b = d
    <3>1. admin'[b].r = admin[b].r /\ admin'[d].r = admin[d].r
      BY <2>2
    <3> QED
      BY <1>2, <2>2, <3>1 DEF OwnInv
  <2>3. ASSUME NEW b \in Admins, admin'[b].r = monitor PROVE monitor = None
    BY <1>2, <2>3 DEF OwnInv
  <2>4. ASSUME NEW r \in Runtimes, drain[r].pc # "none", NEW b \in Admins PROVE admin'[b].r # r
    BY <1>2, <2>1, <2>4 DEF OwnInv
  <2>5. \A r \in Runtimes : drain[r].pc # "none" => r # monitor
    BY <1>2 DEF OwnInv
  <2> QED
    BY <2>2, <2>3, <2>4, <2>5 DEF OwnInv
<1>5. DrainInv'
  <2>1. \A r \in Runtimes, t \in Tenants : Swept(r, t) => Swept(r, t)'
    BY PassingKeeps
  <2> QED
    BY <1>2, <2>1 DEF DrainInv, HeldVictims, Used
<1> QED
  BY <1>1, <1>3, <1>4, <1>5 DEF IInv

(* The refresh a makes a runtime. *)
LEMMA BuildsKeeps ==
    ASSUME IInv, Shape', NEW a \in Admins, \A b \in Admins \ {a} : admin'[b] = admin[b],
           NEW f \in Runtimes, ~Used(f), admin'[a].r = f,
           runtime'[f].accepting, runtime'[f].built # -1,
           \A r \in Runtimes \ {f} : runtime'[r] = runtime[r],
           slot' = slot, permits' = permits, spent' = spent, drain' = drain,
           monitor' = monitor, registry' = registry,
           \A d \in Calls : Passing(d) /\ CallAt(d)' /\ call'[d].r \in {None, f, call[d].r}
    PROVE  IInv'
<1>1. CallInv' /\ LockInv' /\ SlotInv' /\ AccountInv' /\ SpentInv'
  BY PassingKeeps
<1>2. RefInv /\ OwnInv /\ DrainInv
  BY DEF IInv
<1>3. \A r \in Runtimes : r # None
  BY Constants
<1>4. f # monitor /\ drain[f].pc = "none" /\ \A b \in Admins : admin[b].r # f
  BY <1>2 DEF RefInv
<1>5. RefInv'
  BY <1>2, <1>3 DEF RefInv, Used
<1>6. OwnInv'
  <2>1. ASSUME NEW b \in Admins, NEW d \in Admins, admin'[b].r = admin'[d].r, admin'[b].r # None
        PROVE  b = d
    BY <1>2, <1>4, <2>1 DEF OwnInv
  <2>2. ASSUME NEW b \in Admins, admin'[b].r = monitor PROVE monitor = None
    BY <1>2, <1>4, <2>2 DEF OwnInv
  <2>3. ASSUME NEW r \in Runtimes, drain[r].pc # "none" PROVE r # monitor /\ \A b \in Admins : admin'[b].r # r
    BY <1>2, <1>4, <2>3 DEF OwnInv
  <2> QED
    BY <2>1, <2>2, <2>3 DEF OwnInv
<1>7. DrainInv'
  <2>1. \A r \in Runtimes, t \in Tenants : Swept(r, t) => Swept(r, t)'
    BY PassingKeeps
  <2> QED
    BY <1>2, <1>4, <2>1 DEF DrainInv, HeldVictims, Used
<1> QED
  BY <1>1, <1>5, <1>6, <1>7 DEF IInv

LEMMA LookupKeeps ==
    ASSUME IInv, NEW c \in Calls, NEW t \in Tenants, NEW k \in Registries,
           Lookup(c, t, k)
    PROVE  IInv'
<1> DEFINE v == registry[k]
           w == Call("enter", v, t, FALSE)
<1>1. /\ call[c].pc = "idle" /\ c \in left.clients /\ v # None /\ call' = [call EXCEPT ![c] = w]
      /\ slot' = slot /\ permits' = permits /\ spent' = spent /\ left' = left
      /\ UNCHANGED <<store, manager, runtime, admin, drain, unfinished>>
      /\ monitor' = monitor /\ registry' = registry
  BY DEF Lookup, history, manager
<1>2. /\ Shape /\ CallInv /\ RefInv /\ OwnInv /\ DrainInv
  BY DEF IInv
<1>3. v \in Runtimes /\ v \in 0..MaxRuntimes /\ c \notin Starts
  BY <1>1, <1>2, Constants DEF Shape, Bounds
<1> HIDE DEF v
<1>4. w \in CallRecs /\ w.pc = "enter" /\ w.r = v /\ w.t = t
  <2>1. "enter" \in CallPcs /\ v \in 0..MaxRuntimes /\ t \in Tenants \cup {None} /\ FALSE \in BOOLEAN
    BY <1>3 DEF CallPcs
  <2> QED
    BY <2>1, CallFields, Zenon
<1> HIDE DEF w
<1>5. call' \in [Calls -> CallRecs] /\ call'[c] = w /\ \A d \in Calls \ {c} : call'[d] = call[d]
  BY <1>1, <1>2, <1>4 DEF Shape
<1>6. Shape'
  BY <1>1, <1>2, <1>5, ShapeStays DEF Shape
<1>7. \A d \in Calls : Passing(d) /\ CallAt(d)'
  <2>1. Passing(c) /\ CallAt(c)'
    BY <1>1, <1>3, <1>4, <1>5 DEF Passing, CallAt, Holding
  <2>2. \A d \in Calls \ {c} : Passing(d) /\ CallAt(d)'
    BY <1>1, <1>2, <1>5 DEF Passing, CallInv, CallAt
  <2> QED
    BY <2>1, <2>2
<1>8. CallInv' /\ LockInv' /\ SlotInv' /\ AccountInv' /\ SpentInv'
  BY <1>1, <1>7, PassingKeeps
<1>9. RefInv'
  <2>1. ASSUME NEW q \in Runtimes, ~Used(q), NEW d \in Calls PROVE call'[d].r # q
    <3>1. v # q
      BY <1>2, <2>1 DEF RefInv, v
    <3> QED
      BY <1>2, <1>4, <1>5, <2>1, <3>1 DEF RefInv
  <2> QED
    BY <1>1, <1>2, <2>1 DEF RefInv, Used
<1>10. OwnInv'
  BY <1>1, <1>2 DEF OwnInv
<1>11. DrainInv'
  <2>1. \A r \in Runtimes, u \in Tenants : Swept(r, u) => Swept(r, u)'
    BY <1>1, <1>7, PassingKeeps
  <2> QED
    BY <1>1, <1>2, <2>1 DEF DrainInv, HeldVictims, Used
<1> QED
  BY <1>6, <1>8, <1>9, <1>10, <1>11 DEF IInv

LEMMA RefreshFields ==
    ASSUME NEW p \in AdminPcs, NEW r \in 0..MaxRuntimes, NEW l \in Lifecycles \cup {"none"}
    PROVE  /\ Refresh(p, r, l) \in RefreshRecs /\ Refresh(p, r, l).pc = p
           /\ Refresh(p, r, l).r = r /\ Refresh(p, r, l).restore = l
  BY DEF RefreshRecs, Refresh

LEMMA AdminSet ==
    ASSUME Shape, NEW a \in Admins, NEW w \in RefreshRecs, admin' = [admin EXCEPT ![a] = w]
    PROVE  /\ admin' \in [Admins -> RefreshRecs] /\ admin'[a] = w
           /\ \A b \in Admins \ {a} : admin'[b] = admin[b]
  BY DEF Shape

LEMMA AdminGotoOK ==
    ASSUME Shape, NEW a \in Admins, NEW p \in AdminPcs, AdminGoto(a, p)
    PROVE  /\ admin' \in [Admins -> RefreshRecs] /\ admin'[a].pc = p
           /\ admin'[a].r = admin[a].r /\ admin'[a].restore = admin[a].restore
           /\ \A b \in Admins \ {a} : admin'[b] = admin[b]
<1> DEFINE w == [admin[a] EXCEPT !.pc = p]
<1>1. admin[a] \in RefreshRecs
  BY DEF Shape
<1>2. /\ w \in RefreshRecs /\ w.pc = p /\ w.r = admin[a].r /\ w.restore = admin[a].restore
  BY <1>1 DEF RefreshRecs
<1>3. admin' = [admin EXCEPT ![a] = w]
  BY DEF AdminGoto
<1> HIDE DEF w
<1> QED
  BY <1>2, <1>3, AdminSet

(* A refresh that is not at its eager tasks has none. *)
LEMMA NoTasks ==
    ASSUME IInv, NEW a \in Admins, admin[a].pc # "eager", NEW d \in MyStarts(a)
    PROVE  d \in Calls /\ d \in Starts /\ d[1] = a /\ call[d].pc = "idle"
  BY DEF IInv, CallInv, CallAt, MyStarts, Starts, Calls

(* Calls that are left alone stay where they are. *)
LEMMA CallsStay ==
    ASSUME IInv, NEW a \in Admins, admin[a].pc # "eager", \A b \in Admins \ {a} : admin'[b] = admin[b],
           call' = call
    PROVE  \A d \in Calls : Passing(d) /\ CallAt(d)' /\ call'[d].r \in {None, call[d].r}
<1>1. ASSUME NEW d \in Calls PROVE CallAt(d)'
  <2>1. CallAt(d)
    BY DEF IInv, CallInv
  <2>2. CASE d \in MyStarts(a)
    BY <2>1, <2>2, NoTasks DEF CallAt
  <2>3. CASE d \notin MyStarts(a)
    <3>1. d \in Starts => d[1] \in Admins \ {a}
      BY <2>3 DEF MyStarts, Starts
    <3> QED
      BY <2>1, <3>1 DEF CallAt
  <2> QED
    BY <2>2, <2>3
<1> QED
  BY <1>1 DEF Passing

(* The tasks of a refresh that have ended are forgotten. *)
LEMMA ForgetOK ==
    ASSUME IInv, NEW a \in Admins, \A b \in Admins \ {a} : admin'[b] = admin[b],
           Forget(a), \A d \in MyStarts(a) : call[d].pc \in {"idle", "done"}
    PROVE  /\ call' \in [Calls -> CallRecs]
           /\ \A d \in Calls : Passing(d) /\ CallAt(d)' /\ call'[d].r \in {None, call[d].r}
<1>1. Shape /\ CallInv
  BY DEF IInv
<1>2. \A d \in Calls : call'[d] = IF d \in MyStarts(a) THEN NoCall ELSE call[d]
  BY DEF Forget
<1>3. call' \in [Calls -> CallRecs]
  <2>1. \A d \in Calls : (IF d \in MyStarts(a) THEN NoCall ELSE call[d]) \in CallRecs
    BY <1>1, NoCallFields DEF Shape
  <2> QED
    BY <2>1 DEF Forget
<1>4. ASSUME NEW d \in Calls PROVE Passing(d) /\ CallAt(d)' /\ call'[d].r \in {None, call[d].r}
  <2>1. CASE d \in MyStarts(a)
    <3>1. call[d].pc \in {"idle", "done"} /\ call'[d].pc = "idle" /\ call'[d].r = None
      BY <1>2, <2>1, NoCallFields
    <3> QED
      BY <3>1 DEF Passing, CallAt, Holding
  <2>2. CASE d \notin MyStarts(a)
    <3>1. d \in Starts => d[1] \in Admins \ {a}
      BY <2>2 DEF MyStarts, Starts
    <3>2. call'[d] = call[d]
      BY <1>2, <2>2
    <3> QED
      BY <1>1, <3>1, <3>2 DEF CallInv, CallAt, Passing
  <2> QED
    BY <2>1, <2>2
<1> QED
  BY <1>3, <1>4

LEMMA BeginKeeps ==
    ASSUME IInv, NEW a \in Admins, NEW l \in Lifecycles,
           NEW b \in Lifecycles \cup {"none"}, Begin(a, l, b)
    PROVE  IInv'
<1> DEFINE w == Refresh("build", None, b)
<1>1. /\ admin[a].pc = "idle" /\ lifecycle' = l /\ revision' = revision + 1
      /\ admin' = [admin EXCEPT ![a] = w]
      /\ left.changes > 0 /\ left' = [left EXCEPT !.changes = @ - 1]
      /\ UNCHANGED <<registry, monitor, runtime, slot, permits, call, drain, spent, unfinished>>
  BY DEF Begin, manager
<1>2. Shape /\ lifecycle \in Lifecycles
  BY DEF IInv, Shape
<1>3. w \in RefreshRecs /\ w.pc = "build" /\ w.r = None
  BY <1>2, Constants, RefreshFields DEF AdminPcs, Registries
<1> HIDE DEF w
<1>4. /\ admin' \in [Admins -> RefreshRecs] /\ admin'[a] = w
      /\ \A d \in Admins \ {a} : admin'[d] = admin[d]
  BY <1>1, <1>2, <1>3, AdminSet
<1>5. Shape'
  <2>1. lifecycle' \in Lifecycles /\ revision' \in Nat
    BY <1>1, <1>2 DEF Shape
  <2>2. left' \in Bounds
    BY <1>1, <1>2 DEF Shape, Bounds
  <2> QED
    BY <1>1, <1>2, <1>3, <1>4, <2>1, <2>2 DEF Shape
<1>6. \A d \in Calls : Passing(d) /\ CallAt(d)' /\ call'[d].r \in {None, call[d].r}
  BY <1>1, <1>4, CallsStay
<1> QED
  BY <1>1, <1>3, <1>4, <1>5, <1>6, AdminKeeps

LEMMA RestoreKeeps ==
    ASSUME IInv, NEW a \in Admins, Restore(a)
    PROVE  IInv'
<1> DEFINE w == Refresh("build", None, "none")
<1>1. /\ admin[a].pc = "restore" /\ lifecycle' = admin[a].restore /\ revision' = revision + 1
      /\ admin' = [admin EXCEPT ![a] = w]
      /\ UNCHANGED <<registry, monitor, runtime, slot, permits, call, drain, left, spent, unfinished>>
  BY DEF Restore, manager, history
<1>2. Shape
  BY DEF IInv
<1>3. w \in RefreshRecs /\ w.pc = "build" /\ w.r = None
  BY <1>2, Constants, RefreshFields DEF AdminPcs, Registries
<1> HIDE DEF w
<1>4. /\ admin' \in [Admins -> RefreshRecs] /\ admin'[a] = w
      /\ \A b \in Admins \ {a} : admin'[b] = admin[b]
  BY <1>1, <1>2, <1>3, AdminSet
<1>5. Shape'
  <2>1. lifecycle' \in Lifecycles /\ revision' \in Nat
    BY <1>1, <1>2 DEF RefreshRecs, Shape
  <2> QED
    BY <1>1, <1>2, <1>3, <1>4, <2>1 DEF Shape
<1>6. \A d \in Calls : Passing(d) /\ CallAt(d)' /\ call'[d].r \in {None, call[d].r}
  BY <1>1, <1>4, CallsStay
<1> QED
  BY <1>1, <1>3, <1>4, <1>5, <1>6, AdminKeeps

LEMMA EagerReadyKeeps ==
    ASSUME IInv, NEW a \in Admins, EagerReady(a)
    PROVE  IInv'
<1>1. /\ admin[a].pc = "eager" /\ EagerEnded(a) /\ AdminGoto(a, "formatters") /\ Forget(a)
      /\ UNCHANGED <<lifecycle, revision, registry, monitor, runtime, slot, permits, drain,
                     left, spent, unfinished>>
  BY DEF EagerReady, store, manager, history
<1>2. Shape
  BY DEF IInv
<1>3. /\ admin' \in [Admins -> RefreshRecs] /\ admin'[a].pc = "formatters"
      /\ admin'[a].r = admin[a].r /\ \A b \in Admins \ {a} : admin'[b] = admin[b]
  BY <1>1, <1>2, AdminGotoOK DEF AdminPcs, Registries
<1>4. /\ call' \in [Calls -> CallRecs]
      /\ \A d \in Calls : Passing(d) /\ CallAt(d)' /\ call'[d].r \in {None, call[d].r}
  BY <1>1, <1>3, ForgetOK DEF EagerEnded
<1>5. Shape'
  BY <1>1, <1>2, <1>3, <1>4 DEF Shape
<1> QED
  BY <1>1, <1>3, <1>4, <1>5, AdminKeeps

LEMMA EagerFailedKeeps ==
    ASSUME IInv, NEW a \in Admins, EagerFailed(a)
    PROVE  IInv'
<1> DEFINE w == Refresh("rebuild", None, admin[a].restore)
<1>1. /\ admin[a].pc = "eager" /\ EagerEnded(a) /\ Forget(a)
      /\ lifecycle' = "quarantined" /\ revision' = revision + 1
      /\ admin' = [admin EXCEPT ![a] = w]
      /\ UNCHANGED <<registry, monitor, runtime, slot, permits, drain, left, spent, unfinished>>
  BY DEF EagerFailed, manager, history
<1>2. Shape /\ admin[a].restore \in Lifecycles \cup {"none"}
  BY DEF IInv, Shape, RefreshRecs
<1>3. w \in RefreshRecs /\ w.pc = "rebuild" /\ w.r = None
  BY <1>2, Constants, RefreshFields DEF AdminPcs, Registries
<1> HIDE DEF w
<1>4. /\ admin' \in [Admins -> RefreshRecs] /\ admin'[a] = w
      /\ \A b \in Admins \ {a} : admin'[b] = admin[b]
  BY <1>1, <1>2, <1>3, AdminSet
<1>5. /\ call' \in [Calls -> CallRecs]
      /\ \A d \in Calls : Passing(d) /\ CallAt(d)' /\ call'[d].r \in {None, call[d].r}
  BY <1>1, <1>4, ForgetOK DEF EagerEnded
<1>6. Shape'
  BY <1>1, <1>2, <1>3, <1>4, <1>5 DEF Shape, Lifecycles
<1> QED
  BY <1>1, <1>3, <1>4, <1>5, <1>6, AdminKeeps

LEMMA HydrationFailsKeeps ==
    ASSUME IInv, NEW a \in Admins, HydrationFails(a)
    PROVE  IInv'
<1> DEFINE w == Refresh("formatters", None, admin[a].restore)
<1>1. /\ admin[a].pc \in {"build", "rebuild"} /\ left.faults > 0 /\ left' = Faulted
      /\ lifecycle' = "quarantined" /\ revision' = revision + 1
      /\ admin' = [admin EXCEPT ![a] = w]
      /\ UNCHANGED <<registry, monitor, runtime, slot, permits, call, drain, spent, unfinished>>
  BY DEF HydrationFails, manager
<1>2. Shape /\ admin[a].restore \in Lifecycles \cup {"none"}
  BY DEF IInv, Shape, RefreshRecs
<1>3. w \in RefreshRecs /\ w.pc = "formatters" /\ w.r = None
  BY <1>2, Constants, RefreshFields DEF AdminPcs, Registries
<1> HIDE DEF w
<1>4. /\ admin' \in [Admins -> RefreshRecs] /\ admin'[a] = w
      /\ \A b \in Admins \ {a} : admin'[b] = admin[b]
  BY <1>1, <1>2, <1>3, AdminSet
<1>5. \A d \in Calls : Passing(d) /\ CallAt(d)' /\ call'[d].r \in {None, call[d].r}
  BY <1>1, <1>4, CallsStay
<1>6. Shape'
  <2>1. left' \in Bounds
    BY <1>1, <1>2, FaultedOK DEF Shape
  <2> QED
    BY <1>1, <1>2, <1>3, <1>4, <2>1 DEF Shape, Lifecycles
<1> QED
  BY <1>1, <1>3, <1>4, <1>5, <1>6, AdminKeeps

LEMMA NoRefreshFields ==
    NoRefresh \in RefreshRecs /\ NoRefresh.pc = "idle" /\ NoRefresh.r = None
<1>1. "idle" \in AdminPcs /\ None \in 0..MaxRuntimes /\ "none" \in Lifecycles \cup {"none"}
  BY Constants DEF AdminPcs, Registries
<1> QED
  BY <1>1, RefreshFields DEF NoRefresh

LEMMA RefuseKeeps ==
    ASSUME IInv, NEW a \in Admins, Refuse(a)
    PROVE  IInv'
<1>1. /\ Forget(a) /\ admin' = [admin EXCEPT ![a] = NoRefresh]
      /\ left.faults > 0 /\ left' = Faulted /\ unfinished' \in BOOLEAN
      /\ UNCHANGED <<lifecycle, revision, registry, monitor, runtime, slot, permits, drain, spent>>
      /\ admin[a].pc # "eager" \/ EagerEnded(a)
  BY DEF Refuse, store, manager, Registries
<1>2. Shape
  BY DEF IInv
<1>3. /\ admin' \in [Admins -> RefreshRecs] /\ admin'[a] = NoRefresh
      /\ \A b \in Admins \ {a} : admin'[b] = admin[b]
  BY <1>1, <1>2, NoRefreshFields, AdminSet
<1>4. \A d \in MyStarts(a) : call[d].pc \in {"idle", "done"}
  <2>1. CASE admin[a].pc # "eager"
    BY <2>1, NoTasks
  <2>2. CASE EagerEnded(a)
    BY <2>2 DEF EagerEnded
  <2> QED
    BY <1>1, <2>1, <2>2
<1>5. /\ call' \in [Calls -> CallRecs]
      /\ \A d \in Calls : Passing(d) /\ CallAt(d)' /\ call'[d].r \in {None, call[d].r}
  BY <1>1, <1>3, <1>4, ForgetOK
<1>6. Shape'
  <2>1. left' \in Bounds
    BY <1>1, <1>2, FaultedOK DEF Shape
  <2> QED
    BY <1>1, <1>2, <1>3, <1>5, <2>1, NoRefreshFields DEF Shape
<1> QED
  BY <1>1, <1>3, <1>5, <1>6, NoRefreshFields, AdminKeeps

LEMMA PublishKeeps ==
    ASSUME IInv, NEW a \in Admins, Publish(a)
    PROVE  IInv'
<1> DEFINE p == admin[a].pc
           n == Registered[p]
<1>1. /\ p \in Registries /\ registry' = [registry EXCEPT ![p] = admin[a].r] /\ AdminGoto(a, n)
      /\ UNCHANGED <<lifecycle, revision, monitor, runtime, slot, permits, call, drain,
                     left, spent, unfinished>>
  BY DEF Publish, store, history
<1>2. Shape
  BY DEF IInv
<1>3. n \in {"actions", "providers", "swap"} /\ p # "eager"
  BY <1>1 DEF Registries, Registered
<1> HIDE DEF p, n
<1>4. /\ admin' \in [Admins -> RefreshRecs] /\ admin'[a].pc = n
      /\ admin'[a].r = admin[a].r /\ \A b \in Admins \ {a} : admin'[b] = admin[b]
  <2>1. n \in AdminPcs
    BY <1>3 DEF AdminPcs, Registries
  <2> QED
    BY <1>1, <1>2, <2>1, AdminGotoOK
<1>5. \A d \in Calls : Passing(d) /\ CallAt(d)' /\ call'[d].r \in {None, call[d].r}
  BY <1>1, <1>3, <1>4, CallsStay DEF p
<1>6. registry' \in [Registries -> 0..MaxRuntimes] /\ \A k \in Registries : registry'[k] \in {registry[k], admin[a].r}
  <2>1. admin[a].r \in 0..MaxRuntimes
    BY <1>2 DEF Shape, RefreshRecs
  <2> QED
    BY <1>1, <1>2, <2>1 DEF Shape
<1>7. Shape'
  BY <1>1, <1>2, <1>3, <1>4, <1>6 DEF Shape
<1> QED
  BY <1>1, <1>3, <1>4, <1>5, <1>6, <1>7, AdminKeeps

(* A runtime that was free holds the revision it was built from and accepts. *)
LEMMA BuiltOK ==
    ASSUME Shape, NEW f \in Runtimes, runtime' = [runtime EXCEPT ![f] = Runtime(revision, TRUE)]
    PROVE  /\ runtime' \in [Runtimes -> RuntimeRecs] /\ runtime'[f].accepting
           /\ runtime'[f].built = revision /\ runtime'[f].built # -1
           /\ \A r \in Runtimes \ {f} : runtime'[r] = runtime[r]
<1>1. Runtime(revision, TRUE) \in RuntimeRecs
  BY DEF Shape, Runtime, RuntimeRecs
<1>2. Runtime(revision, TRUE).accepting /\ Runtime(revision, TRUE).built = revision /\ revision # -1
  BY DEF Shape, Runtime
<1> QED
  BY <1>1, <1>2 DEF Shape

LEMMA RebuildKeeps ==
    ASSUME IInv, NEW a \in Admins, Rebuild(a)
    PROVE  IInv'
<1>1. /\ admin[a].pc = "rebuild"
      /\ UNCHANGED <<lifecycle, revision, registry, monitor, slot, permits, call, drain,
                     left, spent, unfinished>>
  BY DEF Rebuild, store, manager, history
<1>2. Shape /\ admin[a].restore \in Lifecycles \cup {"none"}
  BY DEF IInv, Shape, RefreshRecs
<1>3. CASE lifecycle = "ready"
  <2> DEFINE w == Refresh("formatters", Fresh, admin[a].restore)
  <2>1. /\ Unused # {} /\ runtime' = [runtime EXCEPT ![Fresh] = Runtime(revision, TRUE)]
        /\ admin' = [admin EXCEPT ![a] = w]
    BY <1>3 DEF Rebuild
  <2>2. Fresh \in Runtimes /\ ~Used(Fresh) /\ Fresh \in 0..MaxRuntimes
    BY <1>2, <2>1, FreshFree, Constants
  <2>3. w \in RefreshRecs /\ w.pc = "formatters" /\ w.r = Fresh
    BY <1>2, <2>2, RefreshFields DEF AdminPcs, Registries
  <2> HIDE DEF w
  <2>4. /\ admin' \in [Admins -> RefreshRecs] /\ admin'[a] = w
        /\ \A b \in Admins \ {a} : admin'[b] = admin[b]
    BY <1>2, <2>1, <2>3, AdminSet
  <2>5. /\ runtime' \in [Runtimes -> RuntimeRecs] /\ runtime'[Fresh].accepting
        /\ runtime'[Fresh].built # -1
        /\ \A r \in Runtimes \ {Fresh} : runtime'[r] = runtime[r]
    BY <1>2, <2>1, <2>2, BuiltOK
  <2>6. Shape'
    BY <1>1, <1>2, <2>3, <2>4, <2>5 DEF Shape
  <2>7. \A d \in Calls : Passing(d) /\ CallAt(d)' /\ call'[d].r \in {None, call[d].r}
    BY <1>1, <2>4, CallsStay
  <2> QED
    BY <1>1, <2>2, <2>3, <2>4, <2>5, <2>6, <2>7, BuildsKeeps
<1>4. CASE lifecycle # "ready"
  <2>1. AdminGoto(a, "formatters") /\ runtime' = runtime
    BY <1>4 DEF Rebuild
  <2>2. /\ admin' \in [Admins -> RefreshRecs] /\ admin'[a].pc = "formatters"
        /\ admin'[a].r = admin[a].r /\ \A b \in Admins \ {a} : admin'[b] = admin[b]
    BY <1>2, <2>1, AdminGotoOK DEF AdminPcs, Registries
  <2>3. \A d \in Calls : Passing(d) /\ CallAt(d)' /\ call'[d].r \in {None, call[d].r}
    BY <1>1, <2>2, CallsStay
  <2>4. Shape'
    BY <1>1, <1>2, <2>1, <2>2 DEF Shape
  <2> QED
    BY <1>1, <2>1, <2>2, <2>3, <2>4, AdminKeeps
<1> QED
  BY <1>3, <1>4

LEMMA BuildKeeps ==
    ASSUME IInv, NEW a \in Admins, Build(a)
    PROVE  IInv'
<1>1. /\ admin[a].pc = "build" /\ Unused # {}
      /\ UNCHANGED <<lifecycle, revision, registry, monitor, slot, permits, drain,
                     left, spent, unfinished>>
  BY DEF Build, store, manager, history
<1>2. Shape /\ admin[a].restore \in Lifecycles \cup {"none"}
  BY DEF IInv, Shape, RefreshRecs
<1>3. CASE lifecycle = "ready"
  <2> DEFINE w == Refresh("eager", Fresh, admin[a].restore)
             k(c) == Call("enter", Fresh, c[2], FALSE)
  <2>1. /\ runtime' = [runtime EXCEPT ![Fresh] = Runtime(revision, TRUE)]
        /\ admin' = [admin EXCEPT ![a] = w]
        /\ call' = [c \in Calls |-> IF c \in MyStarts(a) THEN k(c) ELSE call[c]]
    <3>1. \A c \in Calls : c \in MyStarts(a) <=> c \in Starts /\ c[1] = a
      BY DEF MyStarts
    <3> QED
      BY <1>3, <3>1 DEF Build
  <2>2. Fresh \in Runtimes /\ ~Used(Fresh) /\ Fresh \in 0..MaxRuntimes /\ Fresh # None
    BY <1>1, <1>2, FreshFree, Constants
  <2>3. w \in RefreshRecs /\ w.pc = "eager" /\ w.r = Fresh
    BY <1>2, <2>2, RefreshFields DEF AdminPcs, Registries
  <2>4. ASSUME NEW c \in MyStarts(a)
        PROVE  /\ k(c) \in CallRecs /\ k(c).pc = "enter" /\ k(c).r = Fresh /\ k(c).t = c[2]
               /\ c[2] \in Tenants /\ c[1] = a
    <3>1. c[2] \in Tenants /\ c[2] \in Tenants \cup {None} /\ c[1] = a
      BY Constants DEF MyStarts, Starts
    <3>2. "enter" \in CallPcs /\ FALSE \in BOOLEAN
      BY DEF CallPcs
    <3> QED
      BY <2>2, <3>1, <3>2 DEF CallRecs, Call
  <2> HIDE DEF w, k
  <2>5. /\ admin' \in [Admins -> RefreshRecs] /\ admin'[a] = w
        /\ \A b \in Admins \ {a} : admin'[b] = admin[b]
    BY <1>2, <2>1, <2>3, AdminSet
  <2>6. /\ runtime' \in [Runtimes -> RuntimeRecs] /\ runtime'[Fresh].accepting
        /\ runtime'[Fresh].built # -1
        /\ \A r \in Runtimes \ {Fresh} : runtime'[r] = runtime[r]
    BY <1>2, <2>1, <2>2, BuiltOK
  <2>7. \A c \in Calls : call'[c] = IF c \in MyStarts(a) THEN k(c) ELSE call[c]
    BY <2>1
  <2>8. call' \in [Calls -> CallRecs]
    <3>1. \A c \in Calls : (IF c \in MyStarts(a) THEN k(c) ELSE call[c]) \in CallRecs
      BY <1>2, <2>4 DEF Shape
    <3> QED
      BY <2>1, <3>1
  <2>9. Shape'
    BY <1>1, <1>2, <2>3, <2>5, <2>6, <2>8 DEF Shape
  <2>10. ASSUME NEW d \in Calls PROVE Passing(d) /\ CallAt(d)' /\ call'[d].r \in {None, Fresh, call[d].r}
    <3>1. CASE d \in MyStarts(a)
      <4>1. call[d].pc = "idle"
        BY <1>1, <3>1, NoTasks
      <4>2. call'[d].pc = "enter" /\ call'[d].r = Fresh /\ call'[d].t = d[2] /\ d[2] \in Tenants /\ d[1] = a
        BY <2>4, <2>7, <3>1
      <4> QED
        BY <2>2, <2>3, <2>5, <4>1, <4>2 DEF Passing, CallAt, Holding
    <3>2. CASE d \notin MyStarts(a)
      <4>1. d \in Starts => d[1] \in Admins \ {a}
        BY <3>2 DEF MyStarts, Starts
      <4>2. call'[d] = call[d] /\ CallAt(d)
        BY <2>7, <3>2 DEF IInv, CallInv
      <4> QED
        BY <2>5, <4>1, <4>2 DEF CallAt, Passing
    <3> QED
      BY <3>1, <3>2
  <2> QED
    BY <1>1, <2>2, <2>3, <2>5, <2>6, <2>9, <2>10, BuildsKeeps
<1>4. CASE lifecycle # "ready"
  <2> DEFINE w == Refresh("formatters", None, admin[a].restore)
  <2>1. admin' = [admin EXCEPT ![a] = w] /\ runtime' = runtime /\ call' = call
    BY <1>4 DEF Build
  <2>2. w \in RefreshRecs /\ w.pc = "formatters" /\ w.r = None
    BY <1>2, Constants, RefreshFields DEF AdminPcs, Registries
  <2> HIDE DEF w
  <2>3. /\ admin' \in [Admins -> RefreshRecs] /\ admin'[a] = w
        /\ \A b \in Admins \ {a} : admin'[b] = admin[b]
    BY <1>2, <2>1, <2>2, AdminSet
  <2>4. \A d \in Calls : Passing(d) /\ CallAt(d)' /\ call'[d].r \in {None, call[d].r}
    BY <1>1, <2>1, <2>3, CallsStay
  <2>5. Shape'
    BY <1>1, <1>2, <2>1, <2>2, <2>3 DEF Shape
  <2> QED
    BY <1>1, <2>1, <2>2, <2>3, <2>4, <2>5, AdminKeeps
<1> QED
  BY <1>3, <1>4

LEMMA DrainFields ==
    ASSUME NEW p \in {"none", "close", "list", "collect", "done"}, NEW ts \in SUBSET Tenants,
           NEW vs \in Seq(Tenants)
    PROVE  /\ Drain(p, ts, vs) \in DrainRecs /\ Drain(p, ts, vs).pc = p
           /\ Drain(p, ts, vs).todo = ts /\ Drain(p, ts, vs).victims = vs
  BY DEF DrainRecs, Drain

LEMMA DrainSet ==
    ASSUME Shape, NEW r \in Runtimes, NEW w \in DrainRecs, drain' = [drain EXCEPT ![r] = w]
    PROVE  /\ drain' \in [Runtimes -> DrainRecs] /\ drain'[r] = w
           /\ \A q \in Runtimes \ {r} : drain'[q] = drain[q]
  BY DEF Shape

LEMMA RetireOK ==
    ASSUME Shape, NEW r \in 0..MaxRuntimes, Retire(r)
    PROVE  /\ drain' \in [Runtimes -> DrainRecs]
           /\ \A q \in Runtimes : q # r => drain'[q] = drain[q]
           /\ r # None => drain'[r].pc = "close" /\ drain'[r].victims = drain[r].victims
<1>1. CASE r = None
  BY <1>1, Constants DEF Retire, Shape
<1>2. CASE r # None
  <2> DEFINE w == Drain("close", drain[r].todo, drain[r].victims)
  <2>1. r \in Runtimes
    BY <1>2, Constants
  <2>2. drain[r].todo \in SUBSET Tenants /\ drain[r].victims \in Seq(Tenants)
    BY <2>1 DEF Shape, DrainRecs
  <2>3. w \in DrainRecs /\ w.pc = "close" /\ w.victims = drain[r].victims
    BY <2>2, DrainFields
  <2>4. drain' = [drain EXCEPT ![r] = w]
    BY <1>2 DEF Retire
  <2> HIDE DEF w
  <2> QED
    BY <2>1, <2>3, <2>4, DrainSet
<1> QED
  BY <1>1, <1>2

LEMMA SwapKeeps ==
    ASSUME IInv, NEW a \in Admins, Swap(a)
    PROVE  IInv'
<1> DEFINE p == IF admin[a].restore # "none" /\ lifecycle = "quarantined" THEN "restore" ELSE "idle"
           w == Refresh(p, None, admin[a].restore)
<1>1. /\ admin[a].pc = "swap" /\ monitor' = admin[a].r /\ Retire(monitor)
      /\ admin' = [admin EXCEPT ![a] = w] /\ unfinished' = FALSE
      /\ UNCHANGED <<lifecycle, revision, registry, runtime, slot, permits, call, left, spent>>
  BY DEF Swap, store
<1>2. /\ Shape /\ admin[a].restore \in Lifecycles \cup {"none"} /\ admin[a].r \in 0..MaxRuntimes
      /\ monitor \in 0..MaxRuntimes
  BY DEF IInv, Shape, RefreshRecs
<1>3. /\ w \in RefreshRecs /\ w.pc # "eager" /\ w.r = None
      /\ w.pc = "restore" => w.restore # "none"
  <2>1. p \in AdminPcs /\ (p = "restore" => admin[a].restore # "none") /\ p # "eager"
    BY DEF AdminPcs, Registries
  <2> HIDE DEF p
  <2> QED
    BY <1>2, <2>1, Constants, RefreshFields
<1> HIDE DEF p, w
<1>4. /\ admin' \in [Admins -> RefreshRecs] /\ admin'[a] = w
      /\ \A b \in Admins \ {a} : admin'[b] = admin[b]
  BY <1>1, <1>2, <1>3, AdminSet
<1>5. /\ drain' \in [Runtimes -> DrainRecs]
      /\ \A q \in Runtimes : q # monitor => drain'[q] = drain[q]
      /\ monitor # None => drain'[monitor].pc = "close" /\ drain'[monitor].victims = drain[monitor].victims
  BY <1>1, <1>2, RetireOK
<1>6. Shape'
  BY <1>1, <1>2, <1>3, <1>4, <1>5 DEF Shape
<1>7. \A d \in Calls : Passing(d) /\ CallAt(d)'
  BY <1>1, <1>4, CallsStay
<1>8. CallInv' /\ LockInv' /\ SlotInv' /\ AccountInv' /\ SpentInv'
  BY <1>1, <1>7, PassingKeeps
<1>9. RefInv /\ OwnInv /\ DrainInv /\ \A r \in Runtimes : r # None
  BY Constants DEF IInv
<1>10. RefInv'
  <2>1. ASSUME NEW r \in Runtimes, ~Used(r)
        PROVE  /\ runtime[r] = NoRuntime /\ drain'[r].pc = "none"
               /\ monitor' # r /\ \A k \in Registries : registry[k] # r
               /\ \A c \in Calls : call[c].r # r
               /\ \A b \in Admins : admin'[b].r # r
    BY <1>1, <1>3, <1>4, <1>5, <1>9, <2>1 DEF RefInv
  <2>2. \A b \in Admins : admin'[b].pc = "eager" => admin'[b].r \in Runtimes
    BY <1>3, <1>4, <1>9 DEF RefInv
  <2> QED
    BY <1>1, <2>1, <2>2 DEF RefInv, Used
<1>11. OwnInv'
  <2>1. ASSUME NEW b \in Admins, NEW d \in Admins, admin'[b].r = admin'[d].r, admin'[b].r # None
        PROVE  b = d
    BY <1>3, <1>4, <1>9, <2>1 DEF OwnInv
  <2>2. ASSUME NEW b \in Admins, admin'[b].r = monitor' PROVE monitor' = None
    BY <1>1, <1>3, <1>4, <1>9, <2>2 DEF OwnInv
  <2>3. ASSUME NEW r \in Runtimes, drain'[r].pc # "none"
        PROVE  r # monitor' /\ \A b \in Admins : admin'[b].r # r
    <3>1. CASE r = monitor
      <4>1. \A b \in Admins : admin[b].r # r
        BY <1>9, <3>1 DEF OwnInv
      <4> QED
        BY <1>1, <1>3, <1>4, <1>9, <4>1
    <3>2. CASE r # monitor
      <4>1. \A b \in Admins : admin[b].r # r
        BY <1>5, <1>9, <2>3, <3>2 DEF OwnInv
      <4> QED
        BY <1>1, <1>3, <1>4, <1>9, <4>1
    <3> QED
      BY <3>1, <3>2
  <2> QED
    BY <2>1, <2>2, <2>3 DEF OwnInv
<1>12. DrainInv'
  <2>1. ASSUME NEW r \in Runtimes
        PROVE  /\ drain'[r].pc \in {"none", "close"} /\ Used(r) => runtime[r].accepting
               /\ drain'[r].pc \in {"list", "collect", "done"} => ~runtime[r].accepting
               /\ drain'[r].pc \in {"collect", "done"} =>
                     \A t \in Tenants \ drain'[r].todo : Swept(r, t)'
               /\ drain'[r].pc = "collect" => HeldVictims(r)'
               /\ drain'[r].pc # "collect" => drain'[r].victims = <<>>
               /\ drain'[r].pc = "done" => drain'[r].todo = {}
    <3>1. CASE r = monitor
      <4>1. drain[r].pc = "none" /\ drain'[r].pc = "close" /\ drain'[r].victims = drain[r].victims
        BY <1>5, <1>9, <3>1 DEF OwnInv
      <4> QED
        BY <1>9, <4>1 DEF DrainInv
    <3>2. CASE r # monitor
      <4>1. drain'[r] = drain[r]
        BY <1>5, <3>2
      <4>2. \A t \in Tenants : Swept(r, t) => Swept(r, t)'
        BY <1>1, <1>7, <4>1, PassingKeeps
      <4>3. drain[r].pc = "collect" => HeldVictims(r)'
        BY <1>1, <1>9, <4>1 DEF DrainInv, HeldVictims
      <4> QED
        BY <1>9, <4>1, <4>2, <4>3 DEF DrainInv
    <3> QED
      BY <3>1, <3>2
  <2> QED
    BY <1>1, <2>1 DEF DrainInv, HeldVictims, Used
<1> QED
  BY <1>6, <1>8, <1>10, <1>11, <1>12 DEF IInv

-----------------------------------------------------------------------------
(* Generations and drains. *)

\* A slot ages: a generation may go down, a failure may leave the window.
Aged(s, z) ==
    /\ z.here = s.here /\ z.lock = s.lock /\ z.quarantined = s.quarantined
    /\ z.gen = "none" <=> s.gen = "none"
    /\ z.gen \in Up => s.gen \in Up
    /\ z.fails <= s.fails

LEMMA AgedKeeps ==
    ASSUME IInv, Shape', UNCHANGED <<registry, monitor, runtime, permits, call, admin, spent>>,
           \A r \in Runtimes, t \in Tenants : Aged(slot[r][t], slot'[r][t]),
           \A r \in Runtimes :
              /\ drain'[r].pc = drain[r].pc /\ drain'[r].todo = drain[r].todo
              /\ drain[r].pc # "collect" => drain'[r].victims = drain[r].victims
              /\ \A i \in 1..Len(drain'[r].victims) :
                    \E j \in 1..Len(drain[r].victims) : drain'[r].victims[i] = drain[r].victims[j]
              /\ \A t \in Tenants :
                    slot'[r][t].gen \in Up /\ (\E i \in 1..Len(drain[r].victims) : drain[r].victims[i] = t)
                    => \E i \in 1..Len(drain'[r].victims) : drain'[r].victims[i] = t
    PROVE  IInv'
<1>1. /\ Shape /\ CallInv /\ LockInv /\ SlotInv /\ RefInv /\ OwnInv /\ AccountInv /\ SpentInv /\ DrainInv
      /\ registry' = registry /\ monitor' = monitor /\ runtime' = runtime /\ permits' = permits
      /\ call' = call /\ admin' = admin /\ spent' = spent
  BY DEF IInv
<1>2. CallInv'
  <2>1. ASSUME NEW c \in Calls PROVE CallAt(c)' /\ CallHolds(c)'
    <3>1. CallAt(c) /\ CallHolds(c)
      BY <1>1 DEF CallInv
    <3>2. CallAt(c)'
      BY <1>1, <3>1 DEF CallAt
    <3>3. CASE call[c].pc = "idle"
      <4>1. call'[c].pc = "idle"
        BY <1>1, <3>3
      <4> QED
        BY <3>2, <4>1 DEF CallHolds, Holding, Starting
    <3>4. CASE call[c].pc # "idle"
      <4>1. Aged(SlotOf(c), SlotOf(c)')
        BY <1>1, <3>1, <3>4 DEF CallAt, SlotOf
      <4> QED
        BY <1>1, <3>1, <3>2, <4>1 DEF CallHolds, Aged
    <3> QED
      BY <3>2, <3>3, <3>4
  <2> QED
    BY <2>1 DEF CallInv
<1>3. LockInv' /\ OwnInv' /\ RefInv'
  BY <1>1 DEF LockInv, OwnInv, RefInv, Used
<1>4. SlotInv'
  <2>1. ASSUME NEW r \in Runtimes, NEW t \in Tenants PROVE SlotFit(slot'[r][t])
    <3> DEFINE s == slot[r][t]
               z == slot'[r][t]
    <3>1. SlotFit(s) /\ Aged(s, z) /\ s.fails \in Nat /\ z.fails \in Nat
      BY <1>1 DEF SlotInv, Shape, Slots
    <3> HIDE DEF s, z
    <3>2. SlotFit(z)
      BY <3>1, Constants DEF SlotFit, Aged
    <3> QED
      BY <3>2 DEF z
  <2> QED
    BY <2>1 DEF SlotInv
<1>5. /\ \A t \in Tenants : GensOf(t)' = GensOf(t) /\ StartsOf(t)' = StartsOf(t)
      /\ \A r, t : StartsAt(r, t)' = StartsAt(r, t)
  BY <1>1 DEF GensOf, StartsOf, StartsAt, Aged
<1>6. \A r \in Runtimes, t \in Tenants : slot'[r][t].gen = "none" <=> slot[r][t].gen = "none"
  BY DEF Aged
<1>7. AccountInv' /\ SpentInv'
  BY <1>1, <1>5, <1>6 DEF AccountInv, SpentInv, Bit
<1>8. DrainInv'
  <2>1. ASSUME NEW r \in Runtimes, NEW t \in Tenants, Swept(r, t) PROVE Swept(r, t)'
    BY <1>1, <2>1 DEF Swept, Aged
  <2>2. ASSUME NEW r \in Runtimes, HeldVictims(r) PROVE HeldVictims(r)'
    <3>1. \A j \in 1..Len(drain[r].victims) : drain[r].victims[j] \in Tenants
      BY <1>1 DEF Shape, DrainRecs
    <3> QED
      BY <1>6, <2>2, <3>1 DEF HeldVictims
  <2> QED
    BY <1>1, <2>1, <2>2 DEF DrainInv, Used
<1> QED
  BY <1>2, <1>3, <1>4, <1>7, <1>8 DEF IInv

(* One slot ages and no drain is involved. *)
LEMMA OneAgedKeeps ==
    ASSUME IInv, NEW r \in Runtimes, NEW t \in Tenants, NEW z \in Slots, Aged(slot[r][t], z),
           slot' = [slot EXCEPT ![r][t] = z], left' \in Bounds,
           UNCHANGED <<store, manager, runtime, permits, call, admin, drain, spent, unfinished>>
    PROVE  IInv'
<1>1. /\ slot' \in [Runtimes -> [Tenants -> Slots]] /\ slot'[r][t] = z
      /\ \A q \in Runtimes, u \in Tenants : q # r \/ u # t => slot'[q][u] = slot[q][u]
  BY SlotSet DEF IInv, Shape
<1>2. ASSUME NEW q \in Runtimes, NEW u \in Tenants PROVE Aged(slot[q][u], slot'[q][u])
  <2>1. CASE q = r /\ u = t
    BY <1>1, <2>1
  <2>2. CASE q # r \/ u # t
    <3>1. slot'[q][u] = slot[q][u] /\ slot[q][u].fails \in Nat
      BY <1>1, <2>2 DEF IInv, Shape, Slots
    <3> QED
      BY <3>1 DEF Aged
  <2> QED
    BY <2>1, <2>2
<1>3. Shape'
  BY <1>1, ShapeStays DEF IInv, Shape
<1> QED
  BY <1>2, <1>3, AgedKeeps DEF manager

LEMMA FaultKeeps ==
    ASSUME IInv, NEW r \in Runtimes, NEW t \in Tenants, Fail(r, t) \/ Wedge(r, t) \/ Expire(r, t)
    PROVE  IInv'
<1> DEFINE s == slot[r][t]
<1>1. s \in Slots /\ s.fails \in Nat /\ Shape
  BY SlotFields DEF IInv, Shape
<1>2. ASSUME NEW g \in {"down", "wedged"}, s.gen \in Up, left.faults > 0, left' = Faulted,
             slot' = [slot EXCEPT ![r][t].gen = g],
             UNCHANGED <<store, manager, runtime, permits, call, admin, drain, spent, unfinished>>
      PROVE  IInv'
  <2> DEFINE z == [s EXCEPT !.gen = g]
  <2>1. z \in Slots /\ Aged(s, z)
    <3> HIDE DEF s
    <3> QED
      BY <1>1, <1>2 DEF Slots, Aged, Up
  <2>2. slot' = [slot EXCEPT ![r][t] = z]
    BY <1>2
  <2>3. left' \in Bounds
    BY <1>1, <1>2, FaultedOK DEF Shape
  <2> HIDE DEF z
  <2> QED
    BY <1>2, <2>1, <2>2, <2>3, OneAgedKeeps
<1>3. ASSUME Expire(r, t) PROVE IInv'
  <2> DEFINE z == [s EXCEPT !.fails = s.fails - 1]
  <2>1. s.fails > 0 /\ slot' = [slot EXCEPT ![r][t] = z] /\ left' = left
        /\ UNCHANGED <<store, manager, runtime, permits, call, admin, drain, spent, unfinished>>
    BY <1>3 DEF Expire, history
  <2>2. z \in Slots /\ Aged(s, z)
    <3> HIDE DEF s
    <3>1. s.fails - 1 \in Nat /\ s.fails - 1 <= s.fails
      BY <1>1, <2>1
    <3>2. /\ z \in Slots /\ z.here = s.here /\ z.lock = s.lock /\ z.gen = s.gen
          /\ z.fails = s.fails - 1 /\ z.quarantined = s.quarantined
      BY <1>1, <3>1 DEF Slots
    <3> HIDE DEF z
    <3> QED
      BY <3>1, <3>2 DEF Aged
  <2>3. left' \in Bounds
    BY <1>1, <2>1 DEF Shape
  <2> HIDE DEF z
  <2> QED
    BY <2>1, <2>2, <2>3, OneAgedKeeps
<1> QED
  BY <1>2, <1>3 DEF Fail, Wedge, Up

(* The drain of r goes on. *)
LEMMA DrainKeeps ==
    ASSUME IInv, Shape', UNCHANGED <<registry, monitor, slot, permits, call, admin, spent>>,
           NEW r \in Runtimes, drain[r].pc # "none", drain'[r].pc \notin {"none", "close"},
           \A q \in Runtimes \ {r} : drain'[q] = drain[q] /\ runtime'[q] = runtime[q],
           runtime'[r].built = runtime[r].built, ~runtime'[r].accepting,
           drain'[r].pc \in {"collect", "done"} =>
              \A t \in Tenants \ drain'[r].todo : Swept(r, t)',
           drain'[r].pc = "collect" => HeldVictims(r)',
           drain'[r].pc # "collect" => drain'[r].victims = <<>>,
           drain'[r].pc = "done" => drain'[r].todo = {}
    PROVE  IInv'
<1>1. /\ CallInv /\ LockInv /\ SlotInv /\ RefInv /\ OwnInv /\ AccountInv /\ SpentInv /\ DrainInv
      /\ registry' = registry /\ monitor' = monitor /\ slot' = slot /\ permits' = permits
      /\ call' = call /\ admin' = admin /\ spent' = spent
  BY DEF IInv
<1>2. \A d \in Calls : Passing(d) /\ CallAt(d)'
  BY <1>1 DEF Passing, CallInv, CallAt
<1>3. CallInv' /\ LockInv' /\ SlotInv' /\ AccountInv' /\ SpentInv'
  BY <1>1, <1>2, PassingKeeps
<1>4. \A q \in Runtimes : Used(q)' <=> Used(q)
  BY DEF Used
<1>5. RefInv'
  <2>1. Used(r)
    BY <1>1 DEF RefInv
  <2> QED
    BY <1>1, <1>4, <2>1 DEF RefInv
<1>6. OwnInv'
  BY <1>1 DEF OwnInv
<1>7. DrainInv'
  <2>1. ASSUME NEW q \in Runtimes \ {r}
        PROVE  /\ drain'[q].pc \in {"none", "close"} /\ Used(q)' => runtime'[q].accepting
               /\ drain'[q].pc \in {"list", "collect", "done"} => ~runtime'[q].accepting
               /\ drain'[q].pc \in {"collect", "done"} =>
                     \A t \in Tenants \ drain'[q].todo : Swept(q, t)'
               /\ drain'[q].pc = "collect" => HeldVictims(q)'
               /\ drain'[q].pc # "collect" => drain'[q].victims = <<>>
               /\ drain'[q].pc = "done" => drain'[q].todo = {}
    <3>1. drain'[q] = drain[q] /\ runtime'[q] = runtime[q]
      OBVIOUS
    <3>2. \A t \in Tenants : Swept(q, t) => Swept(q, t)'
      BY <1>1, <1>2, <3>1, PassingKeeps
    <3>3. drain[q].pc = "collect" => HeldVictims(q)'
      BY <1>1, <3>1 DEF DrainInv, HeldVictims
    <3> QED
      BY <1>1, <1>4, <3>1, <3>2, <3>3 DEF DrainInv
  <2> QED
    BY <2>1 DEF DrainInv
<1> QED
  BY <1>3, <1>5, <1>6, <1>7 DEF IInv

LEMMA DrainCloseKeeps ==
    ASSUME IInv, NEW r \in Runtimes, DrainClose(r)
    PROVE  IInv'
<1> DEFINE w == Drain("list", drain[r].todo, drain[r].victims)
           n == Runtime(runtime[r].built, FALSE)
<1>1. /\ drain[r].pc = "close" /\ runtime' = [runtime EXCEPT ![r] = n]
      /\ drain' = [drain EXCEPT ![r] = w]
      /\ UNCHANGED <<lifecycle, revision, registry, monitor, slot, permits, call, admin, left,
                     spent, unfinished>>
  BY DEF DrainClose, store, manager, history
<1>2. /\ Shape /\ drain[r].todo \in SUBSET Tenants /\ drain[r].victims \in Seq(Tenants)
      /\ runtime[r] \in RuntimeRecs /\ (drain[r].pc = "close" => drain[r].victims = <<>>)
  BY DEF IInv, Shape, DrainRecs, DrainInv
<1>3. w \in DrainRecs /\ w.pc = "list" /\ w.victims = <<>>
  BY <1>1, <1>2, DrainFields
<1>4. n \in RuntimeRecs /\ n.built = runtime[r].built /\ ~n.accepting
  BY <1>2 DEF RuntimeRecs, Runtime
<1> HIDE DEF w, n
<1>5. /\ drain' \in [Runtimes -> DrainRecs] /\ drain'[r] = w
      /\ \A q \in Runtimes \ {r} : drain'[q] = drain[q]
  BY <1>1, <1>2, <1>3, DrainSet
<1>6. /\ runtime' \in [Runtimes -> RuntimeRecs] /\ runtime'[r] = n
      /\ \A q \in Runtimes \ {r} : runtime'[q] = runtime[q]
  BY <1>1, <1>2, <1>4 DEF Shape
<1>7. Shape'
  BY <1>1, <1>2, <1>5, <1>6 DEF Shape
<1> QED
  BY <1>1, <1>3, <1>4, <1>5, <1>6, <1>7, DrainKeeps

(* A slot that is not there yet holds nothing and nobody starts anything in it. *)
LEMMA DrainListKeeps ==
    ASSUME IInv, NEW r \in Runtimes, DrainList(r)
    PROVE  IInv'
<1> DEFINE ts == {t \in Tenants : slot[r][t].here}
           w == Drain("collect", ts, drain[r].victims)
<1>1. /\ drain[r].pc = "list" /\ drain' = [drain EXCEPT ![r] = w]
      /\ UNCHANGED <<lifecycle, revision, registry, monitor, runtime, slot, permits, call, admin,
                     left, spent, unfinished>>
  BY DEF DrainList, store, manager, history
<1>2. /\ Shape /\ drain[r].victims \in Seq(Tenants) /\ CallInv /\ SlotInv /\ DrainInv
  BY DEF IInv, Shape, DrainRecs
<1>3. w \in DrainRecs /\ w.pc = "collect" /\ w.todo = ts /\ w.victims = drain[r].victims
  <2>1. ts \in SUBSET Tenants
    OBVIOUS
  <2> HIDE DEF ts
  <2> QED
    BY <1>2, <2>1, DrainFields
<1> HIDE DEF w
<1>4. /\ drain' \in [Runtimes -> DrainRecs] /\ drain'[r] = w
      /\ \A q \in Runtimes \ {r} : drain'[q] = drain[q]
  BY <1>1, <1>2, <1>3, DrainSet
<1>5. Shape'
  BY <1>1, <1>2, <1>4 DEF Shape
<1>6. ASSUME NEW t \in Tenants \ ts PROVE Swept(r, t)'
  <2>1. ~slot[r][t].here
    OBVIOUS
  <2>2. slot[r][t].gen = "none"
    BY <1>2, <2>1 DEF SlotInv, SlotFit
  <2>3. ASSUME NEW c \in Calls, call[c].r = r, call[c].t = t PROVE call[c].pc \notin Starting
    BY <1>2, <2>1, <2>3 DEF CallInv, CallHolds, SlotOf, Holding, Starting
  <2> QED
    BY <1>1, <2>2, <2>3 DEF Swept, Up
<1>7. ~runtime[r].accepting
  BY <1>1, <1>2 DEF DrainInv
<1>8. \A t \in Tenants \ drain'[r].todo : Swept(r, t)'
  BY <1>3, <1>4, <1>6
<1>9. HeldVictims(r)'
  <2>1. drain'[r].victims = <<>>
    BY <1>1, <1>2, <1>3, <1>4 DEF DrainInv
  <2> QED
    BY <2>1 DEF HeldVictims
<1> QED
  BY <1>1, <1>3, <1>4, <1>5, <1>7, <1>8, <1>9, DrainKeeps

LEMMA DrainCollectKeeps ==
    ASSUME IInv, NEW r \in Runtimes, NEW t \in Tenants, DrainCollect(r, t)
    PROVE  IInv'
<1> DEFINE ts == drain[r].todo \ {t}
           vs == IF slot[r][t].gen = "none" THEN drain[r].victims ELSE Append(drain[r].victims, t)
           w == Drain("collect", ts, vs)
<1>1. /\ drain[r].pc = "collect" /\ t \in drain[r].todo /\ ~slot[r][t].lock
      /\ drain' = [drain EXCEPT ![r] = w]
      /\ UNCHANGED <<lifecycle, revision, registry, monitor, runtime, slot, permits, call, admin,
                     left, spent, unfinished>>
  BY DEF DrainCollect, store, manager, history
<1>2. /\ Shape /\ drain[r].victims \in Seq(Tenants) /\ drain[r].todo \in SUBSET Tenants
      /\ CallInv /\ DrainInv
  BY DEF IInv, Shape, DrainRecs
<1>3. /\ vs \in Seq(Tenants) /\ ts \in SUBSET Tenants
      /\ \A u \in Tenants : (\E i \in 1..Len(drain[r].victims) : drain[r].victims[i] = u)
                            => \E i \in 1..Len(vs) : vs[i] = u
      /\ slot[r][t].gen # "none" => \E i \in 1..Len(vs) : vs[i] = t
  <2>1. CASE slot[r][t].gen = "none"
    BY <1>2, <2>1
  <2>2. CASE slot[r][t].gen # "none"
    <3>1. /\ vs \in Seq(Tenants) /\ Len(vs) = Len(drain[r].victims) + 1
          /\ Len(drain[r].victims) \in Nat
          /\ \A i \in 1..Len(drain[r].victims) : vs[i] = drain[r].victims[i]
          /\ vs[Len(drain[r].victims) + 1] = t
      BY <1>2, <2>2
    <3> HIDE DEF vs
    <3>2. /\ Len(drain[r].victims) + 1 \in 1..Len(vs)
          /\ \A i \in 1..Len(drain[r].victims) : i \in 1..Len(vs)
      BY <3>1
    <3>3. ts \in SUBSET Tenants
      BY <1>2
    <3> QED
      BY <3>1, <3>2, <3>3
  <2> QED
    BY <2>1, <2>2
<1>4. w \in DrainRecs /\ w.pc = "collect" /\ w.todo = ts /\ w.victims = vs
  <2> HIDE DEF ts, vs
  <2> QED
    BY <1>3, DrainFields
<1> HIDE DEF w
<1>5. /\ drain' \in [Runtimes -> DrainRecs] /\ drain'[r] = w
      /\ \A q \in Runtimes \ {r} : drain'[q] = drain[q]
  BY <1>1, <1>2, <1>4, DrainSet
<1>6. Shape'
  BY <1>1, <1>2, <1>5 DEF Shape
<1>7. ASSUME NEW u \in Tenants \ ts PROVE Swept(r, u)'
  <2>1. CASE u = t
    <3>1. ASSUME NEW c \in Calls, call[c].r = r, call[c].t = u PROVE call[c].pc \notin Starting
      BY <1>1, <1>2, <2>1, <3>1 DEF CallInv, CallHolds, SlotOf, Holding, Starting
    <3>2. slot[r][u].gen \in Up => \E i \in 1..Len(vs) : vs[i] = u
      <4> HIDE DEF vs
      <4> QED
        BY <1>3, <2>1 DEF Up
    <3> HIDE DEF vs
    <3> QED
      BY <1>1, <1>4, <1>5, <3>1, <3>2 DEF Swept
  <2>2. CASE u # t
    <3>1. Swept(r, u)
      BY <1>1, <1>2, <2>2 DEF DrainInv
    <3> HIDE DEF vs
    <3> QED
      BY <1>1, <1>3, <1>4, <1>5, <3>1 DEF Swept
  <2> QED
    BY <2>1, <2>2
<1>8. ~runtime[r].accepting
  BY <1>1, <1>2 DEF DrainInv
<1>9. \A u \in Tenants \ drain'[r].todo : Swept(r, u)'
  BY <1>4, <1>5, <1>7
<1>10. HeldVictims(r)'
  <2>1. HeldVictims(r) /\ drain'[r].victims = vs
    BY <1>1, <1>2, <1>4, <1>5 DEF DrainInv
  <2>2. CASE slot[r][t].gen = "none"
    BY <1>1, <2>1, <2>2 DEF HeldVictims
  <2>3. CASE slot[r][t].gen # "none"
    <3>1. /\ Len(vs) = Len(drain[r].victims) + 1 /\ Len(drain[r].victims) \in Nat
          /\ \A i \in 1..Len(drain[r].victims) : vs[i] = drain[r].victims[i]
          /\ vs[Len(drain[r].victims) + 1] = t
      BY <1>2, <2>3
    <3> HIDE DEF vs
    <3>2. ASSUME NEW i \in 1..Len(vs) PROVE slot[r][vs[i]].gen # "none"
      <4>1. i \in 1..Len(drain[r].victims) \/ i = Len(drain[r].victims) + 1
        BY <3>1
      <4> QED
        BY <2>1, <2>3, <3>1, <4>1 DEF HeldVictims
    <3> QED
      BY <1>1, <2>1, <3>2 DEF HeldVictims
  <2> QED
    BY <2>2, <2>3
<1> QED
  BY <1>1, <1>4, <1>5, <1>6, <1>8, <1>9, <1>10, DrainKeeps

LEMMA DrainShutdownKeeps ==
    ASSUME IInv, NEW r \in Runtimes, DrainShutdown(r)
    PROVE  IInv'
<1>1. /\ drain[r].pc = "collect" /\ drain[r].todo = {}
      /\ UNCHANGED <<lifecycle, revision, registry, monitor, runtime, permits, call, admin,
                     left, spent, unfinished>>
  BY DEF DrainShutdown, store, manager, history
<1>2. /\ Shape /\ drain[r].victims \in Seq(Tenants) /\ DrainInv
  BY DEF IInv, Shape, DrainRecs
<1>3. CASE drain[r].victims = <<>>
  <2> DEFINE w == Drain("done", {}, <<>>)
  <2>1. drain' = [drain EXCEPT ![r] = w] /\ slot' = slot
    BY <1>3 DEF DrainShutdown
  <2>2. w \in DrainRecs /\ w.pc = "done" /\ w.todo = {} /\ w.victims = <<>>
    <3>1. {} \in SUBSET Tenants /\ <<>> \in Seq(Tenants)
      OBVIOUS
    <3> QED
      BY <3>1 DEF DrainRecs, Drain
  <2> HIDE DEF w
  <2>3. /\ drain' \in [Runtimes -> DrainRecs] /\ drain'[r] = w
        /\ \A q \in Runtimes \ {r} : drain'[q] = drain[q]
    BY <1>2, <2>1, <2>2, DrainSet
  <2>4. Shape'
    BY <1>1, <1>2, <2>1, <2>3 DEF Shape
  <2>5. ASSUME NEW t \in Tenants PROVE Swept(r, t)'
    <3>1. Swept(r, t)
      BY <1>1, <1>2 DEF DrainInv
    <3>2. drain'[r].victims = drain[r].victims
      BY <1>3, <2>2, <2>3
    <3> QED
      BY <1>1, <2>1, <3>1, <3>2 DEF Swept
  <2>6. ~runtime[r].accepting
    BY <1>1, <1>2 DEF DrainInv
  <2> QED
    BY <1>1, <2>1, <2>2, <2>3, <2>4, <2>5, <2>6, DrainKeeps
<1>4. CASE drain[r].victims # <<>>
  <2> DEFINE vs == drain[r].victims
             t == Head(vs)
             s == slot[r][t]
             z == [s EXCEPT !.gen = "down"]
             w == Drain("collect", {}, Tail(vs))
  <2>1. slot' = [slot EXCEPT ![r][t] = z] /\ drain' = [drain EXCEPT ![r] = w]
    BY <1>4 DEF DrainShutdown
  <2>2. t \in Tenants /\ Tail(vs) \in Seq(Tenants)
    BY <1>2, <1>4
  <2>3. w \in DrainRecs /\ w.pc = "collect" /\ w.todo = {} /\ w.victims = Tail(vs)
    <3>1. {} \in SUBSET Tenants
      OBVIOUS
    <3> HIDE DEF vs
    <3> QED
      BY <2>2, <3>1 DEF DrainRecs, Drain
  <2>4. /\ drain' \in [Runtimes -> DrainRecs] /\ drain'[r] = w
        /\ \A q \in Runtimes \ {r} : drain'[q] = drain[q]
    <3> HIDE DEF w
    <3> QED
      BY <1>2, <2>1, <2>3, DrainSet
  <2>5. s \in Slots /\ s.gen # "none"
    <3>1. Len(vs) \in Nat /\ 1 \in 1..Len(vs) /\ vs[1] = t
      BY <1>2, <1>4
    <3>2. HeldVictims(r)
      BY <1>1, <1>2 DEF DrainInv
    <3>3. s.gen # "none"
      BY <3>1, <3>2 DEF HeldVictims
    <3> QED
      BY <1>2, <2>2, <3>3 DEF Shape
  <2>6. z \in Slots /\ Aged(s, z) /\ z.gen = "down"
    <3> HIDE DEF s
    <3>1. /\ z \in Slots /\ z.here = s.here /\ z.lock = s.lock /\ z.gen = "down"
          /\ z.fails = s.fails /\ z.quarantined = s.quarantined /\ s.fails \in Nat
      BY <2>5 DEF Slots
    <3> HIDE DEF z
    <3> QED
      BY <2>5, <3>1 DEF Aged, Up
  <2>7. /\ \A i \in 1..Len(Tail(vs)) : \E j \in 1..Len(vs) : Tail(vs)[i] = vs[j]
        /\ \A u \in Tenants \ {t} : (\E i \in 1..Len(vs) : vs[i] = u)
              => \E i \in 1..Len(Tail(vs)) : Tail(vs)[i] = u
    <3>1. /\ Len(vs) \in Nat /\ Len(Tail(vs)) = Len(vs) - 1 /\ vs[1] = t
          /\ \A i \in 1..Len(Tail(vs)) : Tail(vs)[i] = vs[i + 1]
      BY <1>2, <1>4
    <3> HIDE DEF vs, t
    <3>2. \A i \in 1..Len(Tail(vs)) : i + 1 \in 1..Len(vs)
      BY <3>1
    <3>3. ASSUME NEW u \in Tenants \ {t}, NEW i \in 1..Len(vs), vs[i] = u
          PROVE  \E k \in 1..Len(Tail(vs)) : Tail(vs)[k] = u
      <4>1. i # 1
        BY <3>1, <3>3
      <4>2. i - 1 \in 1..Len(Tail(vs)) /\ (i - 1) + 1 = i
        BY <3>1, <4>1
      <4> QED
        BY <3>1, <3>3, <4>2
    <3> QED
      BY <3>1, <3>2, <3>3
  <2> HIDE DEF z, w, t
  <2>8. /\ slot' \in [Runtimes -> [Tenants -> Slots]] /\ slot'[r][t] = z
        /\ \A q \in Runtimes, u \in Tenants : q # r \/ u # t => slot'[q][u] = slot[q][u]
    BY <1>2, <2>1, <2>2, <2>6, SlotSet DEF Shape
  <2>9. Shape'
    BY <1>1, <1>2, <2>4, <2>8 DEF Shape
  <2>10. ASSUME NEW q \in Runtimes, NEW u \in Tenants PROVE Aged(slot[q][u], slot'[q][u])
    <3>1. CASE q = r /\ u = t
      BY <2>6, <2>8, <3>1
    <3>2. CASE q # r \/ u # t
      <4>1. slot'[q][u] = slot[q][u] /\ slot[q][u].fails \in Nat
        BY <1>2, <2>8, <3>2 DEF Shape, Slots
      <4> QED
        BY <4>1 DEF Aged
    <3> QED
      BY <3>1, <3>2
  <2>11. ASSUME NEW q \in Runtimes
         PROVE  /\ drain'[q].pc = drain[q].pc /\ drain'[q].todo = drain[q].todo
                /\ drain[q].pc # "collect" => drain'[q].victims = drain[q].victims
                /\ \A i \in 1..Len(drain'[q].victims) :
                      \E j \in 1..Len(drain[q].victims) : drain'[q].victims[i] = drain[q].victims[j]
                /\ \A u \in Tenants :
                      slot'[q][u].gen \in Up /\ (\E i \in 1..Len(drain[q].victims) : drain[q].victims[i] = u)
                      => \E i \in 1..Len(drain'[q].victims) : drain'[q].victims[i] = u
    <3>1. CASE q # r
      BY <2>4, <3>1
    <3>2. CASE q = r
      <4>1. drain'[r].victims = Tail(vs) /\ drain[r].victims = vs /\ slot'[r][t].gen \notin Up
        BY <2>3, <2>4, <2>6, <2>8 DEF Up
      <4>2. drain'[r].pc = drain[r].pc /\ drain'[r].todo = drain[r].todo /\ drain[r].pc = "collect"
        BY <1>1, <2>3, <2>4
      <4> HIDE DEF vs
      <4>3. ASSUME NEW u \in Tenants, slot'[r][u].gen \in Up, \E i \in 1..Len(vs) : vs[i] = u
            PROVE  \E i \in 1..Len(Tail(vs)) : Tail(vs)[i] = u
        <5>1. u # t
          BY <4>1, <4>3
        <5> QED
          BY <2>7, <4>3, <5>1
      <4> QED
        BY <2>7, <3>2, <4>1, <4>2, <4>3
    <3> QED
      BY <3>1, <3>2
  <2> QED
    BY <1>1, <2>9, <2>10, <2>11, AgedKeeps
<1> QED
  BY <1>3, <1>4

LEMMA DropRuntimeKeeps ==
    ASSUME IInv, NEW r \in Runtimes, DropRuntime(r)
    PROVE  IInv'
<1>1. /\ monitor # r /\ (\A k \in Registries : registry[k] # r) /\ \A a \in Admins : admin[a].r # r
      /\ \A c \in Calls : call[c].r # r
      /\ permits' = [t \in Tenants |-> IF slot[r][t].gen = "none" THEN permits[t] ELSE permits[t] - 1]
      /\ runtime' = [runtime EXCEPT ![r] = NoRuntime]
      /\ slot' = [slot EXCEPT ![r] = [t \in Tenants |-> NewSlot]]
      /\ spent' = [spent EXCEPT ![r] = [t \in Tenants |-> 0]]
      /\ drain' = [drain EXCEPT ![r] = NoDrain]
      /\ lifecycle' = lifecycle /\ revision' = revision /\ registry' = registry /\ monitor' = monitor
      /\ call' = call /\ admin' = admin /\ left' = left /\ unfinished' = unfinished
  BY DEF DropRuntime, store, manager
<1>2. /\ Shape /\ CallInv /\ LockInv /\ SlotInv /\ RefInv /\ OwnInv /\ AccountInv /\ SpentInv /\ DrainInv
  BY DEF IInv
<1>3. NewSlot \in Slots /\ NewSlot.gen = "none" /\ SlotFit(NewSlot)
  BY Constants DEF NewSlot, Slot, Slots, SlotFit
<1>4. NoRuntime \in RuntimeRecs /\ NoRuntime.built = -1
  BY DEF NoRuntime, Runtime, RuntimeRecs
<1>5. NoDrain \in DrainRecs /\ NoDrain.pc = "none" /\ NoDrain.victims = <<>>
  <2>1. {} \in SUBSET Tenants /\ <<>> \in Seq(Tenants)
    OBVIOUS
  <2> QED
    BY <2>1 DEF NoDrain, DrainRecs, Drain
<1> HIDE DEF NewSlot
<1>6. /\ slot' \in [Runtimes -> [Tenants -> Slots]] /\ \A t \in Tenants : slot'[r][t] = NewSlot
      /\ \A q \in Runtimes \ {r} : slot'[q] = slot[q]
  BY <1>1, <1>2, <1>3 DEF Shape
<1>7. /\ spent' \in [Runtimes -> [Tenants -> Int]] /\ \A t \in Tenants : spent'[r][t] = 0
      /\ \A q \in Runtimes \ {r} : spent'[q] = spent[q]
  BY <1>1, <1>2 DEF Shape
<1>8. /\ runtime' \in [Runtimes -> RuntimeRecs] /\ runtime'[r] = NoRuntime
      /\ \A q \in Runtimes \ {r} : runtime'[q] = runtime[q]
  BY <1>1, <1>2, <1>4 DEF Shape
<1>9. /\ drain' \in [Runtimes -> DrainRecs] /\ drain'[r] = NoDrain
      /\ \A q \in Runtimes \ {r} : drain'[q] = drain[q]
  BY <1>1, <1>2, <1>5, DrainSet
<1>10. permits' \in [Tenants -> Int]
  BY <1>1, <1>2 DEF Shape
<1>11. Shape'
  BY <1>1, <1>2, <1>6, <1>7, <1>8, <1>9, <1>10 DEF Shape
<1>12. CallInv' /\ LockInv'
  <2>1. ASSUME NEW c \in Calls PROVE CallAt(c)' /\ CallHolds(c)'
    <3>1. CallAt(c) /\ CallHolds(c) /\ call'[c] = call[c]
      BY <1>1, <1>2 DEF CallInv
    <3>2. CallAt(c)'
      BY <1>1, <3>1 DEF CallAt
    <3>3. CallHolds(c)'
      <4>1. CASE call[c].pc = "idle"
        BY <3>1, <4>1 DEF CallHolds, Holding, Starting
      <4>2. CASE call[c].pc # "idle"
        <5>1. SlotOf(c)' = SlotOf(c)
          BY <1>1, <1>6, <3>1, <4>2 DEF CallAt, SlotOf
        <5> QED
          BY <3>1, <5>1 DEF CallHolds
      <4> QED
        BY <4>1, <4>2
    <3> QED
      BY <3>2, <3>3
  <2> QED
    BY <1>1, <1>2, <2>1 DEF CallInv, LockInv
<1>13. SlotInv'
  BY <1>2, <1>3, <1>6 DEF SlotInv
<1>14. RefInv'
  BY <1>1, <1>2, <1>5, <1>8, <1>9 DEF RefInv, Used
<1>15. OwnInv'
  BY <1>1, <1>2, <1>5, <1>9 DEF OwnInv
<1>16. /\ \A t : StartsOf(t)' = StartsOf(t) /\ \A q : StartsAt(q, t)' = StartsAt(q, t)
       /\ \A t : StartsAt(r, t) = {}
  BY <1>1 DEF StartsOf, StartsAt
<1>17. AccountInv'
  <2>1. ASSUME NEW t \in Tenants
        PROVE  permits'[t] = Cardinality(GensOf(t)') + Cardinality(StartsOf(t)') /\ permits'[t] <= PerTenant
    <3> DEFINE g == Cardinality(GensOf(t))
               n == Cardinality(StartsOf(t))
               b == Bit(slot[r][t].gen # "none")
    <3>1. permits[t] = g + n /\ permits[t] <= PerTenant /\ g \in Nat /\ n \in Nat /\ b \in {0, 1}
      BY <1>2, CountsFinite DEF AccountInv, Bit
    <3>2. \A y : y # r => (y \in GensOf(t) <=> y \in GensOf(t)')
      BY <1>6 DEF GensOf
    <3>3. r \notin GensOf(t)' /\ (r \in GensOf(t) <=> slot[r][t].gen # "none")
      BY <1>3, <1>6 DEF GensOf
    <3>4. Bit(r \in GensOf(t)') = 0 /\ Bit(r \in GensOf(t)) = b
      BY <3>3 DEF Bit
    <3>5. Cardinality(GensOf(t)') = g - b
      <4>1. Cardinality(GensOf(t)') = Cardinality(GensOf(t)) + Bit(r \in GensOf(t)') - Bit(r \in GensOf(t))
        BY <3>2, CountMoves, CountsFinite, CountsFinitePrimed
      <4> HIDE DEF b
      <4> QED
        BY <3>1, <3>4, <4>1
    <3>6. permits'[t] = permits[t] - b
      BY <1>1, <1>2 DEF Bit, Shape
    <3>7. Cardinality(StartsOf(t)') = n
      BY <1>16
    <3> HIDE DEF g, n, b
    <3> QED
      BY <3>1, <3>5, <3>6, <3>7, Constants
  <2> QED
    BY <2>1 DEF AccountInv
<1>18. SpentInv'
  <2>1. ASSUME NEW q \in Runtimes, NEW t \in Tenants
        PROVE  spent'[q][t] = Cardinality(StartsAt(q, t)') + Bit(slot'[q][t].gen # "none")
    <3>1. CASE q = r
      <4>1. StartsAt(q, t)' = {} /\ slot'[q][t].gen = "none" /\ spent'[q][t] = 0
        BY <1>3, <1>6, <1>7, <1>16, <3>1
      <4> QED
        BY <4>1, FS_EmptySet DEF Bit
    <3>2. CASE q # r
      BY <1>2, <1>6, <1>7, <1>16, <3>2 DEF SpentInv
    <3> QED
      BY <3>1, <3>2
  <2> QED
    BY <2>1 DEF SpentInv
<1>19. DrainInv'
  <2>1. ASSUME NEW q \in Runtimes
        PROVE  /\ drain'[q].pc \in {"none", "close"} /\ Used(q)' => runtime'[q].accepting
               /\ drain'[q].pc \in {"list", "collect", "done"} => ~runtime'[q].accepting
               /\ drain'[q].pc \in {"collect", "done"} =>
                     \A t \in Tenants \ drain'[q].todo : Swept(q, t)'
               /\ drain'[q].pc = "collect" => HeldVictims(q)'
               /\ drain'[q].pc # "collect" => drain'[q].victims = <<>>
               /\ drain'[q].pc = "done" => drain'[q].todo = {}
    <3>1. CASE q = r
      BY <1>4, <1>5, <1>8, <1>9, <3>1 DEF Used
    <3>2. CASE q # r
      <4>1. drain'[q] = drain[q] /\ runtime'[q] = runtime[q] /\ slot'[q] = slot[q] /\ (Used(q)' <=> Used(q))
        BY <1>6, <1>8, <1>9, <3>2 DEF Used
      <4>2. \A t \in Tenants : Swept(q, t) => Swept(q, t)'
        BY <1>1, <4>1 DEF Swept
      <4>3. drain[q].pc = "collect" => HeldVictims(q)'
        BY <1>2, <4>1 DEF DrainInv, HeldVictims
      <4> QED
        BY <1>2, <4>1, <4>2, <4>3 DEF DrainInv
    <3> QED
      BY <3>1, <3>2
  <2> QED
    BY <2>1 DEF DrainInv
<1> QED
  BY <1>11, <1>12, <1>13, <1>14, <1>15, <1>17, <1>18, <1>19 DEF IInv

-----------------------------------------------------------------------------
(* A refresh that is dropped. *)

\* The place of the eager task of a for t.
At(a, t) == IF <<a, t>> \in Starts THEN call[<<a, t>>].pc ELSE "idle"

(* The eager tasks of a are at the slots of its runtime, each at the one of its tenant. *)
LEMMA TasksAt ==
    ASSUME IInv, NEW a \in Admins, NEW d \in MyStarts(a), call[d].pc # "idle"
    PROVE  /\ d \in Calls /\ call[d].r = admin[a].r /\ call[d].t = d[2] /\ d[2] \in Tenants
           /\ d = <<a, d[2]>> /\ At(a, d[2]) = call[d].pc
<1>1. d \in Calls /\ d \in Starts /\ d[1] = a /\ d = <<a, d[2]>> /\ d[2] \in Tenants
  BY Constants DEF MyStarts, Starts, Calls
<1>2. call[d].r = admin[a].r /\ call[d].t = d[2]
  BY <1>1 DEF IInv, CallInv, CallAt
<1> QED
  BY <1>1, <1>2 DEF At

LEMMA AbandonKeeps ==
    ASSUME IInv, NEW a \in Admins, AbandonRefresh(a)
    PROVE  IInv'
<1>0. PICK r \in Runtimes : r = admin[a].r
  BY DEF AbandonRefresh, IInv, RefInv
<1>1. /\ admin[a].pc = "eager" /\ Forget(a) /\ admin' = [admin EXCEPT ![a] = NoRefresh]
      /\ slot' = [slot EXCEPT ![r] = [t \in Tenants |->
              IF At(a, t) \in Holding THEN Unlocked(slot[r][t]) ELSE slot[r][t]]]
      /\ permits' = [t \in Tenants |-> IF At(a, t) = "start" THEN permits[t] - 1 ELSE permits[t]]
      /\ spent' = [spent EXCEPT ![r] = [t \in Tenants |->
              IF At(a, t) = "start" THEN spent[r][t] - 1 ELSE spent[r][t]]]
      /\ unfinished' = TRUE
      /\ UNCHANGED <<lifecycle, revision, registry, monitor, runtime, drain, left>>
  BY <1>0 DEF AbandonRefresh, At, store, manager
<1>2. /\ Shape /\ CallInv /\ LockInv /\ SlotInv /\ RefInv /\ OwnInv /\ AccountInv /\ SpentInv /\ DrainInv
      /\ r \in Runtimes /\ r = admin[a].r
  BY <1>0 DEF IInv
<1>3. NoRefresh \in RefreshRecs /\ NoRefresh.pc = "idle" /\ NoRefresh.r = None
  BY NoRefreshFields
<1>4. /\ admin' \in [Admins -> RefreshRecs] /\ admin'[a] = NoRefresh
      /\ \A b \in Admins \ {a} : admin'[b] = admin[b]
  BY <1>1, <1>2, <1>3, AdminSet
<1>5. /\ \A t \in Tenants : /\ slot[r][t] \in Slots /\ Unlocked(slot[r][t]) \in Slots
                            /\ Unlocked(slot[r][t]).here = slot[r][t].here
                            /\ Unlocked(slot[r][t]).gen = slot[r][t].gen
                            /\ Unlocked(slot[r][t]).fails = slot[r][t].fails
                            /\ Unlocked(slot[r][t]).quarantined = slot[r][t].quarantined
  <2>1. ASSUME NEW t \in Tenants PROVE slot[r][t] \in Slots
    BY <1>2 DEF Shape
  <2> QED
    BY <2>1, SlotFields DEF Unlocked
<1>6. /\ slot' \in [Runtimes -> [Tenants -> Slots]]
      /\ \A t \in Tenants : slot'[r][t] = IF At(a, t) \in Holding THEN Unlocked(slot[r][t]) ELSE slot[r][t]
      /\ \A q \in Runtimes \ {r} : slot'[q] = slot[q]
  <2> DEFINE S == [t \in Tenants |-> IF At(a, t) \in Holding THEN Unlocked(slot[r][t]) ELSE slot[r][t]]
  <2>1. /\ S \in [Tenants -> Slots]
        /\ \A t \in Tenants : S[t] = IF At(a, t) \in Holding THEN Unlocked(slot[r][t]) ELSE slot[r][t]
    BY <1>5
  <2>2. slot' = [slot EXCEPT ![r] = S]
    BY <1>1
  <2> HIDE DEF S
  <2>3. slot'[r] = S /\ slot' \in [Runtimes -> [Tenants -> Slots]] /\ \A q \in Runtimes \ {r} : slot'[q] = slot[q]
    BY <1>2, <2>1, <2>2 DEF Shape
  <2> QED
    BY <2>1, <2>3
<1>7. /\ spent' \in [Runtimes -> [Tenants -> Int]]
      /\ \A t \in Tenants : spent'[r][t] = IF At(a, t) = "start" THEN spent[r][t] - 1 ELSE spent[r][t]
      /\ \A q \in Runtimes \ {r} : spent'[q] = spent[q]
  <2> DEFINE S == [t \in Tenants |-> IF At(a, t) = "start" THEN spent[r][t] - 1 ELSE spent[r][t]]
  <2>1. /\ S \in [Tenants -> Int]
        /\ \A t \in Tenants : S[t] = IF At(a, t) = "start" THEN spent[r][t] - 1 ELSE spent[r][t]
    BY <1>2 DEF Shape
  <2>2. spent' = [spent EXCEPT ![r] = S]
    BY <1>1
  <2> HIDE DEF S
  <2>3. spent'[r] = S /\ spent' \in [Runtimes -> [Tenants -> Int]] /\ \A q \in Runtimes \ {r} : spent'[q] = spent[q]
    BY <1>2, <2>1, <2>2 DEF Shape
  <2> QED
    BY <2>1, <2>3
<1>8. /\ permits' \in [Tenants -> Int]
      /\ \A t \in Tenants : permits'[t] = IF At(a, t) = "start" THEN permits[t] - 1 ELSE permits[t]
  BY <1>1, <1>2 DEF Shape
<1>9. \A d \in Calls : call'[d] = IF d \in MyStarts(a) THEN NoCall ELSE call[d]
  BY <1>1 DEF Forget
<1>10. call' \in [Calls -> CallRecs]
  <2>1. \A d \in Calls : (IF d \in MyStarts(a) THEN NoCall ELSE call[d]) \in CallRecs
    BY <1>2, NoCallFields DEF Shape
  <2> QED
    BY <1>1, <2>1 DEF Forget
<1>11. Shape'
  BY <1>1, <1>2, <1>3, <1>4, <1>6, <1>7, <1>8, <1>10 DEF Shape
<1>12. \A t \in Tenants, q \in Runtimes :
          /\ slot'[q][t].here = slot[q][t].here /\ slot'[q][t].gen = slot[q][t].gen
          /\ slot'[q][t].fails = slot[q][t].fails /\ slot'[q][t].quarantined = slot[q][t].quarantined
  BY <1>5, <1>6
<1>13. ASSUME NEW t \in Tenants, At(a, t) # "idle"
       PROVE  /\ <<a, t>> \in MyStarts(a) /\ <<a, t>> \in Calls
              /\ call[<<a, t>>].pc = At(a, t) /\ call[<<a, t>>].r = r /\ call[<<a, t>>].t = t
  <2>1. <<a, t>> \in MyStarts(a) /\ <<a, t>> \in Calls /\ call[<<a, t>>].pc = At(a, t)
    BY <1>13 DEF At, MyStarts, Calls
  <2> QED
    BY <1>0, <1>13, <2>1, TasksAt
<1>14. CallInv'
  <2>1. ASSUME NEW d \in Calls, d \in MyStarts(a) PROVE CallAt(d)' /\ CallHolds(d)'
    <3>1. call'[d].pc = "idle" /\ call'[d].r = None
      BY <1>9, <2>1, NoCallFields
    <3> QED
      BY <3>1 DEF CallAt, CallHolds, Holding, Starting
  <2>2. ASSUME NEW d \in Calls, d \notin MyStarts(a) PROVE CallAt(d)' /\ CallHolds(d)'
    <3>1. call'[d] = call[d] /\ CallAt(d) /\ CallHolds(d)
      BY <1>2, <1>9, <2>2 DEF CallInv
    <3>2. d \in Starts => d[1] \in Admins \ {a}
      BY <2>2 DEF MyStarts, Starts
    <3>3. CallAt(d)'
      BY <1>4, <3>1, <3>2 DEF CallAt
    <3>4. CASE call[d].pc \notin Holding \cup {"wait"}
      BY <3>1, <3>3, <3>4 DEF CallHolds, Holding, Starting
    <3>5. CASE call[d].pc \in Holding \cup {"wait"}
      <4>1. call[d].pc # "idle"
        BY <3>5 DEF Holding
      <4>2. call[d].r \in Runtimes /\ call[d].t \in Tenants
        BY <3>1, <4>1 DEF CallAt
      <4>3. /\ SlotOf(d)'.here = SlotOf(d).here /\ SlotOf(d)'.gen = SlotOf(d).gen
            /\ SlotOf(d)'.quarantined = SlotOf(d).quarantined
        BY <1>12, <3>1, <4>2 DEF SlotOf
      <4>4. ASSUME call[d].pc \in Holding PROVE SlotOf(d)'.lock = SlotOf(d).lock
        <5>1. CASE call[d].r = r /\ At(a, call[d].t) \in Holding
          <6>1. At(a, call[d].t) # "idle"
            BY <5>1 DEF Holding
          <6> DEFINE e == <<a, call[d].t>>
          <6>2. /\ e \in MyStarts(a) /\ e \in Calls /\ call[e].pc \in Holding
                /\ call[e].r = call[d].r /\ call[e].t = call[d].t
            BY <1>13, <4>2, <5>1, <6>1
          <6> HIDE DEF e
          <6>3. e = d
            BY <1>2, <4>4, <6>2 DEF LockInv
          <6> QED
            BY <2>2, <6>2, <6>3
        <5>2. CASE ~(call[d].r = r /\ At(a, call[d].t) \in Holding)
          <6>1. slot'[call[d].r][call[d].t] = slot[call[d].r][call[d].t]
            BY <1>6, <4>2, <5>2
          <6> QED
            BY <3>1, <6>1 DEF SlotOf
        <5> QED
          BY <5>1, <5>2
      <4> QED
        BY <3>1, <3>3, <4>3, <4>4 DEF CallHolds
    <3> QED
      BY <3>4, <3>5
  <2> QED
    BY <2>1, <2>2 DEF CallInv
<1>15. LockInv'
  <2>1. \A d \in Calls : call'[d].pc \in Holding => call'[d] = call[d]
    BY <1>9, NoCallFields DEF Holding
  <2> QED
    BY <1>2, <2>1 DEF LockInv
<1>16. SlotInv'
  BY <1>2, <1>12 DEF SlotInv, SlotFit
<1>17. RefInv' /\ OwnInv'
  <2>1. \A q \in Runtimes : q # None
    BY Constants
  <2>2. \A d \in Calls : call'[d].r \in {None, call[d].r}
    BY <1>9, NoCallFields
  <2>3. RefInv'
    BY <1>1, <1>2, <1>3, <1>4, <2>1, <2>2 DEF RefInv, Used
  <2>4. OwnInv'
    <3>1. ASSUME NEW b \in Admins, NEW d \in Admins, admin'[b].r = admin'[d].r, admin'[b].r # None
          PROVE  b = d
      BY <1>2, <1>3, <1>4, <3>1 DEF OwnInv
    <3>2. ASSUME NEW b \in Admins, admin'[b].r = monitor PROVE monitor = None
      BY <1>2, <1>3, <1>4, <3>2 DEF OwnInv
    <3>3. ASSUME NEW q \in Runtimes, drain[q].pc # "none"
          PROVE  q # monitor /\ \A b \in Admins : admin'[b].r # q
      BY <1>2, <1>3, <1>4, <2>1, <3>3 DEF OwnInv
    <3> QED
      BY <1>1, <3>1, <3>2, <3>3 DEF OwnInv
  <2> QED
    BY <2>3, <2>4
<1>18. \A t \in Tenants : GensOf(t)' = GensOf(t)
  BY <1>12 DEF GensOf
<1>19. ASSUME NEW t \in Tenants
       PROVE  /\ \A y : y # <<a, t>> => (y \in StartsOf(t) <=> y \in StartsOf(t)')
              /\ <<a, t>> \in StartsOf(t) <=> At(a, t) = "start"
              /\ <<a, t>> \notin StartsOf(t)'
  <2>1. ASSUME NEW y \in MyStarts(a), y \in Calls PROVE call'[y].pc = "idle"
    BY <1>9, <2>1, NoCallFields
  <2>2. ASSUME NEW y, y # <<a, t>>, y \in StartsOf(t) PROVE y \in StartsOf(t)'
    <3>1. y \in Calls /\ call[y].pc = "start" /\ call[y].t = t
      BY <2>2 DEF StartsOf
    <3>2. y \notin MyStarts(a)
      BY <2>2, <3>1, TasksAt
    <3> QED
      BY <1>9, <3>1, <3>2 DEF StartsOf
  <2>3. ASSUME NEW y, y \in StartsOf(t)' PROVE y \in StartsOf(t) /\ y \notin MyStarts(a)
    <3>1. y \in Calls /\ call'[y].pc = "start" /\ call'[y].t = t
      BY <2>3 DEF StartsOf
    <3>2. y \notin MyStarts(a)
      BY <2>1, <3>1
    <3> QED
      BY <1>9, <3>1, <3>2 DEF StartsOf
  <2>4. <<a, t>> \in StartsOf(t) => At(a, t) = "start"
    <3>1. ASSUME <<a, t>> \in StartsOf(t) PROVE At(a, t) = "start"
      <4>1. <<a, t>> \in Calls /\ call[<<a, t>>].pc = "start"
        BY <3>1 DEF StartsOf
      <4>2. <<a, t>> \in Starts \/ <<a, t>> \in Clients
        BY <4>1 DEF Calls
      <4> QED
        BY <4>1, <4>2, RuntimesAssumption DEF At
    <3> QED
      BY <3>1
  <2>5. At(a, t) = "start" => <<a, t>> \in StartsOf(t)
    BY <1>13 DEF StartsOf
  <2>6. <<a, t>> \notin StartsOf(t)'
    BY <1>13, <2>3, <2>4
  <2> QED
    BY <2>2, <2>3, <2>4, <2>5, <2>6
<1>20. ASSUME NEW t \in Tenants
       PROVE  Cardinality(StartsOf(t)') = Cardinality(StartsOf(t)) - Bit(At(a, t) = "start")
  <2>1. Bit(<<a, t>> \in StartsOf(t)') = 0 /\ Bit(<<a, t>> \in StartsOf(t)) = Bit(At(a, t) = "start")
    BY <1>19 DEF Bit
  <2>2. /\ Cardinality(StartsOf(t)) \in Nat
        /\ Cardinality(StartsOf(t)') = Cardinality(StartsOf(t)) + Bit(<<a, t>> \in StartsOf(t)')
                                       - Bit(<<a, t>> \in StartsOf(t))
    BY <1>19, CountMoves, CountsFinite, CountsFinitePrimed
  <2>3. Bit(At(a, t) = "start") \in Int
    BY DEF Bit
  <2> QED
    BY <2>1, <2>2, <2>3
<1>21. AccountInv'
  <2>1. ASSUME NEW t \in Tenants
        PROVE  permits'[t] = Cardinality(GensOf(t)') + Cardinality(StartsOf(t)') /\ permits'[t] <= PerTenant
    <3> DEFINE g == Cardinality(GensOf(t))
               n == Cardinality(StartsOf(t))
               b == Bit(At(a, t) = "start")
    <3>1. permits[t] = g + n /\ permits[t] <= PerTenant /\ g \in Nat /\ n \in Nat /\ b \in {0, 1}
      BY <1>2, CountsFinite DEF AccountInv, Bit
    <3>2. permits'[t] = permits[t] - b
      BY <1>2, <1>8 DEF Bit, Shape
    <3>3. Cardinality(StartsOf(t)') = n - b /\ Cardinality(GensOf(t)') = g
      BY <1>18, <1>20
    <3> HIDE DEF g, n, b
    <3> QED
      BY <3>1, <3>2, <3>3, Constants
  <2> QED
    BY <2>1 DEF AccountInv
<1>22. SpentInv'
  <2>1. ASSUME NEW q \in Runtimes, NEW t \in Tenants, q # r PROVE StartsAt(q, t)' = StartsAt(q, t)
    <3>1. ASSUME NEW y \in StartsAt(q, t) PROVE y \in StartsAt(q, t)'
      <4>1. y \in Calls /\ call[y].pc = "start" /\ call[y].r = q /\ call[y].t = t
        BY <3>1 DEF StartsAt, StartsOf
      <4>2. y \notin MyStarts(a)
        BY <1>0, <2>1, <4>1, TasksAt
      <4> QED
        BY <1>9, <4>1, <4>2 DEF StartsAt, StartsOf
    <3>2. ASSUME NEW y \in StartsAt(q, t)' PROVE y \in StartsAt(q, t)
      <4>1. y \in Calls /\ call'[y].pc = "start" /\ call'[y].r = q /\ call'[y].t = t
        BY <3>2 DEF StartsAt, StartsOf
      <4>2. call'[y] = call[y]
        BY <1>9, <4>1, NoCallFields
      <4> QED
        BY <4>1, <4>2 DEF StartsAt, StartsOf
    <3> QED
      BY <3>1, <3>2
  <2>2. ASSUME NEW t \in Tenants
        PROVE  Cardinality(StartsAt(r, t)') = Cardinality(StartsAt(r, t)) - Bit(At(a, t) = "start")
    <3> DEFINE x == <<a, t>>
    <3>1. /\ \A y : y # x => (y \in StartsAt(r, t) <=> y \in StartsAt(r, t)')
          /\ x \notin StartsAt(r, t)'
          /\ x \in StartsAt(r, t) <=> At(a, t) = "start"
      <4>1. \A y : y \in StartsOf(t)' => y \in Calls /\ call'[y] = call[y]
        BY <1>9, NoCallFields DEF StartsOf
      <4>2. At(a, t) = "start" => call[x].r = r
        BY <1>13
      <4> HIDE DEF x
      <4>3. /\ \A y : y # x => (y \in StartsOf(t) <=> y \in StartsOf(t)')
            /\ x \in StartsOf(t) <=> At(a, t) = "start"
            /\ x \notin StartsOf(t)'
        BY <1>19 DEF x
      <4> QED
        BY <4>1, <4>2, <4>3 DEF StartsAt
    <3>2. Bit(x \in StartsAt(r, t)') = 0 /\ Bit(x \in StartsAt(r, t)) = Bit(At(a, t) = "start")
      BY <3>1 DEF Bit
    <3>3. /\ Cardinality(StartsAt(r, t)) \in Nat
          /\ Cardinality(StartsAt(r, t)') = Cardinality(StartsAt(r, t)) + Bit(x \in StartsAt(r, t)')
                                            - Bit(x \in StartsAt(r, t))
      BY <3>1, CountMoves, CountsFinite, CountsFinitePrimed
    <3>4. Bit(At(a, t) = "start") \in Int
      BY DEF Bit
    <3> QED
      BY <3>2, <3>3, <3>4
  <2>3. ASSUME NEW q \in Runtimes, NEW t \in Tenants
        PROVE  spent'[q][t] = Cardinality(StartsAt(q, t)') + Bit(slot'[q][t].gen # "none")
    <3>1. /\ spent[q][t] = Cardinality(StartsAt(q, t)) + Bit(slot[q][t].gen # "none")
          /\ slot'[q][t].gen = slot[q][t].gen
      BY <1>2, <1>12 DEF SpentInv
    <3>2. CASE q # r
      BY <1>7, <2>1, <3>1, <3>2
    <3>3. CASE q = r
      <4> DEFINE n == Cardinality(StartsAt(r, t))
                 b == Bit(At(a, t) = "start")
                 g == Bit(slot[r][t].gen # "none")
      <4>1. spent[r][t] = n + g /\ n \in Nat /\ b \in {0, 1} /\ g \in {0, 1}
        BY <3>1, <3>3, CountsFinite DEF Bit
      <4>2. spent'[r][t] = spent[r][t] - b
        BY <1>2, <1>7 DEF Bit, Shape
      <4>3. Cardinality(StartsAt(r, t)') = n - b
        BY <2>2
      <4>4. Bit(slot'[r][t].gen # "none") = g
        BY <3>1, <3>3
      <4> HIDE DEF n, b, g
      <4>5. spent'[r][t] = Cardinality(StartsAt(r, t)') + Bit(slot'[r][t].gen # "none")
        BY <4>1, <4>2, <4>3, <4>4
      <4> QED
        BY <3>3, <4>5
    <3> QED
      BY <3>2, <3>3
  <2> QED
    BY <2>3 DEF SpentInv
<1>23. DrainInv'
  <2>1. \A d \in Calls : call'[d].pc \in Starting => call'[d] = call[d]
    BY <1>9, NoCallFields DEF Starting
  <2>2. ASSUME NEW q \in Runtimes, NEW t \in Tenants, Swept(q, t) PROVE Swept(q, t)'
    BY <1>1, <1>12, <2>1, <2>2 DEF Swept
  <2>3. ASSUME NEW q \in Runtimes, HeldVictims(q) PROVE HeldVictims(q)'
    <3>1. \A j \in 1..Len(drain[q].victims) : drain[q].victims[j] \in Tenants
      BY <1>2 DEF Shape, DrainRecs
    <3> QED
      BY <1>1, <1>12, <2>3, <3>1 DEF HeldVictims
  <2> QED
    BY <1>1, <1>2, <2>2, <2>3 DEF DrainInv, Used
<1> QED
  BY <1>11, <1>14, <1>15, <1>16, <1>17, <1>21, <1>22, <1>23 DEF IInv

-----------------------------------------------------------------------------
(* The invariant. *)

LEMMA InitIInv == Init => IInv
<1> SUFFICES ASSUME Init PROVE IInv
  OBVIOUS
<1>1. /\ lifecycle = "ready" /\ revision = 0 /\ monitor = 1 /\ \A k \in Registries : registry[k] = 1
      /\ unfinished = FALSE
      /\ \A r \in Runtimes : runtime[r] = IF r = 1 THEN Runtime(0, TRUE) ELSE NoRuntime
      /\ \A r \in Runtimes, t \in Tenants :
            slot[r][t] = IF r = 1 /\ t \in Eager THEN Slot(TRUE, FALSE, "ready", 0, FALSE) ELSE NewSlot
      /\ \A t \in Tenants : permits[t] = IF t \in Eager THEN 1 ELSE 0
      /\ \A c \in Calls : call[c] = NoCall
      /\ \A a \in Admins : admin[a] = NoRefresh
      /\ \A r \in Runtimes : drain[r] = NoDrain
      /\ \A r \in Runtimes, t \in Tenants : spent[r][t] = IF r = 1 /\ t \in Eager THEN 1 ELSE 0
  BY DEF Init
<1>2. /\ NewSlot \in Slots /\ NewSlot.gen = "none" /\ SlotFit(NewSlot)
      /\ LET s == Slot(TRUE, FALSE, "ready", 0, FALSE) IN s \in Slots /\ s.gen = "ready" /\ SlotFit(s)
  BY Constants DEF NewSlot, Slot, Slots, SlotFit, Up
<1>3. /\ NoRefresh \in RefreshRecs /\ NoRefresh.pc = "idle" /\ NoRefresh.r = None
  BY Constants DEF NoRefresh, Refresh, RefreshRecs, AdminPcs
<1>4. /\ NoDrain \in DrainRecs /\ NoDrain.pc = "none" /\ NoDrain.victims = <<>>
  <2>1. {} \in SUBSET Tenants /\ <<>> \in Seq(Tenants)
    OBVIOUS
  <2> QED
    BY <2>1 DEF NoDrain, DrainRecs, Drain
<1>5. /\ NoRuntime \in RuntimeRecs /\ NoRuntime.built = -1
      /\ Runtime(0, TRUE) \in RuntimeRecs /\ Runtime(0, TRUE).built = 0 /\ Runtime(0, TRUE).accepting
  BY DEF NoRuntime, Runtime, RuntimeRecs
<1>6. Shape
  <2>1. runtime \in [Runtimes -> RuntimeRecs]
    BY <1>5 DEF Init
  <2>2. slot \in [Runtimes -> [Tenants -> Slots]]
    <3>1. \A r \in Runtimes, t \in Tenants :
            (IF r = 1 /\ t \in Eager THEN Slot(TRUE, FALSE, "ready", 0, FALSE) ELSE NewSlot) \in Slots
      BY <1>2
    <3> QED
      BY <3>1 DEF Init
  <2>3. permits \in [Tenants -> Int] /\ spent \in [Runtimes -> [Tenants -> Int]]
    BY DEF Init
  <2>4. call \in [Calls -> CallRecs] /\ admin \in [Admins -> RefreshRecs] /\ drain \in [Runtimes -> DrainRecs]
    BY <1>3, <1>4, NoCallFields DEF Init
  <2>5. \A a \in Admins : admin[a].pc = "idle"
    BY <1>1, <1>3
  <2>6. /\ lifecycle \in Lifecycles /\ revision \in Nat /\ left \in Bounds
        /\ registry \in [Registries -> 0..MaxRuntimes] /\ monitor \in 0..MaxRuntimes
        /\ unfinished \in BOOLEAN
    <3>1. 1 \in 0..MaxRuntimes /\ Scenarios \subseteq Bounds
      BY RuntimesAssumption
    <3> QED
      BY <3>1 DEF Init, Lifecycles
  <2> QED
    BY <2>1, <2>2, <2>3, <2>4, <2>5, <2>6 DEF Shape
<1>7. CallInv /\ LockInv
  <2>1. \A c \in Calls : call[c].pc = "idle" /\ call[c].r = None
    BY <1>1, NoCallFields
  <2> QED
    BY <2>1 DEF CallInv, CallAt, CallHolds, LockInv, Holding, Starting
<1>8. SlotInv
  BY <1>1, <1>2 DEF SlotInv
<1>9. RefInv
  <2>1. runtime[1].built = 0
    BY <1>1, <1>5, Constants
  <2>2. ASSUME NEW r \in Runtimes, ~Used(r)
        PROVE  runtime[r] = NoRuntime /\ monitor # r /\ \A k \in Registries : registry[k] # r
    <3>1. r # 1
      BY <2>1, <2>2 DEF Used
    <3> QED
      BY <1>1, <3>1
  <2>3. /\ \A r \in Runtimes : drain[r].pc = "none" /\ r # None
        /\ \A c \in Calls : call[c].r = None
        /\ \A a \in Admins : admin[a].r = None /\ admin[a].pc = "idle"
    BY <1>1, <1>3, <1>4, NoCallFields, Constants
  <2> QED
    BY <2>2, <2>3 DEF RefInv
<1>10. OwnInv
  BY <1>1, <1>3, <1>4 DEF OwnInv, None
<1>11. \A t \in Tenants : StartsOf(t) = {} /\ \A r : StartsAt(r, t) = {}
  BY <1>1, NoCallFields DEF StartsOf, StartsAt
<1>12. \A r \in Runtimes, t \in Tenants : slot[r][t].gen # "none" <=> r = 1 /\ t \in Eager
  <2>1. ASSUME NEW r \in Runtimes, NEW t \in Tenants PROVE slot[r][t].gen # "none" <=> r = 1 /\ t \in Eager
    <3>1. CASE r = 1 /\ t \in Eager
      <4>1. slot[r][t] = Slot(TRUE, FALSE, "ready", 0, FALSE)
        BY <1>1, <3>1
      <4> QED
        BY <1>2, <3>1, <4>1
    <3>2. CASE ~(r = 1 /\ t \in Eager)
      <4>1. slot[r][t] = NewSlot
        BY <1>1, <3>2
      <4> QED
        BY <1>2, <3>2, <4>1
    <3> QED
      BY <3>1, <3>2
  <2> QED
    BY <2>1
<1>13. AccountInv
  <2>1. ASSUME NEW t \in Tenants
        PROVE  permits[t] = Cardinality(GensOf(t)) + Cardinality(StartsOf(t)) /\ permits[t] <= PerTenant
    <3>1. Cardinality(StartsOf(t)) = 0
      BY <1>11, FS_EmptySet
    <3>2. CASE t \in Eager
      <4>1. PerTenant > 0 /\ PerTenant \in Nat
        BY <3>2, RuntimesAssumption
      <4>2. GensOf(t) = {1}
        BY <1>12, <3>2, Constants DEF GensOf
      <4>3. Cardinality(GensOf(t)) = 1
        BY <4>2, FS_Singleton
      <4>4. permits[t] = 1
        BY <3>2 DEF Init
      <4> QED
        BY <3>1, <4>1, <4>3, <4>4
    <3>3. CASE t \notin Eager
      <4>1. GensOf(t) = {}
        BY <1>12, <3>3 DEF GensOf
      <4>2. Cardinality(GensOf(t)) = 0
        BY <4>1, FS_EmptySet
      <4>3. permits[t] = 0
        BY <3>3 DEF Init
      <4> QED
        BY <3>1, <4>2, <4>3, Constants
    <3> QED
      BY <3>2, <3>3
  <2> QED
    BY <2>1 DEF AccountInv
<1>14. SpentInv
  <2>1. ASSUME NEW r \in Runtimes, NEW t \in Tenants
        PROVE  spent[r][t] = Cardinality(StartsAt(r, t)) + Bit(slot[r][t].gen # "none")
    <3>1. Cardinality(StartsAt(r, t)) = 0
      BY <1>11, FS_EmptySet
    <3>2. spent[r][t] = Bit(r = 1 /\ t \in Eager)
      BY DEF Init, Bit
    <3>3. spent[r][t] = Bit(slot[r][t].gen # "none")
      BY <1>12, <3>2 DEF Bit
    <3> QED
      BY <3>1, <3>3 DEF Bit
  <2> QED
    BY <2>1 DEF SpentInv
<1>15. DrainInv
  BY <1>1, <1>4, <1>5 DEF DrainInv, Used
<1> QED
  BY <1>6, <1>7, <1>8, <1>9, <1>10, <1>13, <1>14, <1>15 DEF IInv

LEMMA NextKeeps == IInv /\ [Next]_vars => IInv'
<1> SUFFICES ASSUME IInv, [Next]_vars PROVE IInv'
  OBVIOUS
<1>1. ASSUME NEW c \in Calls, CallStep(c) \/ Cancel(c) \/ \E t \in Tenants, k \in Registries : Lookup(c, t, k) PROVE IInv'
  BY <1>1, EnterKeeps, GetSlotKeeps, LockKeeps, InspectKeeps, AdmitKeeps, StartedKeeps,
     StartFailedKeeps, CancelKeeps, LookupKeeps DEF CallStep
<1>2. ASSUME NEW r \in Runtimes, NEW t \in Tenants, Fail(r, t) \/ Wedge(r, t) \/ Expire(r, t) PROVE IInv'
  BY <1>2, FaultKeeps
<1>3. ASSUME NEW a \in Admins, AdminStep(a) PROVE IInv'
  BY <1>3, BuildKeeps, HydrationFailsKeeps, EagerReadyKeeps, EagerFailedKeeps, RebuildKeeps,
     PublishKeeps, RefuseKeeps, SwapKeeps, RestoreKeeps DEF AdminStep
<1>4. ASSUME NEW a \in Admins, AbandonRefresh(a) PROVE IInv'
  BY <1>4, AbandonKeeps
<1>5. ASSUME NEW a \in Admins, Enable(a) \/ Disable(a) \/ Regrant(a) PROVE IInv'
  <2>1. /\ lifecycle \in Lifecycles /\ lifecycle \in Lifecycles \cup {"none"}
        /\ "ready" \in Lifecycles /\ "disabled" \in Lifecycles /\ "none" \in Lifecycles \cup {"none"}
    BY DEF IInv, Shape, Lifecycles
  <2> QED
    BY <1>5, <2>1, BeginKeeps DEF Enable, Disable, Regrant
<1>6. ASSUME NEW r \in Runtimes, DrainStep(r) PROVE IInv'
  BY <1>6, DrainCloseKeeps, DrainListKeeps, DrainShutdownKeeps, DrainCollectKeeps DEF DrainStep
<1>7. ASSUME NEW r \in Runtimes, DropRuntime(r) PROVE IInv'
  BY <1>7, DropRuntimeKeeps
<1>8. CASE UNCHANGED vars
  <2>1. /\ lifecycle' = lifecycle /\ revision' = revision /\ registry' = registry /\ monitor' = monitor
        /\ runtime' = runtime /\ slot' = slot /\ permits' = permits /\ call' = call /\ admin' = admin
        /\ drain' = drain /\ left' = left /\ spent' = spent /\ unfinished' = unfinished
    BY <1>8 DEF vars, store, manager, history
  <2>2. Shape'
    BY <2>1 DEF IInv, Shape
  <2>3. ASSUME NEW r \in Runtimes, NEW t \in Tenants PROVE Aged(slot[r][t], slot'[r][t])
    <3>1. slot[r][t].fails \in Nat
      BY DEF IInv, Shape, Slots
    <3> QED
      BY <2>1, <3>1 DEF Aged
  <2> QED
    BY <2>1, <2>2, <2>3, AgedKeeps
<1>9. CASE Next
  BY <1>1, <1>2, <1>3, <1>4, <1>5, <1>6, <1>7, <1>9 DEF Next
<1> QED
  BY <1>8, <1>9

(* For any tenants, calls, administrators and limits: slots, locks, permits, refreshes and
   drains stay consistent (extension_runtime.rs, lifecycle.rs, session.rs). *)
THEOREM RuntimesConsistent == Spec => []IInv
<1> QED
  BY InitIInv, NextKeeps, PTL DEF Spec

LEMMA TypesBounded ==
    ASSUME IInv
    PROVE  TypeOK
<1>1. Shape /\ SlotInv /\ AccountInv
  BY DEF IInv
<1>2. slot \in [Runtimes -> [Tenants -> SlotRecs]]
  <2>1. ASSUME NEW r \in Runtimes, NEW t \in Tenants PROVE slot[r][t] \in SlotRecs
    <3>1. slot[r][t] \in Slots /\ SlotFit(slot[r][t])
      BY <1>1 DEF Shape, SlotInv
    <3>2. slot[r][t].fails \in 0..MaxFailures + 1
      BY <3>1, Constants DEF Slots, SlotFit
    <3> QED
      BY <3>1, <3>2 DEF Slots, SlotRecs
  <2> QED
    BY <1>1, <2>1 DEF Shape
<1>3. permits \in [Tenants -> 0..PerTenant]
  <2>1. ASSUME NEW t \in Tenants PROVE permits[t] \in 0..PerTenant
    <3>1. /\ permits[t] = Cardinality(GensOf(t)) + Cardinality(StartsOf(t)) /\ permits[t] <= PerTenant
          /\ Cardinality(GensOf(t)) \in Nat /\ Cardinality(StartsOf(t)) \in Nat
      BY <1>1, CountsFinite DEF AccountInv
    <3> QED
      BY <3>1, Constants
  <2> QED
    BY <1>1, <2>1 DEF Shape
<1> QED
  BY <1>1, <1>2, <1>3 DEF TypeOK, Shape, RuntimeRecs

(* No permit of the GenerationLimiter leaks and none is given back twice, over any number of
   failures, dropped calls, replaced runtimes and dropped refreshes. *)
THEOREM PermitsAreExact == Spec => []PermitsExact
<1>1. IInv => PermitsExact
  BY TypesBounded DEF IInv, AccountInv, PermitsExact
<1> QED
  BY <1>1, RuntimesConsistent, PTL

(* record_failure counts every generation that went down and every start that failed once, and
   a quarantined slot starts nothing again. *)
THEOREM BudgetChargedOnce == Spec => []ChargedOnce
<1>1. ASSUME IInv PROVE ChargedOnce
  <2>1. ASSUME NEW r \in Runtimes, NEW t \in Tenants
        PROVE  /\ spent[r][t] = Cardinality(StartsAt(r, t)) + (IF slot[r][t].gen = "none" THEN 0 ELSE 1)
               /\ slot[r][t].quarantined => spent[r][t] = 0
    <3>1. spent[r][t] = Cardinality(StartsAt(r, t)) + (IF slot[r][t].gen = "none" THEN 0 ELSE 1)
      BY <1>1 DEF IInv, SpentInv, Bit
    <3>2. ASSUME slot[r][t].quarantined PROVE spent[r][t] = 0
      <4>1. slot[r][t].gen = "none"
        BY <1>1, <3>2 DEF IInv, SlotInv, SlotFit
      <4>2. StartsAt(r, t) = {}
        BY <1>1, <3>2 DEF IInv, CallInv, CallHolds, SlotOf, StartsAt, StartsOf, Starting
      <4> QED
        BY <3>1, <4>1, <4>2, FS_EmptySet
    <3> QED
      BY <3>1, <3>2
  <2> QED
    BY <2>1 DEF ChargedOnce
<1> QED
  BY <1>1, RuntimesConsistent, PTL

(* drain_and_shutdown misses nobody, although process() looks at accepting, waits for the lock
   of the slot and looks again. *)
THEOREM DrainMissesNobody == Spec => []DrainedIsQuiet
<1>1. ASSUME IInv PROVE DrainedIsQuiet
  <2>1. ASSUME NEW r \in Runtimes, drain[r].pc = "done", NEW t \in Tenants
        PROVE  /\ slot[r][t].gen \notin Up
               /\ \A c \in Calls : call[c].r = r => call[c].pc \notin {"backoff", "start"}
    <3>1. \A u \in Tenants : Swept(r, u)
      BY <1>1, <2>1 DEF IInv, DrainInv
    <3>2. drain[r].victims = <<>>
      BY <1>1, <2>1 DEF IInv, DrainInv
    <3>3. slot[r][t].gen \notin Up
      BY <3>1, <3>2 DEF Swept
    <3>4. ASSUME NEW c \in Calls, call[c].r = r PROVE call[c].pc \notin {"backoff", "start"}
      BY <1>1, <3>1, <3>4 DEF IInv, CallInv, CallAt, Swept, Starting
    <3> QED
      BY <3>3, <3>4
  <2> QED
    BY <2>1 DEF DrainedIsQuiet
<1> QED
  BY <1>1, RuntimesConsistent, PTL

-----------------------------------------------------------------------------
(* What is published, while refreshes do not overlap. *)

(* A step that touches neither the selection nor a refresh. *)
LEMMA ServedFrame ==
    ASSUME JInv,
           lifecycle' = lifecycle, revision' = revision, registry' = registry, monitor' = monitor,
           admin' = admin, unfinished' = unfinished,
           \A r : r = monitor \/ (\E a \in Admins : r = admin[a].r) =>
              (r # None => runtime'[r].built = runtime[r].built)
    PROVE  JInv'
<1>1. ASSUME NEW r, r = monitor \/ (\E a \in Admins : r = admin[a].r) PROVE Current(r)' = Current(r)
  BY <1>1 DEF Current
<1>2. Current(monitor)' = Current(monitor)
  BY <1>1 DEF Current
<1>3. \A a \in Admins : Current(admin[a].r)' = Current(admin[a].r)
  BY <1>1 DEF Current
<1>4. ServeInv'
  BY DEF JInv, ServeInv, Settled
<1>5. CurrentInv'
  BY <1>2, <1>3 DEF JInv, CurrentInv, Settled
<1> QED
  BY <1>4, <1>5 DEF JInv

(* A step of the only refresh. *)
LEMMA ServedByOne ==
    ASSUME NEW a \in Admins,
           \A b \in Admins : b # a => admin'[b].pc = "idle",
           \A k \in Replaced(admin'[a].pc) : registry'[k] = admin'[a].r,
           admin'[a].pc \in {"idle", "restore"} /\ ~unfinished' =>
              Current(monitor)' /\ \A k \in Registries : registry'[k] = monitor',
           admin'[a].pc \in {"eager", "swap"} \cup Registries => Current(admin[a].r)',
           admin'[a].pc = "eager" => lifecycle' = "ready",
           admin'[a].pc = "rebuild" => lifecycle' = "quarantined" /\ admin'[a].r = None
    PROVE  JInv'
<1>1. Replaced("idle") = {} /\ "idle" \notin {"eager", "swap"} \cup Registries
  BY DEF Replaced, Registries
<1>2. ServeInv'
  BY <1>1 DEF ServeInv, Settled
<1>3. CurrentInv'
  BY <1>1 DEF CurrentInv, Settled
<1> QED
  BY <1>2, <1>3 DEF JInv

LEMMA OthersIdle ==
    ASSUME Shape, NEW a \in Admins, NEW x, admin' = [admin EXCEPT ![a] = x],
           (OneRefresh /\ admin[a].pc # "idle") \/ (OneRefresh' /\ x.pc # "idle")
    PROVE  /\ admin'[a] = x
           /\ \A b \in Admins : b # a => admin'[b] = admin[b] /\ admin[b].pc = "idle" /\ admin'[b].pc = "idle"
<1>1. admin'[a] = x /\ \A b \in Admins : b # a => admin'[b] = admin[b]
  BY DEF Shape
<1> QED
  BY <1>1 DEF OneRefresh

LEMMA InitJInv == Init => JInv /\ Undrained
<1> SUFFICES ASSUME Init PROVE JInv /\ Undrained
  OBVIOUS
<1>1. /\ \A a \in Admins : admin[a].pc = "idle"
      /\ monitor = 1 /\ lifecycle = "ready" /\ revision = 0 /\ \A k \in Registries : registry[k] = 1
  BY DEF Init, NoRefresh, Refresh
<1>2. runtime[1].built = 0 /\ drain[1].pc = "none"
  BY Constants DEF Init, Runtime, NoDrain, Drain
<1>3. Current(monitor)
  BY <1>1, <1>2 DEF Current, None
<1>4. Replaced("idle") = {} /\ "idle" \notin {"eager", "swap"} \cup Registries
  BY DEF Replaced, Registries
<1>5. JInv
  BY <1>1, <1>3, <1>4 DEF JInv, ServeInv, CurrentInv, Settled
<1> QED
  BY <1>1, <1>2, <1>5 DEF Undrained

(* What a refresh has replaced by the next step. *)
LEMMA ReplacedSteps ==
    /\ \A p \in {"idle", "build", "eager", "rebuild", "formatters", "restore"} : Replaced(p) = {}
    /\ \A p \in Registries : /\ Replaced(Registered[p]) = Replaced(p) \cup {p}
                             /\ Registered[p] \in {"actions", "providers", "swap"}
    /\ Replaced("swap") = Registries /\ \A p : Replaced(p) \subseteq Registries
<1>1. \A p : Replaced(p) \subseteq Registries
  BY DEF Replaced, Registries
<1>2. /\ Registered["formatters"] = "actions" /\ Registered["actions"] = "providers"
      /\ Registered["providers"] = "swap"
  BY DEF Registered
<1>3. /\ Replaced("formatters") = {} /\ Replaced("actions") = {"formatters"}
      /\ Replaced("providers") = {"formatters", "actions"} /\ Replaced("swap") = Registries
      /\ \A p \in {"idle", "build", "eager", "rebuild", "formatters", "restore"} : Replaced(p) = {}
  BY DEF Replaced
<1>4. \A p \in Registries : /\ Replaced(Registered[p]) = Replaced(p) \cup {p}
                            /\ Registered[p] \in {"actions", "providers", "swap"}
  BY <1>2, <1>3 DEF Registries
<1> QED
  BY <1>1, <1>3, <1>4

LEMMA RefreshStepServes ==
    ASSUME IInv, JInv, OneRefresh, NEW a \in Admins, AdminStep(a)
    PROVE  JInv'
<1>1. Shape /\ admin[a] \in RefreshRecs
  BY DEF IInv, Shape
<1>2. admin[a].pc # "idle"
  BY DEF AdminStep, Build, HydrationFails, EagerReady, EagerFailed, Rebuild, Publish, Refuse, Swap,
         Restore, Registries
<1>3. \A b \in Admins : b # a => admin[b].pc = "idle"
  BY <1>2 DEF OneRefresh
<1>5. ASSUME NEW p, NEW r, NEW l, admin' = [admin EXCEPT ![a] = Refresh(p, r, l)]
      PROVE  /\ admin'[a].pc = p /\ admin'[a].r = r
             /\ \A b \in Admins : b # a => admin'[b].pc = "idle"
  <2>1. admin'[a] = Refresh(p, r, l) /\ \A b \in Admins : b # a => admin'[b] = admin[b]
    BY <1>1, <1>5 DEF Shape
  <2>2. Refresh(p, r, l).pc = p /\ Refresh(p, r, l).r = r
    BY DEF Refresh
  <2> QED
    BY <1>3, <2>1, <2>2
<1>6. ASSUME Build(a) PROVE JInv'
  <2>1. /\ admin[a].pc = "build" /\ Unused # {}
        /\ lifecycle' = lifecycle /\ revision' = revision
    BY <1>6 DEF Build, store
  <2>2. CASE lifecycle = "ready"
    <3>1. PICK l : admin' = [admin EXCEPT ![a] = Refresh("eager", Fresh, l)]
      BY <1>6, <2>2 DEF Build
    <3>2. runtime' = [runtime EXCEPT ![Fresh] = Runtime(revision, TRUE)]
      BY <1>6, <2>2 DEF Build
    <3>3. Fresh \in Runtimes /\ Fresh # None
      BY <1>1, <2>1, FreshFree
    <3>4. runtime'[Fresh].built = revision
      BY <1>1, <3>2, <3>3 DEF Shape, Runtime
    <3>5. /\ admin'[a].pc = "eager" /\ admin'[a].r = Fresh
          /\ \A b \in Admins : b # a => admin'[b].pc = "idle"
      BY <1>5, <3>1
    <3>6. Current(admin[a].r)'
      BY <2>1, <2>2, <3>3, <3>4, <3>5 DEF Current
    <3> QED
      BY <2>1, <2>2, <3>5, <3>6, ReplacedSteps, ServedByOne
  <2>3. CASE lifecycle # "ready"
    <3>1. PICK l : admin' = [admin EXCEPT ![a] = Refresh("formatters", None, l)]
      BY <1>6, <2>3 DEF Build
    <3>2. /\ admin'[a].pc = "formatters" /\ admin'[a].r = None
          /\ \A b \in Admins : b # a => admin'[b].pc = "idle"
      BY <1>5, <3>1
    <3>3. Current(admin[a].r)'
      BY <2>1, <2>3, <3>2 DEF Current
    <3> QED
      BY <3>2, <3>3, ReplacedSteps, ServedByOne
  <2> QED
    BY <2>2, <2>3
<1>7. ASSUME HydrationFails(a) PROVE JInv'
  <2>1. lifecycle' = "quarantined"
    BY <1>7 DEF HydrationFails
  <2>2. PICK l : admin' = [admin EXCEPT ![a] = Refresh("formatters", None, l)]
    BY <1>7 DEF HydrationFails
  <2>3. /\ admin'[a].pc = "formatters" /\ admin'[a].r = None
        /\ \A b \in Admins : b # a => admin'[b].pc = "idle"
    BY <1>5, <2>2
  <2>4. Current(admin[a].r)'
    BY <2>1, <2>3 DEF Current
  <2> QED
    BY <2>3, <2>4, ReplacedSteps, ServedByOne
<1>8. ASSUME EagerFailed(a) PROVE JInv'
  <2>1. lifecycle' = "quarantined"
    BY <1>8 DEF EagerFailed
  <2>2. PICK l : admin' = [admin EXCEPT ![a] = Refresh("rebuild", None, l)]
    BY <1>8 DEF EagerFailed
  <2>3. /\ admin'[a].pc = "rebuild" /\ admin'[a].r = None
        /\ \A b \in Admins : b # a => admin'[b].pc = "idle"
    BY <1>5, <2>2
  <2> QED
    BY <2>1, <2>3, ReplacedSteps, ServedByOne DEF Registries
<1>9. ASSUME NEW p, AdminGoto(a, p)
      PROVE  /\ admin'[a].pc = p /\ admin'[a].r = admin[a].r
             /\ \A b \in Admins : b # a => admin'[b].pc = "idle"
  <2>1. admin'[a] = [admin[a] EXCEPT !.pc = p] /\ \A b \in Admins : b # a => admin'[b] = admin[b]
    BY <1>1, <1>9 DEF AdminGoto, Shape
  <2>2. admin'[a].pc = p /\ admin'[a].r = admin[a].r
    BY <1>1, <2>1 DEF RefreshRecs
  <2> QED
    BY <1>3, <2>1, <2>2
<1>10. ASSUME EagerReady(a) PROVE JInv'
  <2>1. /\ AdminGoto(a, "formatters") /\ runtime' = runtime /\ Current(admin[a].r)
        /\ lifecycle' = lifecycle /\ revision' = revision
    BY <1>10 DEF EagerReady, store, JInv, CurrentInv
  <2>2. /\ admin'[a].pc = "formatters" /\ admin'[a].r = admin[a].r
        /\ \A b \in Admins : b # a => admin'[b].pc = "idle"
    BY <1>9, <2>1
  <2>3. Current(admin[a].r)'
    BY <2>1, <2>2 DEF Current
  <2> QED
    BY <2>2, <2>3, ReplacedSteps, ServedByOne
<1>11. ASSUME Rebuild(a) PROVE JInv'
  <2>1. /\ lifecycle = "quarantined" /\ admin[a].r = None /\ lifecycle' = lifecycle
    BY <1>11 DEF Rebuild, store, JInv, CurrentInv
  <2>2. AdminGoto(a, "formatters")
    BY <1>11, <2>1 DEF Rebuild
  <2>3. /\ admin'[a].pc = "formatters" /\ admin'[a].r = None
        /\ \A b \in Admins : b # a => admin'[b].pc = "idle"
    BY <1>9, <2>1, <2>2
  <2>4. Current(admin[a].r)'
    BY <2>1, <2>3 DEF Current
  <2> QED
    BY <2>3, <2>4, ReplacedSteps, ServedByOne
<1>12. ASSUME Publish(a) PROVE JInv'
  <2> DEFINE p == admin[a].pc
             n == Registered[p]
  <2>1. /\ p \in Registries /\ registry' = [registry EXCEPT ![p] = admin[a].r] /\ AdminGoto(a, n)
        /\ runtime' = runtime /\ lifecycle' = lifecycle /\ revision' = revision
        /\ Current(admin[a].r) /\ \A k \in Replaced(p) : registry[k] = admin[a].r
    BY <1>12 DEF Publish, store, JInv, CurrentInv, ServeInv
  <2> HIDE DEF p, n
  <2>2. /\ admin'[a].pc = n /\ admin'[a].r = admin[a].r
        /\ \A b \in Admins : b # a => admin'[b].pc = "idle"
    BY <1>9, <2>1
  <2>3. Current(admin[a].r)'
    BY <2>1, <2>2 DEF Current
  <2>4. Replaced(n) = Replaced(p) \cup {p} /\ n \in {"actions", "providers", "swap"}
        /\ Replaced(n) \subseteq Registries
    BY <2>1, ReplacedSteps DEF n
  <2>5. \A k \in Replaced(n) : registry'[k] = admin[a].r
    BY <1>1, <2>1, <2>4 DEF Shape
  <2> QED
    BY <2>2, <2>3, <2>4, <2>5, ServedByOne
<1>13. ASSUME Refuse(a) PROVE JInv'
  <2>1. /\ admin' = [admin EXCEPT ![a] = NoRefresh] /\ registry' = registry /\ monitor' = monitor
        /\ runtime' = runtime /\ lifecycle' = lifecycle /\ revision' = revision
        /\ ~unfinished' => admin[a].pc = "restore" /\ ~unfinished
    BY <1>13 DEF Refuse, store, manager
  <2>2. /\ admin'[a].pc = "idle" /\ \A b \in Admins : b # a => admin'[b].pc = "idle"
    BY <1>5, <2>1 DEF NoRefresh
  <2>3. ASSUME ~unfinished' PROVE Current(monitor)' /\ \A k \in Registries : registry'[k] = monitor'
    <3>1. Settled
      BY <1>3, <2>1, <2>3 DEF Settled
    <3>2. Current(monitor) /\ \A k \in Registries : registry[k] = monitor
      BY <2>1, <2>3, <3>1 DEF JInv, ServeInv, CurrentInv
    <3> QED
      BY <2>1, <3>2 DEF Current
  <2> QED
    BY <2>2, <2>3, ReplacedSteps, ServedByOne DEF Registries
<1>14. ASSUME Swap(a) PROVE JInv'
  <2>1. /\ registry' = registry /\ monitor' = admin[a].r /\ runtime' = runtime
        /\ lifecycle' = lifecycle /\ revision' = revision /\ Current(admin[a].r)
        /\ \A k \in Registries : registry[k] = admin[a].r
    BY <1>14, ReplacedSteps DEF Swap, store, JInv, CurrentInv, ServeInv
  <2>2. PICK p \in {"restore", "idle"} : \E l : admin' = [admin EXCEPT ![a] = Refresh(p, None, l)]
    BY <1>14 DEF Swap
  <2>3. PICK l : admin' = [admin EXCEPT ![a] = Refresh(p, None, l)]
    BY <2>2
  <2>4. /\ admin'[a].pc = p /\ \A b \in Admins : b # a => admin'[b].pc = "idle"
    BY <1>5, <2>3
  <2>5. Current(monitor)' /\ \A k \in Registries : registry'[k] = monitor'
    BY <2>1 DEF Current
  <2> QED
    BY <2>2, <2>4, <2>5, ReplacedSteps, ServedByOne DEF Registries
<1>15. ASSUME Restore(a) PROVE JInv'
  <2>1. admin' = [admin EXCEPT ![a] = Refresh("build", None, "none")]
    BY <1>15 DEF Restore
  <2>2. /\ admin'[a].pc = "build" /\ \A b \in Admins : b # a => admin'[b].pc = "idle"
    BY <1>5, <2>1
  <2> QED
    BY <2>2, ReplacedSteps, ServedByOne DEF Registries
<1> QED
  BY <1>6, <1>7, <1>8, <1>10, <1>11, <1>12, <1>13, <1>14, <1>15 DEF AdminStep

LEMMA JKeeps == IInv /\ JInv /\ OneRefresh /\ OneRefresh' /\ [Next]_vars => JInv'
<1> SUFFICES ASSUME IInv, JInv, OneRefresh, OneRefresh', [Next]_vars PROVE JInv'
  OBVIOUS
<1> DEFINE Still == /\ lifecycle' = lifecycle /\ revision' = revision /\ registry' = registry
                    /\ monitor' = monitor /\ admin' = admin /\ unfinished' = unfinished
<1>1. Shape
  BY DEF IInv
<1>2. ASSUME Still, runtime' = runtime PROVE JInv'
  BY <1>2, ServedFrame
<1>3. ASSUME NEW c \in Calls,
             CallStep(c) \/ Cancel(c) \/ \E t \in Tenants, k \in Registries : Lookup(c, t, k)
      PROVE  JInv'
  <2>1. Still /\ runtime' = runtime
    BY <1>3 DEF CallStep, Enter, GetSlot, Lock, Inspect, Admit, Started, StartFailed, Cancel, Lookup,
                store, manager, history
  <2> QED
    BY <1>2, <2>1
<1>4. ASSUME NEW r \in Runtimes, NEW t \in Tenants, Fail(r, t) \/ Wedge(r, t) \/ Expire(r, t) PROVE JInv'
  BY <1>2, <1>4 DEF Fail, Wedge, Expire, store, manager, history
<1>5. ASSUME NEW a \in Admins, AdminStep(a) PROVE JInv'
  BY <1>5, RefreshStepServes
<1>6. ASSUME NEW a \in Admins, AbandonRefresh(a) PROVE JInv'
  <2>1. /\ admin[a].pc = "eager" /\ unfinished' = TRUE
        /\ admin' = [admin EXCEPT ![a] = NoRefresh]
    BY <1>6 DEF AbandonRefresh
  <2>2. /\ admin'[a] = NoRefresh /\ \A b \in Admins : b # a => admin'[b].pc = "idle"
    BY <1>1, <2>1, OthersIdle
  <2>3. admin'[a].pc = "idle"
    BY <2>2, NoRefreshFields
  <2> QED
    BY <2>1, <2>2, <2>3, ReplacedSteps, ServedByOne DEF Registries
<1>7. ASSUME NEW a \in Admins, Enable(a) \/ Disable(a) \/ Regrant(a) PROVE JInv'
  <2>1. PICK l, b : Begin(a, l, b)
    BY <1>7 DEF Enable, Disable, Regrant
  <2>2. admin' = [admin EXCEPT ![a] = Refresh("build", None, b)]
    BY <2>1 DEF Begin
  <2>3. Refresh("build", None, b).pc = "build"
    BY DEF Refresh
  <2>4. admin'[a].pc = "build" /\ \A d \in Admins : d # a => admin'[d].pc = "idle"
    BY <1>1, <2>2, <2>3, OthersIdle
  <2> QED
    BY <2>4, ReplacedSteps, ServedByOne DEF Registries
<1>8. ASSUME NEW r \in Runtimes, DrainStep(r) PROVE JInv'
  <2>1. CASE DrainClose(r)
    <3>1. Still /\ runtime' = [runtime EXCEPT ![r] = Runtime(@.built, FALSE)]
      BY <2>1 DEF DrainClose, store, manager, history
    <3>2. /\ monitor \in 0..MaxRuntimes /\ \A a \in Admins : admin[a].r \in 0..MaxRuntimes
      BY <1>1 DEF Shape, RefreshRecs
    <3>3. \A q \in Runtimes : runtime'[q].built = runtime[q].built
      BY <1>1, <3>1 DEF Shape, Runtime
    <3>4. \A q : q = monitor \/ (\E a \in Admins : q = admin[a].r) =>
              (q # None => runtime'[q].built = runtime[q].built)
      BY <3>2, <3>3, Constants
    <3> QED
      BY <3>1, <3>4, ServedFrame
  <2>2. CASE DrainList(r) \/ DrainShutdown(r) \/ \E t \in Tenants : DrainCollect(r, t)
    BY <1>2, <2>2 DEF DrainList, DrainShutdown, DrainCollect, store, manager, history
  <2> QED
    BY <1>8, <2>1, <2>2 DEF DrainStep
<1>9. ASSUME NEW r \in Runtimes, DropRuntime(r) PROVE JInv'
  <2>1. Still /\ runtime' = [runtime EXCEPT ![r] = NoRuntime]
        /\ monitor # r /\ \A a \in Admins : admin[a].r # r
    BY <1>9 DEF DropRuntime, store, manager
  <2>2. \A q : q # r => runtime'[q].built = runtime[q].built
    BY <1>1, <2>1 DEF Shape
  <2> QED
    BY <2>1, <2>2, ServedFrame
<1>10. CASE UNCHANGED vars
  BY <1>2, <1>10 DEF vars, store, manager, history
<1>11. CASE Next
  BY <1>3, <1>4, <1>5, <1>6, <1>7, <1>8, <1>9, <1>11 DEF Next
<1> QED
  BY <1>10, <1>11

(* Only a swap retires a runtime, and by then every registry names another one. *)
LEMMA UndrainedKeeps == IInv /\ JInv /\ Undrained /\ [Next]_vars => Undrained'
<1> SUFFICES ASSUME IInv, JInv, Undrained, [Next]_vars PROVE Undrained'
  OBVIOUS
<1>1. Shape /\ OwnInv /\ \A k \in Registries : registry[k] # None => registry[k] \in Runtimes
  BY Constants DEF IInv, Shape
<1>2. ASSUME registry' = registry, \A r \in Runtimes : drain[r].pc = "none" => drain'[r].pc = "none"
      PROVE  Undrained'
  BY <1>1, <1>2 DEF Undrained
<1>3. ASSUME NEW c \in Calls,
             CallStep(c) \/ Cancel(c) \/ \E t \in Tenants, k \in Registries : Lookup(c, t, k)
      PROVE  Undrained'
  <2>1. registry' = registry /\ drain' = drain
    BY <1>3 DEF CallStep, Enter, GetSlot, Lock, Inspect, Admit, Started, StartFailed, Cancel, Lookup,
                manager
  <2> QED
    BY <1>2, <2>1
<1>4. ASSUME NEW r \in Runtimes, NEW t \in Tenants, Fail(r, t) \/ Wedge(r, t) \/ Expire(r, t)
      PROVE  Undrained'
  BY <1>2, <1>4 DEF Fail, Wedge, Expire, manager
<1>5. ASSUME NEW a \in Admins, Publish(a) PROVE Undrained'
  <2>1. /\ registry' = [registry EXCEPT ![admin[a].pc] = admin[a].r] /\ drain' = drain
        /\ admin[a].r \in 0..MaxRuntimes
    BY <1>1, <1>5 DEF Publish, Shape, RefreshRecs
  <2>2. admin[a].r # None => drain[admin[a].r].pc = "none"
    BY <1>1, <2>1, Constants DEF OwnInv
  <2>3. \A k \in Registries : registry'[k] \in {registry[k], admin[a].r}
    BY <1>1, <2>1 DEF Shape
  <2> QED
    BY <2>1, <2>2, <2>3 DEF Undrained
<1>6. ASSUME NEW a \in Admins, Swap(a) PROVE Undrained'
  <2>1. /\ registry' = registry /\ Retire(monitor)
        /\ \A k \in Registries : registry[k] = admin[a].r
    BY <1>6, ReplacedSteps DEF Swap, JInv, ServeInv
  <2>2. monitor \in 0..MaxRuntimes
    BY <1>1 DEF Shape
  <2>3. \A q \in Runtimes : q # monitor => drain'[q] = drain[q]
    BY <1>1, <2>1, <2>2, RetireOK
  <2>4. admin[a].r = monitor => monitor = None
    BY <1>1 DEF OwnInv
  <2> QED
    BY <1>1, <2>1, <2>3, <2>4 DEF Undrained
<1>7. ASSUME NEW a \in Admins,
             \/ Build(a) \/ HydrationFails(a) \/ EagerReady(a) \/ EagerFailed(a) \/ Rebuild(a)
             \/ Refuse(a) \/ Restore(a) \/ AbandonRefresh(a)
      PROVE  Undrained'
  <2>1. registry' = registry /\ drain' = drain
    BY <1>7 DEF Build, HydrationFails, EagerReady, EagerFailed, Rebuild, Refuse, Restore,
                AbandonRefresh, manager
  <2> QED
    BY <1>2, <2>1
<1>8. ASSUME NEW a \in Admins, Enable(a) \/ Disable(a) \/ Regrant(a) PROVE Undrained'
  BY <1>2, <1>8 DEF Enable, Disable, Regrant, Begin, manager
<1>9. ASSUME NEW r \in Runtimes, DrainStep(r) PROVE Undrained'
  <2>1. registry' = registry /\ drain[r].pc # "none" /\ \E w : drain' = [drain EXCEPT ![r] = w]
    BY <1>9 DEF DrainStep, DrainClose, DrainList, DrainCollect, DrainShutdown, manager
  <2>2. \A q \in Runtimes : q # r => drain'[q] = drain[q]
    BY <1>1, <2>1 DEF Shape
  <2> QED
    BY <1>2, <2>1, <2>2
<1>10. ASSUME NEW r \in Runtimes, DropRuntime(r) PROVE Undrained'
  <2>1. registry' = registry /\ drain' = [drain EXCEPT ![r] = NoDrain] /\ NoDrain.pc = "none"
    BY <1>10 DEF DropRuntime, manager, NoDrain, Drain
  <2>2. \A q \in Runtimes : drain'[q] \in {drain[q], NoDrain}
    BY <1>1, <2>1 DEF Shape
  <2> QED
    BY <1>2, <2>1, <2>2
<1>11. CASE UNCHANGED vars
  BY <1>2, <1>11 DEF vars, manager
<1>12. CASE Next
  BY <1>3, <1>4, <1>5, <1>6, <1>7, <1>8, <1>9, <1>10, <1>12 DEF Next, AdminStep
<1> QED
  BY <1>11, <1>12

LEMMA PublishedAlways == Spec /\ []OneRefresh => [](IInv /\ JInv /\ Undrained)
<1>1. IInv /\ JInv /\ Undrained /\ OneRefresh /\ OneRefresh' /\ [Next]_vars => IInv' /\ JInv' /\ Undrained'
  BY NextKeeps, JKeeps, UndrainedKeeps
<1> QED
  BY <1>1, InitIInv, InitJInv, PTL DEF Spec

(* As long as no two refreshes overlap, no registry names a runtime that is being drained, also
   after refreshes that were dropped or refused between two replacements: every registry is
   replaced before the monitor is swapped, and only what the monitor watched is retired
   (refresh_extension_runtimes in session.rs). *)
THEOREM PublishedServes == Spec /\ []OneRefresh => []ServingAccepts
<1>1. ASSUME IInv, Undrained PROVE ServingAccepts
  <2>1. ASSUME NEW k \in Registries, registry[k] # None
        PROVE  runtime[registry[k]].accepting /\ drain[registry[k]].pc = "none"
    <3>1. registry[k] \in Runtimes
      BY <1>1, <2>1, Constants DEF IInv, Shape
    <3>2. drain[registry[k]].pc = "none"
      BY <1>1, <2>1 DEF Undrained
    <3>3. Used(registry[k])
      BY <1>1, <3>1 DEF IInv, RefInv
    <3> QED
      BY <1>1, <3>1, <3>2, <3>3 DEF IInv, DrainInv
  <2> QED
    BY <2>1 DEF ServingAccepts
<1> QED
  BY <1>1, PublishedAlways, PTL

(* As long as no two refreshes overlap, after one that was neither dropped nor refused halfway
   every registry names the runtime built from the selection in the store, or none when the
   selection is disabled or quarantined, whatever earlier refreshes left behind. *)
THEOREM PublishedCurrent == Spec /\ []OneRefresh => []ServingCurrent
<1>1. ASSUME JInv PROVE ServingCurrent
  <2>1. Settled /\ ~unfinished => Current(monitor) /\ \A k \in Registries : registry[k] = monitor
    BY <1>1 DEF JInv, ServeInv, CurrentInv
  <2> QED
    BY <2>1 DEF ServingCurrent, Current, Settled
<1> QED
  BY <1>1, PublishedAlways, PTL
=============================================================================
