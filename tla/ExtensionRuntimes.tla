------------------------- MODULE ExtensionRuntimes --------------------------
(***************************************************************************)
(* The runtimes of one installed extension                                 *)
(* (crates/server/src/extension_runtime.rs): the slot that holds a         *)
(* tenant's process generation, its restart budget and quarantine, the     *)
(* permits of the generation limiter (crates/plugin-host/src/lifecycle.rs),*)
(* and the refresh that replaces a runtime when an administrator changes   *)
(* the selection (crates/server/src/session.rs, http.rs): build, start the *)
(* eager generations, replace the registries one after the other, swap the *)
(* monitor, drain the previous runtime.  A refresh can end at each of these*)
(* steps, and what it has done by then stays.                              *)
(*                                                                         *)
(* A generation is "ready", "wedged" (ready, but it no longer reads its    *)
(* stdin) or "down"; what happens inside one is ExtensionProcess.          *)
(***************************************************************************)
EXTENDS Integers, Sequences, FiniteSets, Functions

CONSTANTS
    Tenants,        \* allowed tenants
    Eager,          \* those whose generation starts with the runtime, or {}
    Clients,        \* calls to process() on behalf of a user
    Admins,         \* requests of administrators that end in a refresh
    MaxFailures,    \* RestartPolicy.maximum_failures
    PerInstance,    \* GenerationLimits.per_instance
    PerExtension,   \* GenerationLimits.per_extension_tenants
    PerTenant,      \* GenerationLimits.per_extension_tenant
    MaxRuntimes,    \* runtimes in memory at a time (bound)
    Scenarios       \* changes, faults and clients of a behaviour (bounds)

Bounds == [changes : Nat, faults : Nat, clients : SUBSET Clients]

ASSUME RuntimesAssumption ==
    /\ IsFiniteSet(Tenants) /\ IsFiniteSet(Clients) /\ IsFiniteSet(Admins)
    /\ Eager \subseteq Tenants /\ MaxRuntimes > 0 /\ (Eager # {} => PerTenant > 0)
    /\ Clients \cap (Admins \X Tenants) = {}
    /\ \A n \in {MaxFailures, PerInstance, PerExtension, PerTenant, MaxRuntimes} : n \in Nat
    /\ Scenarios \subseteq Bounds

None == 0
Runtimes == 1..MaxRuntimes
Starts == Admins \X Eager          \* the tasks of start_eager
Calls == Clients \cup Starts
Registries == {"formatters", "actions", "providers"}

VARIABLES
    \* the selection in the metadata store
    lifecycle, revision,
    \* the session manager
    registry,     \* registry[k]: the runtime behind what is registered
    monitor,      \* the runtime of extension_runtime_monitor
    \* the runtimes
    runtime,      \* runtime[r]: [built, accepting]
    slot,         \* slot[r][t]: the TenantProcessSlot
    permits,      \* permits[t]: by_key of the limiter
    \* tasks
    call,         \* call[c]: progress of process()
    admin,        \* admin[a]: progress of a handler and its refresh
    drain,        \* drain[r]: progress of drain_and_shutdown
    \* history
    left,         \* what is left of the bounds of the scenario
    spent,        \* spent[r][t]: starts that no failure was recorded for
    unfinished    \* the last refresh ended before the monitor was swapped

store == <<lifecycle, revision>>
manager == <<registry, monitor>>
history == <<left, spent, unfinished>>
vars == <<store, manager, runtime, slot, permits, call, admin, drain, history>>

Call(p, r, t, ok) == [pc |-> p, r |-> r, t |-> t, ok |-> ok]
NoCall == Call("idle", None, None, FALSE)
Slot(h, l, g, n, q) == [here |-> h, lock |-> l, gen |-> g, fails |-> n, quarantined |-> q]
NewSlot == Slot(FALSE, FALSE, "none", 0, FALSE)
Runtime(b, acc) == [built |-> b, accepting |-> acc]
NoRuntime == Runtime(-1, FALSE)
Refresh(p, r, l) == [pc |-> p, r |-> r, restore |-> l]
NoRefresh == Refresh("idle", None, "none")
Drain(p, ts, vs) == [pc |-> p, todo |-> ts, victims |-> vs]
NoDrain == Drain("none", {}, <<>>)
Up == {"ready", "wedged"}
Faulted == [left EXCEPT !.faults = @ - 1]

\* After the refresh of a server start: the first runtime serves and its eager
\* generations are up.
Init ==
    /\ lifecycle = "ready" /\ revision = 0
    /\ registry = [k \in Registries |-> 1] /\ monitor = 1
    /\ runtime = [r \in Runtimes |->
          IF r = 1 THEN Runtime(0, TRUE) ELSE NoRuntime]
    /\ slot = [r \in Runtimes |-> [t \in Tenants |->
          IF r = 1 /\ t \in Eager THEN Slot(TRUE, FALSE, "ready", 0, FALSE)
          ELSE NewSlot]]
    /\ permits = [t \in Tenants |-> IF t \in Eager THEN 1 ELSE 0]
    /\ call = [c \in Calls |-> NoCall]
    /\ admin = [a \in Admins |-> NoRefresh]
    /\ drain = [r \in Runtimes |-> NoDrain]
    /\ left \in Scenarios /\ unfinished = FALSE
    /\ spent = [r \in Runtimes |-> [t \in Tenants |->
          IF r = 1 /\ t \in Eager THEN 1 ELSE 0]]

-----------------------------------------------------------------------------
(* The generation limiter.                                                 *)

\* acquire: the instance, then the tenant, then the extension.
Admissible(t) ==
    /\ SumFunction(permits) < PerInstance
    /\ permits[t] < PerTenant
    /\ permits[t] > 0 \/ Cardinality({u \in Tenants : permits[u] > 0}) < PerExtension

Acquire(t) == permits' = [permits EXCEPT ![t] = @ + 1]

\* The drop of a GenerationPermit.
Release(t) == permits' = [permits EXCEPT ![t] = @ - 1]

-----------------------------------------------------------------------------
(* ExtensionProcessRuntime::process.                                       *)

\* record_failure: one more in the window, then a backoff (retry_at, which only
\* says how long the next caller sleeps) or the quarantine.
Charge(s) == Slot(s.here, s.lock, s.gen, s.fails + 1, s.fails >= MaxFailures)

Goto(c, p) == call' = [call EXCEPT ![c].pc = p]

\* process() returns; a task of start_eager leaves its result behind.
Return(c, ok) ==
    call' = [call EXCEPT ![c] = IF c \in Starts THEN Call("done", @.r, @.t, ok)
                                ELSE NoCall]

SetSlot(c, s) == slot' = [slot EXCEPT ![call[c].r][call[c].t] = s]
SlotOf(c) == slot[call[c].r][call[c].t]
Unlocked(s) == [s EXCEPT !.lock = FALSE]

Spend(c, n) == spent' = [spent EXCEPT ![call[c].r][call[c].t] = @ + n]

\* A call for a tenant goes to the runtime that one of the registries names.
Lookup(c, t, k) ==
    /\ call[c].pc = "idle" /\ c \in left.clients /\ registry[k] # None
    /\ call' = [call EXCEPT ![c] = Call("enter", registry[k], t, FALSE)]
    /\ UNCHANGED <<store, manager, runtime, slot, permits, admin, drain, history>>

\* The first look at accepting, before the tenant is checked.
Enter(c) ==
    /\ call[c].pc = "enter"
    /\ IF runtime[call[c].r].accepting THEN Goto(c, "slot") ELSE Return(c, FALSE)
    /\ UNCHANGED <<store, manager, runtime, slot, permits, admin, drain, history>>

\* The tenant's entry, made on first use.
GetSlot(c) ==
    /\ call[c].pc = "slot"
    /\ SetSlot(c, [SlotOf(c) EXCEPT !.here = TRUE])
    /\ Goto(c, "wait")
    /\ UNCHANGED <<store, manager, runtime, permits, admin, drain, history>>

Lock(c) ==
    /\ call[c].pc = "wait" /\ ~SlotOf(c).lock
    /\ SetSlot(c, [SlotOf(c) EXCEPT !.lock = TRUE])
    /\ Goto(c, "locked")
    /\ UNCHANGED <<store, manager, runtime, permits, admin, drain, history>>

\* A generation that went down is dropped, with its permit, and recorded.  A
\* quarantined slot refuses.
Replace(c) ==
    LET gone == SlotOf(c).gen = "down"
        s == IF gone THEN Charge([SlotOf(c) EXCEPT !.gen = "none"]) ELSE SlotOf(c)
    IN  /\ IF s.quarantined
           THEN Return(c, FALSE) /\ SetSlot(c, Unlocked(s))
           ELSE Goto(c, "backoff") /\ SetSlot(c, s)
        /\ IF gone THEN Release(call[c].t) /\ Spend(c, -1)
           ELSE UNCHANGED <<permits, spent>>

\* The slot is left as it is.
Leave(c, ok) ==
    Return(c, ok) /\ SetSlot(c, Unlocked(SlotOf(c))) /\ UNCHANGED <<permits, spent>>

\* As Inspect, without the second look at accepting.
InspectOnce(c) ==
    /\ call[c].pc = "locked"
    /\ IF SlotOf(c).gen \in Up THEN Leave(c, TRUE) ELSE Replace(c)
    /\ UNCHANGED <<store, manager, runtime, admin, drain, left, unfinished>>

\* As Inspect, with a generation that went down not recorded.
InspectUncharged(c) ==
    /\ call[c].pc = "locked" /\ runtime[call[c].r].accepting /\ SlotOf(c).gen \notin Up
    /\ SetSlot(c, [SlotOf(c) EXCEPT !.gen = "none"])
    /\ IF SlotOf(c).gen = "down" THEN Release(call[c].t) ELSE UNCHANGED permits
    /\ Goto(c, "backoff")
    /\ UNCHANGED <<store, manager, runtime, admin, drain, history>>

\* Under the lock of the slot: the second look at accepting, then the healthy
\* generation, or what replaces one.
Inspect(c) ==
    /\ call[c].pc = "locked"
    /\ IF ~runtime[call[c].r].accepting THEN Leave(c, FALSE)
       ELSE IF SlotOf(c).gen \in Up THEN Leave(c, TRUE)
       ELSE Replace(c)
    /\ UNCHANGED <<store, manager, runtime, admin, drain, left, unfinished>>

\* The sleep of the backoff is over; the limiter admits or refuses.
Admit(c) ==
    /\ call[c].pc = "backoff"
    /\ IF Admissible(call[c].t)
       THEN Acquire(call[c].t) /\ Spend(c, 1) /\ Goto(c, "start") /\ UNCHANGED slot
       ELSE Leave(c, FALSE)
    /\ UNCHANGED <<store, manager, runtime, admin, drain, left, unfinished>>

\* SupervisedProcess::start: the handshake succeeds.
Started(c) ==
    /\ call[c].pc = "start"
    /\ SetSlot(c, Unlocked([SlotOf(c) EXCEPT !.gen = "ready"]))
    /\ Return(c, TRUE)
    /\ UNCHANGED <<store, manager, runtime, permits, admin, drain, history>>

\* As StartFailed, with the permit kept.
StartFailedLeaks(c) ==
    /\ call[c].pc = "start" /\ left.faults > 0
    /\ SetSlot(c, Unlocked(Charge(SlotOf(c))))
    /\ Return(c, FALSE) /\ Spend(c, -1)
    /\ left' = Faulted
    /\ UNCHANGED <<store, manager, runtime, permits, admin, drain, unfinished>>

\* It fails or times out: recorded, and the permit is dropped.
StartFailed(c) ==
    /\ call[c].pc = "start" /\ left.faults > 0
    /\ SetSlot(c, Unlocked(Charge(SlotOf(c))))
    /\ Release(call[c].t) /\ Return(c, FALSE) /\ Spend(c, -1)
    /\ left' = Faulted
    /\ UNCHANGED <<store, manager, runtime, admin, drain, unfinished>>

Holding == {"locked", "backoff", "start"}

\* The client goes away and the future of process() is dropped.  A start
\* under way takes its child and its permit with it; nothing is recorded.
Cancel(c) ==
    /\ c \in Clients /\ call[c].pc \in {"slot", "wait", "backoff", "start"}
    /\ IF call[c].pc \in Holding THEN SetSlot(c, Unlocked(SlotOf(c))) ELSE UNCHANGED slot
    /\ IF call[c].pc = "start" THEN Release(call[c].t) /\ Spend(c, -1)
       ELSE UNCHANGED <<permits, spent>>
    /\ Return(c, FALSE)
    /\ UNCHANGED <<store, manager, runtime, admin, drain, left, unfinished>>

CallStep(c) ==
    \/ Enter(c) \/ GetSlot(c) \/ Lock(c) \/ Inspect(c) \/ Admit(c)
    \/ Started(c) \/ StartFailed(c)

-----------------------------------------------------------------------------
(* Generations.                                                            *)

\* A generation crashes, breaks the protocol, misses heartbeats or is killed.
Fail(r, t) ==
    /\ slot[r][t].gen \in Up /\ left.faults > 0
    /\ slot' = [slot EXCEPT ![r][t].gen = "down"]
    /\ left' = Faulted
    /\ UNCHANGED <<store, manager, runtime, permits, call, admin, drain, spent,
                   unfinished>>

\* It stops reading.
Wedge(r, t) ==
    /\ slot[r][t].gen = "ready" /\ left.faults > 0
    /\ slot' = [slot EXCEPT ![r][t].gen = "wedged"]
    /\ left' = Faulted
    /\ UNCHANGED <<store, manager, runtime, permits, call, admin, drain, spent,
                   unfinished>>

\* A failure leaves the window of the restart budget.
Expire(r, t) ==
    /\ slot[r][t].fails > 0
    /\ slot' = [slot EXCEPT ![r][t].fails = @ - 1]
    /\ UNCHANGED <<store, manager, runtime, permits, call, admin, drain, history>>

-----------------------------------------------------------------------------
(* The handlers of http.rs and refresh_extension_runtimes.                 *)

AdminGoto(a, p) == admin' = [admin EXCEPT ![a].pc = p]
Unused == {r \in Runtimes : runtime[r] = NoRuntime}
Fresh == CHOOSE r \in Unused : \A q \in Unused : r <= q

\* What a handler writes before it refreshes, and what it restores if the
\* activation fails.
Begin(a, l, restore) ==
    /\ admin[a].pc = "idle" /\ left.changes > 0
    /\ lifecycle' = l /\ revision' = revision + 1
    /\ left' = [left EXCEPT !.changes = @ - 1]
    /\ admin' = [admin EXCEPT ![a] = Refresh("build", None, restore)]
    /\ UNCHANGED <<manager, runtime, slot, permits, call, drain, spent, unfinished>>

\* Enabled, or rolled back to the previous archive.
Enable(a) == Begin(a, "ready", lifecycle)

\* Disabled, rolled back while disabled, or uninstalled.
Disable(a) == Begin(a, "disabled", "none")

\* Other grants or tenants: the lifecycle stays, and nothing is restored.
Regrant(a) == Begin(a, lifecycle, "none")

\* installed_extension_runtimes, then the eager tasks.
Build(a) ==
    /\ admin[a].pc = "build" /\ Unused # {}
    /\ IF lifecycle = "ready"
       THEN /\ runtime' = [runtime EXCEPT ![Fresh] = Runtime(revision, TRUE)]
            /\ admin' = [admin EXCEPT ![a] = Refresh("eager", Fresh, @.restore)]
            /\ call' = [c \in Calls |->
                  IF c \in Starts /\ c[1] = a
                  THEN Call("enter", Fresh, c[2], FALSE)
                  ELSE call[c]]
       ELSE /\ admin' = [admin EXCEPT ![a] = Refresh("formatters", None, @.restore)]
            /\ UNCHANGED <<runtime, call>>
    /\ UNCHANGED <<store, manager, slot, permits, drain, history>>

\* The package does not hydrate: the selection is quarantined, which leaves
\* nothing to publish.  (A store that refuses this write is only logged; that
\* is left out.)
HydrationFails(a) ==
    /\ admin[a].pc \in {"build", "rebuild"} /\ lifecycle = "ready" /\ left.faults > 0
    /\ lifecycle' = "quarantined" /\ revision' = revision + 1
    /\ admin' = [admin EXCEPT ![a] = Refresh("formatters", None, @.restore)]
    /\ left' = Faulted
    /\ UNCHANGED <<manager, runtime, slot, permits, call, drain, spent, unfinished>>

MyStarts(a) == {c \in Starts : c[1] = a}
EagerEnded(a) == \A c \in MyStarts(a) : call[c].pc = "done"
Forget(a) == call' = [c \in Calls |-> IF c \in MyStarts(a) THEN NoCall ELSE call[c]]

\* Every eager generation is up.
EagerReady(a) ==
    /\ admin[a].pc = "eager" /\ EagerEnded(a)
    /\ \A c \in MyStarts(a) : call[c].ok
    /\ AdminGoto(a, "formatters") /\ Forget(a)
    /\ UNCHANGED <<store, manager, runtime, slot, permits, drain, history>>

\* As EagerFailed, with the runtime that failed published.
EagerFailedPublished(a) ==
    /\ admin[a].pc = "eager" /\ EagerEnded(a)
    /\ \E c \in MyStarts(a) : ~call[c].ok
    /\ lifecycle' = "quarantined" /\ revision' = revision + 1
    /\ AdminGoto(a, "formatters") /\ Forget(a)
    /\ UNCHANGED <<manager, runtime, slot, permits, drain, history>>

\* One is not: the selection is quarantined and the runtime given up.
EagerFailed(a) ==
    /\ admin[a].pc = "eager" /\ EagerEnded(a)
    /\ \E c \in MyStarts(a) : ~call[c].ok
    /\ lifecycle' = "quarantined" /\ revision' = revision + 1
    /\ admin' = [admin EXCEPT ![a] = Refresh("rebuild", None, @.restore)] /\ Forget(a)
    /\ UNCHANGED <<manager, runtime, slot, permits, drain, history>>

\* installed_extension_runtimes again, without the eager tasks.
Rebuild(a) ==
    /\ admin[a].pc = "rebuild"
    /\ IF lifecycle = "ready"
       THEN /\ Unused # {}
            /\ runtime' = [runtime EXCEPT ![Fresh] = Runtime(revision, TRUE)]
            /\ admin' = [admin EXCEPT ![a] = Refresh("formatters", Fresh, @.restore)]
       ELSE AdminGoto(a, "formatters") /\ UNCHANGED runtime
    /\ UNCHANGED <<store, manager, slot, permits, call, drain, history>>

Retire(r) ==
    drain' = IF r = None THEN drain
             ELSE [drain EXCEPT ![r] = Drain("close", @.todo, @.victims)]

Registered == [formatters |-> "actions", actions |-> "providers", providers |-> "swap"]

\* As Publish, with the drain of the previous runtime spawned by the first.
RetireThenPublish(a) ==
    /\ admin[a].pc \in Registries
    /\ registry' = [registry EXCEPT ![admin[a].pc] = admin[a].r]
    /\ IF admin[a].pc = "formatters" THEN Retire(monitor) ELSE UNCHANGED drain
    /\ AdminGoto(a, Registered[admin[a].pc])
    /\ UNCHANGED <<store, monitor, runtime, slot, permits, call, history>>

\* Formatters, actions, tools and providers are replaced one after the other.
\* A tool names an action and holds no runtime.
Publish(a) ==
    /\ admin[a].pc \in Registries
    /\ registry' = [registry EXCEPT ![admin[a].pc] = admin[a].r]
    /\ AdminGoto(a, Registered[admin[a].pc])
    /\ UNCHANGED <<store, monitor, runtime, slot, permits, call, drain, history>>

\* A `?` of the refresh: the store, or a registry that refuses what it is
\* given, of this extension or of another (tools count as providers).  The
\* handler returns the error; the selection and the registries replaced so
\* far stay, and no monitor knows the runtime that was built.
Refuse(a) ==
    /\ \/ admin[a].pc \in {"build", "rebuild", "restore"} \cup Registries
       \/ /\ admin[a].pc = "eager" /\ EagerEnded(a)
          /\ \E c \in MyStarts(a) : ~call[c].ok
    /\ left.faults > 0
    /\ admin' = [admin EXCEPT ![a] = NoRefresh] /\ Forget(a)
    /\ left' = Faulted /\ unfinished' = (unfinished \/ admin[a].pc # "restore")
    /\ UNCHANGED <<store, manager, runtime, slot, permits, drain, spent>>

\* The monitor is swapped and the drain of the previous runtime spawned.  A
\* selection whose activation failed is then restored.
Swap(a) ==
    /\ admin[a].pc = "swap"
    /\ monitor' = admin[a].r /\ Retire(monitor)
    /\ admin' = [admin EXCEPT ![a] =
          Refresh(IF @.restore # "none" /\ lifecycle = "quarantined" THEN "restore"
                  ELSE "idle", None, @.restore)]
    /\ unfinished' = FALSE
    /\ UNCHANGED <<store, registry, runtime, slot, permits, call, left, spent>>

\* The handler puts the previous selection back and refreshes once more.
Restore(a) ==
    /\ admin[a].pc = "restore"
    /\ lifecycle' = admin[a].restore /\ revision' = revision + 1
    /\ admin' = [admin EXCEPT ![a] = Refresh("build", None, "none")]
    /\ UNCHANGED <<manager, runtime, slot, permits, call, drain, history>>

\* The administrator's client goes away during start_eager: the tasks are
\* aborted with what they hold and nothing is published.
AbandonRefresh(a) ==
    /\ admin[a].pc = "eager"
    /\ LET r == admin[a].r
           at(t) == IF <<a, t>> \in Starts THEN call[<<a, t>>].pc ELSE "idle"
       IN  /\ slot' = [slot EXCEPT ![r] = [t \in Tenants |->
                  IF at(t) \in Holding THEN Unlocked(slot[r][t]) ELSE slot[r][t]]]
           /\ permits' = [t \in Tenants |->
                  IF at(t) = "start" THEN permits[t] - 1 ELSE permits[t]]
           /\ spent' = [spent EXCEPT ![r] = [t \in Tenants |->
                  IF at(t) = "start" THEN spent[r][t] - 1 ELSE spent[r][t]]]
    /\ Forget(a)
    /\ admin' = [admin EXCEPT ![a] = NoRefresh]
    /\ unfinished' = TRUE
    /\ UNCHANGED <<store, manager, runtime, drain, left>>

AdminStep(a) ==
    \/ Build(a) \/ HydrationFails(a) \/ EagerReady(a) \/ EagerFailed(a) \/ Rebuild(a)
    \/ Publish(a) \/ Refuse(a) \/ Swap(a) \/ Restore(a)

-----------------------------------------------------------------------------
(* drain_and_shutdown.                                                     *)

\* accepting.store(false)
DrainClose(r) ==
    /\ drain[r].pc = "close"
    /\ runtime' = [runtime EXCEPT ![r] = Runtime(@.built, FALSE)]
    /\ drain' = [drain EXCEPT ![r] = Drain("list", @.todo, @.victims)]
    /\ UNCHANGED <<store, manager, slot, permits, call, admin, history>>

\* The slots there are.
DrainList(r) ==
    /\ drain[r].pc = "list"
    /\ drain' = [drain EXCEPT ![r] =
          Drain("collect", {t \in Tenants : slot[r][t].here}, @.victims)]
    /\ UNCHANGED <<store, manager, runtime, slot, permits, call, admin, history>>

\* Each of them, under its lock: begin_drain.
DrainCollect(r, t) ==
    /\ drain[r].pc = "collect" /\ t \in drain[r].todo
    /\ ~slot[r][t].lock
    /\ drain' = [drain EXCEPT ![r] = Drain("collect", @.todo \ {t},
          IF slot[r][t].gen = "none" THEN @.victims ELSE Append(@.victims, t))]
    /\ UNCHANGED <<store, manager, runtime, slot, permits, call, admin, history>>

\* As DrainShutdown, waiting for a generation that is gone to answer.
DrainShutdownAwaits(r) ==
    /\ drain[r].pc = "collect" /\ drain[r].todo = {}
    /\ IF drain[r].victims = <<>>
       THEN drain' = [drain EXCEPT ![r] = Drain("done", {}, <<>>)] /\ UNCHANGED slot
       ELSE LET t == Head(drain[r].victims)
            IN  /\ slot[r][t].gen = "ready"
                /\ slot' = [slot EXCEPT ![r][t].gen = "down"]
                /\ drain' = [drain EXCEPT ![r] = Drain("collect", {}, Tail(@.victims))]
    /\ UNCHANGED <<store, manager, runtime, permits, call, admin, history>>

\* After the calls under way have ended or the deadline has passed: shutdown,
\* one generation after the other.  A wedged one does not take the message.
DrainShutdown(r) ==
    /\ drain[r].pc = "collect" /\ drain[r].todo = {}
    /\ IF drain[r].victims = <<>>
       THEN drain' = [drain EXCEPT ![r] = Drain("done", {}, <<>>)] /\ UNCHANGED slot
       ELSE LET t == Head(drain[r].victims)
            IN  /\ slot[r][t].gen # "wedged"
                /\ slot' = [slot EXCEPT ![r][t].gen = "down"]
                /\ drain' = [drain EXCEPT ![r] = Drain("collect", {}, Tail(@.victims))]
    /\ UNCHANGED <<store, manager, runtime, permits, call, admin, history>>

DrainStep(r) ==
    \/ DrainClose(r) \/ DrainList(r) \/ DrainShutdown(r)
    \/ \E t \in Tenants : DrainCollect(r, t)

\* The last reference to a runtime goes: its slots and their permits with it.
\* A generation that is still up, in a runtime that was given up and so never
\* drained, lives on without a permit for as long as it is healthy: the task
\* that watches its health holds the process.
DropRuntime(r) ==
    /\ runtime[r] # NoRuntime /\ monitor # r /\ \A k \in Registries : registry[k] # r
    /\ \A a \in Admins : admin[a].r # r
    /\ \A c \in Calls : call[c].r # r
    /\ drain[r].pc \in {"none", "done"}
    /\ permits' = [t \in Tenants |->
          IF slot[r][t].gen = "none" THEN permits[t] ELSE permits[t] - 1]
    /\ runtime' = [runtime EXCEPT ![r] = NoRuntime]
    /\ slot' = [slot EXCEPT ![r] = [t \in Tenants |-> NewSlot]]
    /\ spent' = [spent EXCEPT ![r] = [t \in Tenants |-> 0]]
    /\ drain' = [drain EXCEPT ![r] = NoDrain]
    /\ UNCHANGED <<store, manager, call, admin, left, unfinished>>

-----------------------------------------------------------------------------
Next ==
    \/ \E c \in Calls :
          \/ CallStep(c) \/ Cancel(c)
          \/ \E t \in Tenants, k \in Registries : Lookup(c, t, k)
    \/ \E r \in Runtimes, t \in Tenants : Fail(r, t) \/ Wedge(r, t) \/ Expire(r, t)
    \/ \E a \in Admins :
          \/ AdminStep(a) \/ AbandonRefresh(a)
          \/ Enable(a) \/ Disable(a) \/ Regrant(a)
    \/ \E r \in Runtimes : DrainStep(r) \/ DropRuntime(r)

\* Calls, refreshes and drains run on the executor; a start ends with its
\* handshake timeout; the mutex of a slot is granted in order.
Fairness ==
    /\ \A c \in Calls : SF_vars(CallStep(c))
    /\ \A a \in Admins : WF_vars(AdminStep(a))
    /\ \A r \in Runtimes : SF_vars(DrainStep(r))

Spec == Init /\ [][Next]_vars /\ Fairness

-----------------------------------------------------------------------------
(* Properties.                                                             *)

CallPcs == {"idle", "enter", "slot", "wait", "done"} \cup Holding
Lifecycles == {"ready", "disabled", "quarantined"}

SlotRecs == [here : BOOLEAN, lock : BOOLEAN, gen : Up \cup {"none", "down"},
             fails : 0..MaxFailures + 1, quarantined : BOOLEAN]
CallRecs == [pc : CallPcs, r : 0..MaxRuntimes, t : Tenants \cup {None}, ok : BOOLEAN]
AdminPcs == {"idle", "build", "eager", "rebuild", "swap", "restore"} \cup Registries
RefreshRecs == [pc : AdminPcs, r : 0..MaxRuntimes, restore : Lifecycles \cup {"none"}]
DrainRecs == [pc : {"none", "close", "list", "collect", "done"}, todo : SUBSET Tenants,
              victims : Seq(Tenants)]

\* Type invariant of the store, the runtimes and the tasks.
TypeOK ==
    /\ lifecycle \in Lifecycles /\ revision \in Nat
    /\ registry \in [Registries -> 0..MaxRuntimes] /\ monitor \in 0..MaxRuntimes
    /\ runtime \in [Runtimes -> [built : Nat \cup {-1}, accepting : BOOLEAN]]
    /\ slot \in [Runtimes -> [Tenants -> SlotRecs]]
    /\ permits \in [Tenants -> 0..PerTenant]
    /\ call \in [Calls -> CallRecs]
    /\ admin \in [Admins -> RefreshRecs]
    /\ drain \in [Runtimes -> DrainRecs]
    /\ left \in Bounds /\ unfinished \in BOOLEAN
    /\ spent \in [Runtimes -> [Tenants -> Int]]

StartsOf(t) == {c \in Calls : call[c].pc = "start" /\ call[c].t = t}
StartsAt(r, t) == {c \in StartsOf(t) : call[c].r = r}
GensOf(t) == {r \in Runtimes : slot[r][t].gen # "none"}

\* The limiter counts exactly the generations that slots hold and the starts
\* under way, over all runtimes, whatever failed, was cancelled or was
\* replaced: no permit leaks, none is given back twice.  Stated with the type
\* invariant, which keeps the count under the tenant's limit.
PermitsExact ==
    /\ TypeOK
    /\ \A t \in Tenants :
          permits[t] = Cardinality(GensOf(t)) + Cardinality(StartsOf(t))

\* The restart budget is charged once for every generation that went down and
\* every start that failed, however many callers notice; a quarantined slot
\* starts nothing again.
ChargedOnce ==
    \A r \in Runtimes, t \in Tenants :
        /\ spent[r][t] = Cardinality(StartsAt(r, t)) + (IF slot[r][t].gen = "none" THEN 0 ELSE 1)
        /\ slot[r][t].quarantined => spent[r][t] = 0

\* The drain misses nobody: once it is through, no generation of its runtime
\* is up, none is being started, and so none ever will be, although calls
\* raced it past the first look at accepting.
DrainedIsQuiet ==
    \A r \in Runtimes : drain[r].pc = "done" =>
        \A t \in Tenants :
            /\ slot[r][t].gen \notin Up
            /\ \A c \in Calls : call[c].r = r => call[c].pc \notin {"backoff", "start"}

\* What is published serves: no registry ever names a runtime that is being
\* drained, also when a refresh ended between two replacements.
ServingAccepts ==
    \A k \in Registries : registry[k] # None =>
        runtime[registry[k]].accepting /\ drain[registry[k]].pc = "none"

\* When no refresh is under way and the last one was neither dropped nor
\* refused halfway, every registry names the runtime built from the selection
\* in the store, and the monitor watches it, whatever earlier refreshes left.
ServingCurrent ==
    (\A a \in Admins : admin[a].pc = "idle") /\ ~unfinished =>
        /\ \A k \in Registries : registry[k] = monitor
        /\ IF lifecycle = "ready"
           THEN monitor # None /\ runtime[monitor].built = revision
           ELSE monitor = None

\* A drain ends, and with it every generation of the replaced runtime, unless
\* one of them does not take its Shutdown message: that one holds up those
\* behind it.
DrainEnds ==
    \A r \in Runtimes :
        drain[r].pc # "none" ~>
            drain[r].pc = "done" \/ \E t \in Tenants : slot[r][t].gen = "wedged"

=============================================================================
