---------------------------- MODULE RunSchedule ----------------------------
(***************************************************************************)
(* Scheduled runs: the rows of run_schedule, schedule_occurrence and       *)
(* run_execution, the one scheduler task that moves them (scheduler.rs),   *)
(* one executor task per run (run_executor.rs), and the HTTP handlers that *)
(* edit, delete, resume, start and cancel beside them.  Every call of      *)
(* MetadataStore is one SQLite transaction, hence one atomic step; a crash *)
(* may fall between any two of them.  The rows survive it, the tasks and   *)
(* the map of cancellation tokens do not.                                  *)
(*                                                                         *)
(* All schedules belong to one owner.  A revision conflict changes nothing *)
(* and is left out, so an edit acts on the current row.  Row ids are never *)
(* reused here: a deleted occurrence keeps its place with state "gone".    *)
(***************************************************************************)
EXTENDS Integers, Sequences, FiniteSets

CONSTANTS
    Schedules,      \* ids of run_schedule rows, numbers: the due list is ordered
    Policies,       \* concurrency policies a schedule may be given
    Misfire,        \* "skip" or "run_once"
    Grace,          \* the minute after which a fire counts as missed
    Limit,          \* how many queued rows a claim looks at (100 in the code)
    Retain,         \* how many occurrences a schedule keeps (1000 in the code)
    TxPolicy,       \* "none", "per_script" or "all_scripts"
    MaxRuns,        \* how many runs are ever created (bound)
    Scenarios       \* how much of what the environment does together (bounds)

ASSUME SchedulesAssumption == Schedules \subseteq Nat /\ IsFiniteSet(Schedules)
Events == {"minute", "crash", "edit", "revoke", "resume", "foreground", "cancel"}
ASSUME BoundsAssumption ==
    /\ {Grace, MaxRuns} \subseteq Nat
    /\ {Limit, Retain} \subseteq Nat \ {0}
    /\ Scenarios \subseteq [Events -> Nat]
ASSUME PoliciesAssumption ==
    /\ \A p \in Policies : p.kind \in {"forbid", "queue_one", "parallel"} /\ p.max \in Nat \ {0}
    /\ TxPolicy \in {"none", "per_script", "all_scripts"}
    /\ Misfire \in {"skip", "run_once"}

VARIABLES
    clock,      \* the scheduler's clock
    sched,      \* run_schedule rows: [live, enabled, next, policy]
    occs,       \* schedule_occurrence rows in id order: [sched, at, state, run]
    runs,       \* run_execution rows in id order: [occ, state]; occ is 0 for a foreground run
    task,       \* the scheduler task: [pc, now, due, todo, occ, run, verdict]
    exec,       \* executor task of each run: [pc, end]
    tokens,     \* run_cancellations: runs with a registered token
    cancelled,  \* the registered tokens that were cancelled
    access,     \* the owner's standing: "ok", "removed" from the room, "disabled"
    spent,      \* how often each event of the environment has happened
    touched,    \* history: runs that have sent a statement
    forsaken    \* history: runs whose start_run was dropped before the spawn, in this process

vars == <<clock, sched, occs, runs, task, exec, tokens, cancelled, access, spent, touched, forsaken>>
Rows == <<sched, occs, runs>>

NoFire == 0                 \* next_fire_at IS NULL, in disabled rows only
Active == {"leased", "running"}
Open   == {"queued", "admitted", "preparing", "running"}
RunIds == 1..MaxRuns
Idle   == [pc |-> "none", end |-> "none"]

Capacity(p) == IF p.kind = "parallel" THEN p.max ELSE 1

\* The cron fires every minute: the first whole minute after the given one.
next_cron_fire(t) == t + 1

SetState(o, st)    == [o EXCEPT !.state = st]

\* One more event, within a scenario.
Spend(what) ==
    /\ spent' = [spent EXCEPT ![what] = @ + 1]
    /\ \E b \in Scenarios : \A w \in Events : spent'[w] <= b[w]

NewTask(pc) == [pc |-> pc, now |-> 0, due |-> {}, todo |-> {}, occ |-> 0, run |-> 0,
                verdict |-> "none"]

Init ==
    /\ clock = 0
    /\ sched \in [Schedules -> [live : {TRUE}, enabled : {TRUE}, next : {1}, policy : Policies]]
    /\ occs = <<>>
    /\ runs = <<>>
    /\ task = NewTask("recover_running")
    /\ exec = [r \in RunIds |-> Idle]
    /\ tokens = {}
    /\ cancelled = {}
    /\ access = "ok"
    /\ spent = [e \in Events |-> 0]
    /\ touched = {} /\ forsaken = {}

-----------------------------------------------------------------------------
(* Recovery: three statements in order, each its own transaction.          *)

At(pc) == task.pc = pc
Goto(pc) == task' = [task EXCEPT !.pc = pc]
TaskOnly == UNCHANGED <<clock, exec, tokens, cancelled, access, spent, touched, forsaken>>

RecoverRunning ==
    /\ At("recover_running")
    /\ runs' = [r \in DOMAIN runs |->
                    IF runs[r].state = "running" THEN SetState(runs[r], "outcome_unknown") ELSE runs[r]]
    /\ Goto("recover_unstarted")
    /\ UNCHANGED <<sched, occs>> /\ TaskOnly

\* A recovery whose second statement takes the running rows too.
RecoverUnstartedEvenRunning ==
    /\ At("recover_unstarted")
    /\ runs' = [r \in DOMAIN runs |->
                    IF runs[r].state \in Open THEN SetState(runs[r], "blocked") ELSE runs[r]]
    /\ Goto("recover_occurrences")
    /\ UNCHANGED <<sched, occs>> /\ TaskOnly

\* A recovery that forgets the runs already admitted.
RecoverUnstartedOnlyQueued ==
    /\ At("recover_unstarted")
    /\ runs' = [r \in DOMAIN runs |->
                    IF runs[r].state = "queued" THEN SetState(runs[r], "blocked") ELSE runs[r]]
    /\ Goto("recover_occurrences")
    /\ UNCHANGED <<sched, occs>> /\ TaskOnly

RecoverUnstarted ==
    /\ At("recover_unstarted")
    /\ runs' = [r \in DOMAIN runs |->
                    IF runs[r].state \in Open \ {"running"} THEN SetState(runs[r], "blocked") ELSE runs[r]]
    /\ Goto("recover_occurrences")
    /\ UNCHANGED <<sched, occs>> /\ TaskOnly

Uncertain(o) == o.run # 0 /\ runs[o.run].state = "outcome_unknown"

\* A recovery that puts interrupted occurrences back in the queue.
RecoverOccurrencesRequeue ==
    /\ At("recover_occurrences")
    /\ occs' = [i \in DOMAIN occs |->
                   IF occs[i].state \notin Active THEN occs[i] ELSE SetState(occs[i], "queued")]
    /\ Goto("reconcile")
    /\ UNCHANGED <<sched, runs>> /\ TaskOnly

\* A recovery that leaves the leased occurrences alone.
RecoverOccurrencesOnlyRunning ==
    /\ At("recover_occurrences")
    /\ occs' = [i \in DOMAIN occs |->
                   IF occs[i].state # "running" THEN occs[i]
                   ELSE SetState(occs[i], IF Uncertain(occs[i]) THEN "outcome_unknown" ELSE "blocked")]
    /\ Goto("reconcile")
    /\ UNCHANGED <<sched, runs>> /\ TaskOnly

RecoverOccurrences ==
    /\ At("recover_occurrences")
    /\ occs' = [i \in DOMAIN occs |->
                   IF occs[i].state \notin Active THEN occs[i]
                   ELSE SetState(occs[i], IF Uncertain(occs[i]) THEN "outcome_unknown" ELSE "blocked")]
    /\ Goto("reconcile")
    /\ UNCHANGED <<sched, runs>> /\ TaskOnly

-----------------------------------------------------------------------------
(* One tick.                                                               *)

\* A fold that forgets cancelled runs.
VerdictWithoutCancelled(st) ==
    CASE st = "succeeded"       -> "succeeded"
      [] st = "failed"          -> "failed"
      [] st = "outcome_unknown" -> "outcome_unknown"
      [] OTHER                  -> "running"

Verdict(st) ==
    CASE st = "succeeded"               -> "succeeded"
      [] st \in {"failed", "cancelled"} -> "failed"
      [] st = "outcome_unknown"         -> "outcome_unknown"
      [] OTHER                          -> "running"

FoldVerdicts ==
    [i \in DOMAIN occs |->
        IF occs[i].state = "running" THEN SetState(occs[i], Verdict(runs[occs[i].run].state))
                                     ELSE occs[i]]

Due == {s \in Schedules : sched[s].live /\ sched[s].enabled /\ sched[s].next <= clock}

\* The clock is read once a tick; reconcile_schedule_occurrences, then the due schedules.
Reconcile ==
    /\ At("reconcile")
    /\ occs' = FoldVerdicts
    /\ task' = [task EXCEPT !.pc = "due", !.now = clock,
                            !.due = {[s |-> s, at |-> sched[s].next] : s \in Due}]
    /\ UNCHANGED <<sched, runs>> /\ TaskOnly

AbortTick == task' = NewTask("reconcile")

OccsOf(s)    == {i \in DOMAIN occs : occs[i].sched = s /\ occs[i].state # "gone"}
Settled      == {"succeeded", "failed", "blocked", "rejected", "outcome_unknown"}

\* The retention delete: settled occurrences older than the newest Retain ones.
Pruned(rows, s) ==
    LET mine == {i \in DOMAIN rows : rows[i].sched = s /\ rows[i].state # "gone"}
    IN  [i \in DOMAIN rows |->
            IF i \in mine /\ rows[i].state \in Settled
                          /\ Cardinality({j \in mine : j > i}) >= Retain
            THEN SetState(rows[i], "gone") ELSE rows[i]]

AlreadyQueued(s) == \E i \in OccsOf(s) : occs[i].state = "queued"

NewOccurrence(s, at) == [sched |-> s, at |-> at, state |-> "queued", run |-> 0]

\* Ordered by fire time, then by id.
Earlier(x, y) == x.at < y.at \/ (x.at = y.at /\ x.s <= y.s)

\* The rows of schedule d.s after the fire d.at was enqueued, or found unwanted, taken or known.
Enqueued(d) ==
    LET missed  == d.at + Grace < task.now
        wanted  == ~missed \/ Misfire = "run_once"
        waiting == sched[d.s].policy.kind = "queue_one" /\ AlreadyQueued(d.s)
        known   == \E i \in OccsOf(d.s) : occs[i].at = d.at
    IN  IF wanted /\ ~waiting /\ ~known THEN Append(occs, NewOccurrence(d.s, d.at)) ELSE occs

Advance(d) ==
    \/ /\ ~sched[d.s].live                              \* RunScheduleNotFound
       /\ AbortTick
       /\ UNCHANGED Rows
    \/ /\ sched[d.s].live
       /\ task' = [task EXCEPT !.due = @ \ {d}]
       /\ IF sched[d.s].enabled /\ sched[d.s].next = d.at
          THEN /\ occs' = Pruned(Enqueued(d), d.s)
               /\ sched' = [sched EXCEPT ![d.s].next = next_cron_fire(task.now)]
          ELSE UNCHANGED <<occs, sched>>
       /\ UNCHANGED runs

AdvanceAndEnqueue ==
    /\ At("due")
    /\ \E d \in task.due : (\A y \in task.due : Earlier(d, y)) /\ Advance(d)
    /\ TaskOnly

Queued == {i \in DOMAIN occs : occs[i].state = "queued"}
Looked == {i \in Queued : Cardinality({j \in Queued : j < i}) < Limit}

\* The claim walks the looked-at rows in id order and counts the active rows of the schedule
\* anew for each: those before it, plus one for every row of its schedule it has just leased.
\* A row is leased while that leaves room, hence while fewer rows of its schedule come before
\* it in the walk than there were slots free.
ActiveOf(s) == {j \in DOMAIN occs : occs[j].sched = s /\ occs[j].state \in Active}
AheadOf(i)  == {j \in Looked : j < i /\ occs[j].sched = occs[i].sched}

\* A claim that counts only running rows as active.
ClaimedForgettingLeases(i) ==
    LET p    == sched[occs[i].sched].policy
        busy == {j \in ActiveOf(occs[i].sched) : occs[j].state = "running"}
    IN  IF Cardinality(busy) < Capacity(p) THEN "leased"
        ELSE IF p.kind = "forbid" THEN "blocked" ELSE "queued"

Claimed(i) ==
    LET p == sched[occs[i].sched].policy
    IN  IF Cardinality(ActiveOf(occs[i].sched)) + Cardinality(AheadOf(i)) < Capacity(p) THEN "leased"
        ELSE IF p.kind = "forbid" THEN "blocked" ELSE "queued"

Claim ==
    /\ At("due") /\ task.due = {}
    /\ occs' = [i \in DOMAIN occs |-> IF i \in Looked THEN SetState(occs[i], Claimed(i)) ELSE occs[i]]
    /\ task' = [task EXCEPT !.pc = "admit", !.now = 0, !.todo = {i \in Looked : Claimed(i) = "leased"}]
    /\ UNCHANGED <<sched, runs>> /\ TaskOnly

\* A lost membership is RoomNotFound, a disabled principal InvalidRunSchedule.  With access
\* in order the configuration may still ask for variables, or name a profile that is gone.
admission_failure_states ==
    CASE access = "removed"  -> {"rejected"}
      [] access = "disabled" -> {"blocked"}
      [] OTHER               -> {"rejected", "blocked"}

\* Authorization, the captured payload and create_run_execution for the next occurrence.
Admit ==
    /\ At("admit")
    /\ \E i \in task.todo :
          /\ \A j \in task.todo : i <= j
          /\ \/ /\ access = "ok" /\ Len(runs) < MaxRuns
                /\ runs' = Append(runs, [occ |-> i, state |-> "queued"])
                /\ task' = [task EXCEPT !.pc = "attach", !.todo = @ \ {i}, !.occ = i, !.run = Len(runs) + 1]
             \/ /\ \E v \in admission_failure_states :
                      task' = [task EXCEPT !.pc = "reject", !.todo = @ \ {i}, !.occ = i, !.verdict = v]
                /\ UNCHANGED runs
    /\ UNCHANGED <<sched, occs>> /\ TaskOnly

\* The next claimed occurrence has its turn.
NextOccurrence == task' = [task EXCEPT !.pc = "admit", !.occ = 0, !.run = 0, !.verdict = "none"]

Spawn(r) ==
    /\ tokens' = tokens \union {r}
    /\ exec' = [exec EXCEPT ![r] = [pc |-> "admit", end |-> "none"]]

\* attach_occurrence_run, then spawn_run; a row that is no longer leased fails the admission.
Attach ==
    /\ At("attach")
    /\ \/ /\ occs[task.occ].state = "leased"
          /\ occs' = [occs EXCEPT ![task.occ] = [@ EXCEPT !.state = "running", !.run = task.run]]
          /\ Spawn(task.run)
          /\ NextOccurrence
       \/ /\ occs[task.occ].state # "leased"
          /\ task' = [task EXCEPT !.pc = "reject", !.verdict = "blocked"]
          /\ UNCHANGED <<occs, exec, tokens>>
    /\ UNCHANGED <<clock, sched, runs, cancelled, access, spent, touched, forsaken>>

\* finish_schedule_occurrence: no row, no effect.
Reject ==
    /\ At("reject")
    /\ occs' = [occs EXCEPT ![task.occ] = IF @.state = "gone" THEN @ ELSE SetState(@, task.verdict)]
    /\ Goto("disable")
    /\ UNCHANGED <<sched, runs>> /\ TaskOnly

\* disable_run_schedule_system: a missing schedule aborts the tick, the rest of todo with it.
Disable ==
    /\ At("disable")
    /\ LET s == occs[task.occ].sched IN
       \/ /\ sched[s].live
          /\ sched' = [sched EXCEPT ![s] = [@ EXCEPT !.enabled = FALSE, !.next = NoFire]]
          /\ NextOccurrence
       \/ /\ ~sched[s].live
          /\ AbortTick
          /\ UNCHANGED sched
    /\ UNCHANGED <<occs, runs>> /\ TaskOnly

EndTick == At("admit") /\ task.todo = {} /\ AbortTick /\ UNCHANGED Rows /\ TaskOnly

SchedulerStep ==
    RecoverRunning \/ RecoverUnstarted \/ RecoverOccurrences \/ Reconcile \/ AdvanceAndEnqueue
        \/ Claim \/ Admit \/ Attach \/ Reject \/ Disable \/ EndTick

-----------------------------------------------------------------------------
(* The executor of run r.  transition_run needs the owner's access and one *)
(* of the expected states; every error ends in spawn_run's fallback.       *)

MayMove(r, from) == access = "ok" /\ runs[r].state \in from
Move(r, to)      == runs' = [runs EXCEPT ![r] = SetState(@, to)]
Step(r, pc)      == exec' = [exec EXCEPT ![r].pc = pc]
Done(r)          == /\ exec' = [exec EXCEPT ![r] = Idle]
                    /\ tokens' = tokens \ {r}
                    /\ cancelled' = cancelled \ {r}

ExecOnly == UNCHANGED <<clock, sched, occs, task, access, spent, forsaken>>
Quiet    == UNCHANGED <<tokens, cancelled, touched>>

\* One expected transition of execute_run, from the row state `from` to `to`.
Transition(r, pc, from, to, next) ==
    /\ exec[r].pc = pc
    /\ \/ MayMove(r, {from}) /\ Move(r, to) /\ Step(r, next)
       \/ ~MayMove(r, {from}) /\ UNCHANGED runs /\ Step(r, "fail")
    /\ Quiet /\ ExecOnly

AdmitRun(r)   == Transition(r, "admit", "queued", "admitted", "prepare")
PrepareRun(r) == Transition(r, "prepare", "admitted", "preparing", "connect")

\* Resolve the profile, look at the token, open the connection, run the pre-tasks.
ConnectRun(r) ==
    /\ exec[r].pc = "connect"
    /\ \/ UNCHANGED <<runs, tokens, cancelled>> /\ Step(r, "fail")
       \/ r \notin cancelled /\ UNCHANGED <<runs, tokens, cancelled>> /\ Step(r, "start")
       \/ r \in cancelled /\ MayMove(r, {"preparing"}) /\ Move(r, "cancelled") /\ Done(r)
       \/ r \in cancelled /\ ~MayMove(r, {"preparing"})
              /\ UNCHANGED <<runs, tokens, cancelled>> /\ Step(r, "fail")
    /\ UNCHANGED touched /\ ExecOnly

StartRun(r) == Transition(r, "start", "preparing", "running", "scripts")

\* The top of the script loop: a transaction that cannot begin, a step row or a variable
\* that is refused, a cancelled token, or the statement is sent.
NextScript(r) ==
    /\ exec[r].pc = "scripts"
    /\ \/ /\ Step(r, "fail")
          /\ UNCHANGED touched
       \/ /\ r \in cancelled
          /\ exec' = [exec EXCEPT ![r] = [pc |-> "conclude", end |-> "cancelled"]]
          /\ UNCHANGED touched
       \/ /\ r \notin cancelled
          /\ Step(r, "executing")
          /\ touched' = touched \union {r}
    /\ UNCHANGED <<runs, tokens, cancelled>> /\ ExecOnly

\* How the statements may end and what is then recorded; a commit that fails leaves
\* through spawn_run's fallback.
Endings ==
    {[pc |-> "conclude", end |-> v] : v \in {"succeeded", "failed", "cancelled", "outcome_unknown"}}
    \union {[pc |-> "fail", end |-> "none"] : x \in {TxPolicy} \ {"none"}}

RunScripts(r) ==
    /\ exec[r].pc = "executing"
    /\ \E e \in Endings : exec' = [exec EXCEPT ![r] = e]
    /\ UNCHANGED <<runs, tokens, cancelled, touched>> /\ ExecOnly

ConcludeRun(r) ==
    /\ exec[r].pc = "conclude"
    /\ \/ MayMove(r, {"running"}) /\ Move(r, exec[r].end) /\ Done(r)
       \/ ~MayMove(r, {"running"}) /\ UNCHANGED <<runs, tokens, cancelled>> /\ Step(r, "fail")
    /\ UNCHANGED touched /\ ExecOnly

\* spawn_run's fallback: its own error is ignored.
FailRun(r) ==
    /\ exec[r].pc = "fail"
    /\ IF MayMove(r, Open) THEN Move(r, "failed") ELSE UNCHANGED runs
    /\ Done(r)
    /\ UNCHANGED touched /\ ExecOnly

ExecutorStep(r) ==
    AdmitRun(r) \/ PrepareRun(r) \/ ConnectRun(r) \/ StartRun(r) \/ NextScript(r)
        \/ RunScripts(r) \/ ConcludeRun(r) \/ FailRun(r)

-----------------------------------------------------------------------------
(* The HTTP handlers, the owner's standing, the clock and the process.     *)

Up == ~At("down")
Owner == Up /\ access = "ok"
HttpOnly == UNCHANGED <<clock, task, access, forsaken>>

UpdateSchedule(s) ==
    /\ Owner /\ sched[s].live
    /\ \E p \in Policies, on \in BOOLEAN :
          sched' = [sched EXCEPT ![s] = [live |-> TRUE, enabled |-> on, policy |-> p,
                                        next |-> IF on THEN next_cron_fire(clock) ELSE NoFire]]
    /\ Spend("edit")
    /\ UNCHANGED <<occs, runs, exec, tokens, cancelled, touched>> /\ HttpOnly

\* The foreign key deletes the occurrences with their schedule; their runs stay.
DeleteSchedule(s) ==
    /\ Owner /\ sched[s].live
    /\ sched' = [sched EXCEPT ![s].live = FALSE]
    /\ occs' = [i \in DOMAIN occs |->
                   IF occs[i].sched = s THEN SetState(occs[i], "gone") ELSE occs[i]]
    /\ Spend("edit")
    /\ UNCHANGED <<runs, exec, tokens, cancelled, touched>> /\ HttpOnly

\* A resume that does not ask whether a run is attached.
ResumeOccurrenceWithRun(i) ==
    /\ Owner
    /\ occs[i].state \in {"blocked", "rejected"}
    /\ occs' = [occs EXCEPT ![i] = SetState(@, "queued")]
    /\ Spend("resume")
    /\ UNCHANGED <<sched, runs, exec, tokens, cancelled, touched>> /\ HttpOnly

ResumeOccurrence(i) ==
    /\ Owner
    /\ occs[i].run = 0 /\ occs[i].state \in {"blocked", "rejected"}
    /\ occs' = [occs EXCEPT ![i] = SetState(@, "queued")]
    /\ Spend("resume")
    /\ UNCHANGED <<sched, runs, exec, tokens, cancelled, touched>> /\ HttpOnly

\* start_run: the row is created first and the executor spawned after it.
CreateForeground ==
    /\ Owner /\ Len(runs) < MaxRuns
    /\ runs' = Append(runs, [occ |-> 0, state |-> "queued"])
    /\ exec' = [exec EXCEPT ![Len(runs) + 1].pc = "create"]
    /\ Spend("foreground")
    /\ UNCHANGED <<sched, occs, tokens, cancelled, touched>> /\ HttpOnly

SpawnForeground(r) ==
    /\ exec[r].pc = "create"
    /\ Spawn(r)
    /\ UNCHANGED <<sched, occs, runs, cancelled, spent, touched>> /\ HttpOnly

\* The client is gone while start_run waits for its metadata task: the future is dropped,
\* the transaction commits all the same.
DropForeground(r) ==
    /\ exec[r].pc = "create"
    /\ exec' = [exec EXCEPT ![r] = Idle]
    /\ forsaken' = forsaken \union {r}
    /\ UNCHANGED <<clock, sched, occs, runs, task, tokens, cancelled, access, spent, touched>>

\* cancel_run: the row is flagged, then the token, if one is registered.  Without a
\* token only a run that was still queued is answered with success.
CancelRun(r) ==
    /\ Owner
    /\ r \in DOMAIN runs /\ runs[r].state \in Open
    /\ r \in tokens \/ runs[r].state = "queued"
    /\ cancelled' = IF r \in tokens THEN cancelled \union {r} ELSE cancelled
    /\ Spend("cancel")
    /\ UNCHANGED <<sched, occs, runs, exec, tokens, touched>> /\ HttpOnly

EnvOnly == UNCHANGED <<sched, occs, runs, exec, tokens, cancelled, touched, forsaken>>

Revoke ==
    /\ access = "ok"
    /\ access' \in {"removed", "disabled"}
    /\ Spend("revoke")
    /\ UNCHANGED <<clock, task>> /\ EnvOnly

Reinstate == access # "ok" /\ access' = "ok" /\ UNCHANGED <<clock, task, spent>> /\ EnvOnly

Tick == clock' = clock + 1 /\ Spend("minute") /\ UNCHANGED <<task, access>> /\ EnvOnly

\* The tasks die with the process.
Crash ==
    /\ Up
    /\ task' = NewTask("down")
    /\ exec' = [r \in RunIds |-> Idle]
    /\ tokens' = {}
    /\ cancelled' = {}
    /\ forsaken' = {}
    /\ Spend("crash")
    /\ UNCHANGED <<clock, sched, occs, runs, access, touched>>

Restart ==
    /\ At("down")
    /\ task' = NewTask("recover_running")
    /\ UNCHANGED <<clock, access, spent>> /\ EnvOnly

Next ==
    \/ SchedulerStep
    \/ \E r \in RunIds : ExecutorStep(r) \/ SpawnForeground(r) \/ DropForeground(r) \/ CancelRun(r)
    \/ \E s \in Schedules : UpdateSchedule(s) \/ DeleteSchedule(s)
    \/ \E i \in DOMAIN occs : ResumeOccurrence(i)
    \/ CreateForeground \/ Revoke \/ Reinstate \/ Tick \/ Crash \/ Restart

Spec == Init /\ [][Next]_vars

\* The scheduler loop and the executor tasks run while the process is up, a script ends at
\* its deadline at the latest, time passes, and a crashed server is started again.
Fairness ==
    /\ WF_vars(SchedulerStep) /\ WF_vars(Restart) /\ WF_vars(Tick)
    /\ \A r \in RunIds : WF_vars(ExecutorStep(r)) /\ WF_vars(SpawnForeground(r))

LiveSpec == Spec /\ Fairness

-----------------------------------------------------------------------------
Count(S) == Cardinality(S)

OccStates  == Active \union Settled \union {"queued", "gone"}
RunEndings == {"succeeded", "failed", "cancelled", "outcome_unknown"}
RunStates  == Open \union RunEndings \union {"blocked"}
TaskPcs    == {"down", "recover_running", "recover_unstarted", "recover_occurrences",
               "reconcile", "due", "admit", "attach", "reject", "disable"}
ExecPcs    == {"none", "create", "admit", "prepare", "connect", "start", "scripts", "executing",
               "conclude", "fail"}

ScheduleRows   == [live : BOOLEAN, enabled : BOOLEAN, next : Nat, policy : Policies]
OccurrenceRows == [sched : Schedules, at : Nat, state : OccStates, run : Nat]
RunRows        == [occ : Nat, state : RunStates]
Tasks == [pc : TaskPcs, now : Nat, due : SUBSET [s : Schedules, at : Nat], todo : SUBSET Nat,
          occ : Nat, run : Nat, verdict : {"none", "blocked", "rejected"}]
Executors == [pc : ExecPcs, end : RunEndings \union {"none"}]

(* The rows, the tasks and the tokens have their types, and references are to rows. *)
TypeOK ==
    /\ clock \in Nat
    /\ sched \in [Schedules -> ScheduleRows]
    /\ occs \in Seq(OccurrenceRows)
    /\ \A i \in DOMAIN occs : occs[i].run \in 0..Len(runs)
    /\ runs \in Seq(RunRows) /\ Len(runs) <= MaxRuns
    /\ \A r \in DOMAIN runs : runs[r].occ \in 0..Len(occs)
    /\ task \in Tasks
    /\ task.todo \subseteq DOMAIN occs /\ task.occ \in 0..Len(occs) /\ task.run \in 0..Len(runs)
    /\ exec \in [RunIds -> Executors]
    /\ \A r \in RunIds : exec[r].pc = "conclude" => exec[r].end # "none"
    /\ cancelled \subseteq tokens /\ tokens \subseteq RunIds /\ touched \subseteq DOMAIN runs
    /\ access \in {"ok", "removed", "disabled"}
    /\ spent \in [Events -> Nat] /\ forsaken \subseteq RunIds

(* The rows are of their types and refer to each other: an occurrence that waits or is
   leased has no run, one that runs has the run that was created for it
   (attach_occurrence_run, resume_schedule_occurrence). *)
RowsAgree ==
    /\ TypeOK
    /\ \A i \in DOMAIN occs :
          /\ occs[i].state \in {"queued", "leased"} => occs[i].run = 0
          /\ occs[i].state = "running" => occs[i].run # 0
          /\ occs[i].run # 0 => runs[occs[i].run].occ = i

(* No occurrence is replayed: whatever crashes, failed admissions and manual resumes come
   between, the statements of at most one run of an occurrence ever reach the target
   database (resume_schedule_occurrence, recover_interrupted_runs). *)
NeverReplayed ==
    \A i \in DOMAIN occs : Count({r \in touched : runs[r].occ = i}) <= 1

(* A run that is recorded as blocked has sent nothing, so it is safe to run again: recovery
   tells the runs that may have reached the database from those that did not, although
   executors of foreground runs move beside its three statements
   (recover_interrupted_runs, Scheduler::start). *)
BlockedNeverRan == \A r \in DOMAIN runs : runs[r].state = "blocked" => r \notin touched

(* No schedule has been edited or deleted; the owner has always had access. *)
Unedited     == spent["edit"] = 0
NeverRevoked == spent["revoke"] = 0

InFlight(s) == {r \in DOMAIN runs : runs[r].occ # 0 /\ exec[r].pc \in {"scripts", "executing"}
                                    /\ occs[runs[r].occ].sched = s}

(* The concurrency policy bounds what really executes, not only what the rows say: at no
   time do more executors of one live schedule have statements in flight than its policy
   allows (claim_queued_occurrences counts rows).  An edit may lower a capacity that is in
   use. *)
PolicyBoundsExecution ==
    Unedited => \A s \in Schedules : Count(InFlight(s)) <= Capacity(sched[s].policy)

Recovering == task.pc \in {"down", "recover_running", "recover_unstarted", "recover_occurrences"}

(* Once recovery is over, a run that is still open has its executor, or the scheduler is
   about to spawn it: no row waits for a task that died (recover_interrupted_runs).  The
   exceptions: a foreground run whose start_run was dropped between creation and spawn, an
   owner who lost access meanwhile, a schedule deleted while its run was being attached. *)
OpenRunsAreDriven ==
    ~Recovering /\ Unedited /\ NeverRevoked => \A r \in DOMAIN runs :
        runs[r].state \in Open => exec[r].pc # "none" \/ task.run = r \/ r \in forsaken

(* A leased occurrence is in the scheduler's hands, so its slot is given back.  Deleting a
   schedule may abort a tick that has more in hand. *)
LeasesAreHeld ==
    ~Recovering /\ Unedited => \A i \in DOMAIN occs :
        occs[i].state = "leased" => i \in task.todo \union {task.occ}

Unsettled(i) == i \in DOMAIN occs /\ occs[i].state \in Active \union {"queued"}

(* Every occurrence that is queued, leased or running is settled in the end, but for the
   two exceptions above: a run whose owner lost access cannot record its end, and a
   deletion may abort the tick. *)
OccurrencesSettle ==
    \A i \in 1..MaxRuns : Unsettled(i) ~> ~Unsettled(i) \/ ~Unedited \/ ~NeverRevoked
=============================================================================
