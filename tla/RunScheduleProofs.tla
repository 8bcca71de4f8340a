------------------------- MODULE RunScheduleProofs -------------------------
(***************************************************************************)
(* The safety properties of RunSchedule, proved for any schedules,         *)
(* policies, limits and bounds.  IInv says how the occurrence and run rows *)
(* and the two kinds of tasks refer to each other; the parts after it are  *)
(* what the single properties need on top.                                 *)
(***************************************************************************)
EXTENDS RunSchedule, FiniteSetTheorems, WellFoundedInduction, TLAPS

(* An occurrence that waits or is leased has no run yet, one that runs has one, and a run
   that an occurrence names was created for it. *)
RowsRefer ==
    \A i \in DOMAIN occs :
        /\ occs[i].state \in {"queued", "leased"} => occs[i].run = 0
        /\ occs[i].state = "running" => occs[i].run # 0
        /\ occs[i].run # 0 => runs[occs[i].run].occ = i

(* What the scheduler task has in hand in each of its steps. *)
InHand ==
    /\ task.occ # 0 <=> task.pc \in {"attach", "reject", "disable"}
    /\ task.pc \notin {"admit", "attach", "reject", "disable"} => task.todo = {}
    /\ task.occ \notin task.todo
    /\ task.pc = "attach" => task.run # 0 /\ runs[task.run].occ = task.occ
    /\ task.pc = "reject" => task.verdict # "none"

(* The run of an occurrence is the one the occurrence names. *)
Bound(r) == runs[r].occ # 0 => occs[runs[r].occ].run = r

(* Whoever executes or has executed statements is bound to its occurrence. *)
BoundRuns ==
    /\ \A r \in RunIds : exec[r].pc # "none" => r \in DOMAIN runs /\ Bound(r)
    /\ \A r \in touched : Bound(r)

IInv == TypeOK /\ RowsRefer /\ InHand /\ BoundRuns

-----------------------------------------------------------------------------
(* A claimed occurrence stays leased until its turn, unless its schedule is deleted. *)
Held(i) == occs[i].state = "leased" \/ ~sched[occs[i].sched].live
HeldInv ==
    /\ \A i \in task.todo : Held(i)
    /\ task.pc \in {"attach", "reject"} => Held(task.occ)

(* The row state the executor's next transition expects. *)
Expected(pc) == CASE pc = "admit" -> "queued"
                  [] pc = "prepare" -> "admitted"
                  [] pc \in {"connect", "start"} -> "preparing"
                  [] OTHER -> "running"

Busy(i) == occs[i].state = "running" \/ ~sched[occs[i].sched].live

OnCourse(r) == exec[r].pc \notin {"none", "create", "fail"} /\ runs[r].occ # 0

(* The executor of a scheduled run and its rows keep in step. *)
FlightInv ==
    /\ \A r \in RunIds : exec[r].pc # "none" /\ (Recovering \/ exec[r].pc = "create") => runs[r].occ = 0
    /\ \A r \in RunIds : OnCourse(r) =>
          /\ runs[r].state = Expected(exec[r].pc)
          /\ Busy(runs[r].occ)
    /\ task.pc = "attach" => runs[task.run].state = "queued" /\ exec[task.run].pc = "none"

(* Rows that hold a slot stay within the policy. *)
ActiveBound == \A s \in Schedules : Cardinality(ActiveOf(s)) <= Capacity(sched[s].policy)

-----------------------------------------------------------------------------
(* No schedule is deleted, and the owner keeps access. *)
AllLive  == \A s \in Schedules : sched[s].live
AccessOk == access = "ok"

(* A disposed occurrence is not leased any more. *)
LeasesInHand ==
    ~Recovering => \A i \in DOMAIN occs :
        occs[i].state = "leased" => i \in task.todo \union {task.occ}

LeaseInv ==
    /\ LeasesInHand
    /\ task.pc = "disable" => occs[task.occ].state # "leased"

Driven(r) == exec[r].pc # "none" \/ task.run = r \/ r \in forsaken

OpenInv ==
    /\ task.pc \notin {"down", "recover_running"} =>
          \A r \in DOMAIN runs : runs[r].state = "running" => Driven(r)
    /\ task.pc \notin {"down", "recover_running", "recover_unstarted"} =>
          \A r \in DOMAIN runs : runs[r].state \in Open => Driven(r)
    /\ task.pc # "attach" => task.run = 0

-----------------------------------------------------------------------------
(* A sequence rewritten entry by entry is a sequence of the same length. *)
LEMMA SeqMap ==
    ASSUME NEW S, NEW q \in Seq(S), NEW T, NEW f \in [DOMAIN q -> T]
    PROVE  f \in Seq(T) /\ Len(f) = Len(q) /\ DOMAIN f = DOMAIN q
<1>1. DOMAIN q = 1..Len(q) /\ Len(q) \in Nat
  OBVIOUS
<1>2. f \in [1..Len(q) -> T]
  BY <1>1
<1>3. f \in Seq(T)
  BY <1>1, <1>2
<1>4. DOMAIN f = 1..Len(f) /\ Len(f) \in Nat
  BY <1>3
<1>5. DOMAIN f = DOMAIN q
  OBVIOUS
<1>6. Len(f) = Len(q)
  BY <1>1, <1>3, <1>4, <1>5
<1> QED
  BY <1>3, <1>5, <1>6

(* What TypeOK says of the row tables, in the form the steps use. *)
LEMMA Tables ==
    ASSUME TypeOK
    PROVE  /\ DOMAIN occs = 1..Len(occs) /\ Len(occs) \in Nat
           /\ DOMAIN runs = 1..Len(runs) /\ Len(runs) \in Nat
           /\ \A i \in DOMAIN occs : occs[i] \in OccurrenceRows
           /\ \A r \in DOMAIN runs : runs[r] \in RunRows
           /\ MaxRuns \in Nat
<1>1. MaxRuns \in Nat
  BY BoundsAssumption
<1>2. occs \in Seq(OccurrenceRows) /\ runs \in Seq(RunRows)
  BY DEF TypeOK
<1> QED
  BY <1>1, <1>2

(* A step that at most changes the states of the occurrences, and of the runs. *)
OccsMove ==
    /\ occs' \in [DOMAIN occs -> OccurrenceRows]
    /\ \A i \in DOMAIN occs : occs'[i].sched = occs[i].sched /\ occs'[i].run = occs[i].run

RunsMove ==
    /\ runs' \in [DOMAIN runs -> RunRows]
    /\ \A r \in DOMAIN runs : runs'[r].occ = runs[r].occ

(* The parts of TypeOK a step may disturb. *)
TaskType ==
    /\ task \in Tasks
    /\ task.todo \subseteq DOMAIN occs /\ task.occ \in 0..Len(occs) /\ task.run \in 0..Len(runs)
ExecType ==
    /\ exec \in [RunIds -> Executors]
    /\ \A r \in RunIds : exec[r].pc = "conclude" => exec[r].end # "none"
    /\ cancelled \subseteq tokens /\ tokens \subseteq RunIds /\ touched \subseteq DOMAIN runs
RowsType ==
    /\ occs \in Seq(OccurrenceRows)
    /\ \A i \in DOMAIN occs : occs[i].run \in 0..Len(runs)
    /\ runs \in Seq(RunRows) /\ Len(runs) <= MaxRuns
    /\ \A r \in DOMAIN runs : runs[r].occ \in 0..Len(occs)
RestType ==
    /\ clock \in Nat /\ sched \in [Schedules -> ScheduleRows] /\ access \in {"ok", "removed", "disabled"}
    /\ spent \in [Events -> Nat] /\ forsaken \subseteq RunIds

LEMMA TypeParts == TypeOK <=> TaskType /\ ExecType /\ RowsType /\ RestType
  BY DEF TypeOK, TaskType, ExecType, RowsType, RestType

LEMMA NextTypeParts == TaskType' /\ ExecType' /\ RowsType' /\ RestType' => TypeOK'
  BY DEF TypeOK, TaskType, ExecType, RowsType, RestType

(* An event of the environment is counted, and no other. *)
LEMMA SpendType ==
    ASSUME TypeOK, NEW w \in Events, Spend(w)
    PROVE  spent' \in [Events -> Nat] /\ spent'[w] # 0 /\ \A v \in Events : v # w => spent'[v] = spent[v]
  BY DEF TypeOK, Spend

LEMMA MoveLengths ==
    ASSUME TypeOK, OccsMove, RunsMove
    PROVE  /\ RowsType'
           /\ Len(occs') = Len(occs) /\ DOMAIN occs' = DOMAIN occs
           /\ Len(runs') = Len(runs) /\ DOMAIN runs' = DOMAIN runs
<1>1. occs' \in Seq(OccurrenceRows) /\ Len(occs') = Len(occs) /\ DOMAIN occs' = DOMAIN occs
  BY SeqMap DEF TypeOK, OccsMove
<1>2. runs' \in Seq(RunRows) /\ Len(runs') = Len(runs) /\ DOMAIN runs' = DOMAIN runs
  BY SeqMap DEF TypeOK, RunsMove
<1>3. \A i \in DOMAIN occs' : occs'[i].run \in 0..Len(runs')
  BY <1>1, <1>2 DEF TypeOK, OccsMove
<1>4. \A r \in DOMAIN runs' : runs'[r].occ \in 0..Len(occs')
  BY <1>1, <1>2 DEF TypeOK, RunsMove
<1> QED
  BY <1>1, <1>2, <1>3, <1>4 DEF TypeOK, RowsType

LEMMA OccsUnchanged == ASSUME TypeOK, UNCHANGED occs PROVE OccsMove
  BY Tables DEF TypeOK, OccsMove

LEMMA RunsUnchanged == ASSUME TypeOK, UNCHANGED runs PROVE RunsMove
  BY Tables DEF TypeOK, RunsMove

(* Changes of state keep the references, if no row takes a state its run forbids. *)
LEMMA MoveRefers ==
    ASSUME IInv, OccsMove, RunsMove,
           \A i \in DOMAIN occs : occs[i].state # occs'[i].state =>
               /\ occs'[i].state \in {"queued", "leased"} => occs[i].run = 0
               /\ occs'[i].state # "running"
    PROVE  RowsRefer'
<1>1. DOMAIN occs' = DOMAIN occs /\ DOMAIN runs' = DOMAIN runs
  BY MoveLengths DEF IInv
<1> SUFFICES ASSUME NEW i \in DOMAIN occs
             PROVE  /\ occs'[i].state \in {"queued", "leased"} => occs'[i].run = 0
                    /\ occs'[i].state = "running" => occs'[i].run # 0
                    /\ occs'[i].run # 0 => runs'[occs'[i].run].occ = i
  BY <1>1 DEF RowsRefer
<1>2. occs'[i].run = occs[i].run
  BY DEF OccsMove
<1>3. occs[i].run # 0 => occs[i].run \in DOMAIN runs
  BY Tables DEF IInv, TypeOK
<1>4. occs[i].run # 0 => runs'[occs[i].run].occ = i
  BY <1>3 DEF IInv, RowsRefer, RunsMove
<1> QED
  BY <1>2, <1>4 DEF IInv, RowsRefer

(* An executor that was there keeps the bond of its run. *)
LEMMA MoveBound ==
    ASSUME IInv, OccsMove, RunsMove,
           exec' \in [RunIds -> Executors],
           \A r \in RunIds : exec'[r].pc # "none" => exec[r].pc # "none",
           \A r \in touched' : r \in touched \/ (r \in RunIds /\ exec[r].pc # "none")
    PROVE  BoundRuns'
<1>1. DOMAIN occs' = DOMAIN occs /\ DOMAIN runs' = DOMAIN runs
  BY MoveLengths DEF IInv
<1>2. ASSUME NEW r \in DOMAIN runs, Bound(r)
      PROVE  Bound(r)'
  <2>1. runs'[r].occ = runs[r].occ
    BY DEF RunsMove
  <2>2. runs[r].occ # 0 => runs[r].occ \in DOMAIN occs
    BY Tables DEF IInv, TypeOK
  <2> QED
    BY <1>2, <2>1, <2>2 DEF Bound, OccsMove
<1>3. \A r \in RunIds : exec'[r].pc # "none" => r \in DOMAIN runs' /\ Bound(r)'
  BY <1>1, <1>2 DEF IInv, BoundRuns
<1>4. \A r \in touched' : Bound(r)'
  BY <1>2 DEF IInv, BoundRuns, TypeOK
<1> QED
  BY <1>3, <1>4 DEF BoundRuns

(* The task keeps what it has in hand. *)
LEMMA MoveInHand ==
    ASSUME IInv, RunsMove, UNCHANGED task
    PROVE  InHand'
<1>1. task.run # 0 => task.run \in DOMAIN runs
  BY Tables DEF IInv, TypeOK
<1> QED
  BY <1>1 DEF IInv, InHand, RunsMove

-----------------------------------------------------------------------------
(* Recovery. *)

LEMMA RecoverRunsIInv ==
    ASSUME IInv, RecoverRunning \/ RecoverUnstarted
    PROVE  IInv' /\ RunsMove
<1>1. RunsMove
  BY Tables DEF IInv, RecoverRunning, RecoverUnstarted, RunsMove, SetState, RunRows, RunStates, RunEndings
<1>2. OccsMove
  BY OccsUnchanged DEF IInv, RecoverRunning, RecoverUnstarted
<1>3. /\ task' = [task EXCEPT !.pc = task'.pc] /\ task'.pc \in {"recover_unstarted", "recover_occurrences"}
      /\ task.pc \in {"recover_running", "recover_unstarted"}
  BY DEF IInv, TypeOK, RecoverRunning, RecoverUnstarted, Goto, At, Tasks
<1>4. TypeOK'
  <2>1. TaskType'
    BY <1>1, <1>2, <1>3, MoveLengths, TypeParts DEF IInv, TaskType, Tasks, TaskPcs
  <2>2. ExecType' /\ RestType'
    BY <1>1, <1>2, MoveLengths, TypeParts
    DEF IInv, ExecType, RestType, RecoverRunning, RecoverUnstarted, TaskOnly
  <2> QED
    BY <2>1, <2>2, <1>1, <1>2, MoveLengths, NextTypeParts DEF IInv
<1>5. RowsRefer'
  BY <1>1, <1>2, MoveRefers DEF RecoverRunning, RecoverUnstarted
<1>6. BoundRuns'
  BY <1>1, <1>2, MoveBound DEF IInv, TypeOK, RecoverRunning, RecoverUnstarted, TaskOnly
<1>7. InHand'
  BY <1>3 DEF IInv, TypeOK, InHand, Tasks
<1> QED
  BY <1>1, <1>4, <1>5, <1>6, <1>7 DEF IInv

(* The steps of the scheduler that move occurrences and leave the runs alone. *)
LEMMA OccsStepIInv ==
    ASSUME IInv, OccsMove, UNCHANGED <<runs, exec, cancelled, tokens, touched>>, RestType',
           \A i \in DOMAIN occs : occs[i].state # occs'[i].state =>
               /\ occs'[i].state \in {"queued", "leased"} => occs[i].run = 0
               /\ occs'[i].state # "running",
           TaskType', InHand'
    PROVE  IInv'
<1>1. RunsMove
  BY RunsUnchanged DEF IInv
<1>2. TypeOK'
  <2>1. ExecType'
    BY TypeParts DEF IInv, ExecType
  <2> QED
    BY <2>1, <1>1, MoveLengths, NextTypeParts DEF IInv
<1>3. RowsRefer'
  BY <1>1, MoveRefers
<1>4. BoundRuns'
  BY <1>1, MoveBound DEF IInv, TypeOK
<1> QED
  BY <1>2, <1>3, <1>4 DEF IInv

LEMMA RecoverOccurrencesIInv ==
    ASSUME IInv, RecoverOccurrences
    PROVE  IInv' /\ OccsMove
<1>1. OccsMove
  BY Tables DEF IInv, RecoverOccurrences, OccsMove, SetState, OccurrenceRows, OccStates, Settled
<1>2. RunsMove
  BY RunsUnchanged DEF IInv, RecoverOccurrences
<1>3. \A i \in DOMAIN occs : occs[i].state # occs'[i].state => occs'[i].state \in Settled
  BY Tables DEF IInv, RecoverOccurrences, SetState, OccurrenceRows, Settled
<1>4. task' = [task EXCEPT !.pc = "reconcile"] /\ task.pc = "recover_occurrences"
  BY DEF RecoverOccurrences, Goto, At
<1>5. TaskType'
  BY <1>1, <1>2, <1>4, MoveLengths, TypeParts DEF IInv, TaskType, Tasks, TaskPcs
<1>6. InHand'
  BY <1>4 DEF IInv, TypeOK, InHand
<1>7. RestType' /\ UNCHANGED <<runs, exec, cancelled, tokens, touched>>
  BY TypeParts DEF IInv, RestType, RecoverOccurrences, TaskOnly
<1> QED
  BY <1>1, <1>3, <1>5, <1>6, <1>7, OccsStepIInv DEF Settled

(* A verdict is an occurrence state, and never one that waits. *)
LEMMA VerdictRange ==
    ASSUME NEW st
    PROVE  Verdict(st) \in {"succeeded", "failed", "outcome_unknown", "running"}
  BY DEF Verdict

LEMMA ReconcileIInv ==
    ASSUME IInv, Reconcile
    PROVE  IInv' /\ OccsMove
<1>1. OccsMove
  BY Tables, VerdictRange
  DEF IInv, Reconcile, FoldVerdicts, OccsMove, SetState, OccurrenceRows, OccStates, Settled, Active
<1>2. RunsMove
  BY RunsUnchanged DEF IInv, Reconcile
<1>3. \A i \in DOMAIN occs : occs[i].state # occs'[i].state =>
          occs'[i].state \in {"succeeded", "failed", "outcome_unknown"}
  BY Tables, VerdictRange DEF IInv, Reconcile, FoldVerdicts, SetState, OccurrenceRows
<1>4. /\ task' = [task EXCEPT !.pc = "due", !.now = clock,
                            !.due = {[s |-> s, at |-> sched[s].next] : s \in Due}]
      /\ task.pc = "reconcile"
  BY DEF Reconcile, At
<1>5. {[s |-> s, at |-> sched[s].next] : s \in Due} \subseteq [s : Schedules, at : Nat]
  BY DEF Due, IInv, TypeOK, ScheduleRows
<1>6. TaskType'
  BY <1>1, <1>2, <1>4, <1>5, MoveLengths, TypeParts DEF IInv, TaskType, Tasks, TaskPcs, RestType
<1>7. InHand'
  BY <1>4 DEF IInv, TypeOK, InHand
<1>8. RestType' /\ UNCHANGED <<runs, exec, cancelled, tokens, touched>>
  BY TypeParts DEF IInv, RestType, Reconcile, TaskOnly
<1> QED
  BY <1>1, <1>3, <1>6, <1>7, <1>8, OccsStepIInv

(* A looked-at row is queued, and stays so, is leased or blocked. *)
LEMMA ClaimedRange ==
    ASSUME NEW i
    PROVE  Claimed(i) \in {"leased", "blocked", "queued"}
  BY DEF Claimed

LEMMA ClaimIInv ==
    ASSUME IInv, Claim
    PROVE  IInv' /\ OccsMove
<1>1. OccsMove
  BY Tables, ClaimedRange
  DEF IInv, Claim, OccsMove, SetState, OccurrenceRows, OccStates, Settled, Active
<1>2. RunsMove
  BY RunsUnchanged DEF IInv, Claim
<1>3. \A i \in DOMAIN occs : occs[i].state # occs'[i].state =>
          occs'[i].state \in {"leased", "blocked"} /\ occs[i].state = "queued"
  BY Tables, ClaimedRange DEF IInv, Claim, SetState, OccurrenceRows, Looked, Queued
<1>4. /\ task' = [task EXCEPT !.pc = "admit", !.now = 0, !.todo = {i \in Looked : Claimed(i) = "leased"}]
      /\ task.pc = "due"
  BY DEF Claim, At
<1>5. Looked \subseteq DOMAIN occs /\ Looked \subseteq Nat
  BY Tables DEF IInv, Looked, Queued
<1>6. TaskType'
  BY <1>1, <1>2, <1>4, <1>5, MoveLengths, TypeParts DEF IInv, TaskType, Tasks, TaskPcs
<1>7. InHand'
  <2>1. task.occ = 0 /\ 0 \notin DOMAIN occs
    BY <1>4, Tables DEF IInv, InHand
  <2> QED
    BY <1>4, <1>5, <2>1 DEF IInv, TypeOK, InHand
<1>8. RestType' /\ UNCHANGED <<runs, exec, cancelled, tokens, touched>>
  BY TypeParts DEF IInv, RestType, Claim, TaskOnly
<1>9. \A i \in DOMAIN occs : occs[i].state = "queued" => occs[i].run = 0
  BY DEF IInv, RowsRefer
<1> QED
  BY <1>1, <1>3, <1>6, <1>7, <1>8, <1>9, OccsStepIInv

(* The rows that advance_and_enqueue_schedule leaves: the old ones, perhaps pruned, and at
   most one queued row more, which no queue_one schedule gets while another one waits. *)
LEMMA AdvanceRows ==
    ASSUME IInv, NEW d \in [s : Schedules, at : Nat], occs' = Pruned(Enqueued(d), d.s)
    PROVE  /\ occs' \in Seq(OccurrenceRows)
           /\ Len(occs') \in Len(occs)..(Len(occs) + 1)
           /\ \A i \in DOMAIN occs :
                 /\ occs'[i].sched = occs[i].sched /\ occs'[i].run = occs[i].run
                 /\ occs'[i].state = occs[i].state \/ (occs[i].state \in Settled /\ occs'[i].state = "gone")
           /\ \A i \in DOMAIN occs' \ DOMAIN occs :
                 /\ occs'[i].state = "queued" /\ occs'[i].run = 0 /\ occs'[i].sched = d.s
                 /\ ~(sched[d.s].policy.kind = "queue_one" /\ AlreadyQueued(d.s))
<1> DEFINE rows == Enqueued(d)
           new == NewOccurrence(d.s, d.at)
<1>1. occs \in Seq(OccurrenceRows) /\ new \in OccurrenceRows
  BY DEF IInv, TypeOK, NewOccurrence, OccurrenceRows, OccStates
<1>2. \/ rows = occs
      \/ rows = Append(occs, new) /\ ~(sched[d.s].policy.kind = "queue_one" /\ AlreadyQueued(d.s))
  BY DEF Enqueued
<1>3. rows \in Seq(OccurrenceRows) /\ Len(rows) \in Len(occs)..(Len(occs) + 1)
  BY <1>1, <1>2
<1>4. \A i \in DOMAIN occs : i \in DOMAIN rows /\ rows[i] = occs[i]
  BY <1>1, <1>2
<1>5. \A i \in DOMAIN rows \ DOMAIN occs : rows[i] = new
  BY <1>1, <1>2
<1> HIDE DEF rows
<1>6. occs' = Pruned(rows, d.s)
  BY DEF rows
<1>7. /\ occs' \in [DOMAIN rows -> OccurrenceRows]
      /\ \A i \in DOMAIN rows :
            /\ occs'[i].sched = rows[i].sched /\ occs'[i].run = rows[i].run
            /\ occs'[i].state = rows[i].state \/ (rows[i].state \in Settled /\ occs'[i].state = "gone")
  <2>1. \A i \in DOMAIN rows : rows[i] \in OccurrenceRows
    BY <1>3
  <2>2. \A i \in DOMAIN rows : SetState(rows[i], "gone") \in OccurrenceRows
    BY <2>1 DEF SetState, OccurrenceRows, OccStates
  <2> QED
    BY <1>6, <2>1, <2>2 DEF Pruned, SetState, OccurrenceRows
<1>8. occs' \in Seq(OccurrenceRows) /\ Len(occs') = Len(rows) /\ DOMAIN occs' = DOMAIN rows
  BY <1>3, <1>7, SeqMap
<1>9. \A i \in DOMAIN occs' \ DOMAIN occs : occs'[i].state = "queued" /\ occs'[i].run = 0 /\ occs'[i].sched = d.s
  BY <1>5, <1>7, <1>8 DEF NewOccurrence, Settled
<1>10. ASSUME NEW i \in DOMAIN occs' \ DOMAIN occs
       PROVE  ~(sched[d.s].policy.kind = "queue_one" /\ AlreadyQueued(d.s))
  <2>1. rows # occs
    BY <1>8
  <2> QED
    BY <1>2, <2>1 DEF rows
<1> QED
  BY <1>3, <1>4, <1>7, <1>8, <1>9, <1>10

LEMMA AdvanceIInv ==
    ASSUME IInv, AdvanceAndEnqueue
    PROVE  IInv'
<1>1. PICK d \in task.due : Advance(d)
  BY DEF AdvanceAndEnqueue
<1>2. d \in [s : Schedules, at : Nat] /\ task.pc = "due" /\ RunsMove /\ UNCHANGED runs
  <2>1. task.due \subseteq [s : Schedules, at : Nat]
    BY DEF IInv, TypeOK, Tasks
  <2>2. UNCHANGED runs
    BY <1>1 DEF Advance, Rows
  <2> QED
    BY <2>1, <2>2, RunsUnchanged DEF IInv, AdvanceAndEnqueue, At
<1>3. UNCHANGED <<exec, tokens, cancelled, touched, clock, access, spent, forsaken>>
  BY DEF AdvanceAndEnqueue, TaskOnly
<1>4. /\ task'.todo = {} /\ task'.occ = 0 /\ task'.pc \in {"due", "reconcile"}
      /\ task' \in Tasks
      /\ task'.run \in 0..Len(runs)
  <2>1. /\ task.todo = {} /\ task.occ = 0 /\ task.run \in 0..Len(runs)
        /\ task \in Tasks
    BY <1>2 DEF IInv, TypeOK, InHand
  <2>2. CASE task' = NewTask("reconcile")
    BY <2>2, Tables DEF NewTask, Tasks, TaskPcs, IInv
  <2>3. CASE task' = [task EXCEPT !.due = @ \ {d}]
    BY <2>1, <2>3, <1>2 DEF Tasks
  <2> QED
    BY <1>1, <2>2, <2>3 DEF Advance, AbortTick
<1>5. /\ sched' \in [Schedules -> ScheduleRows]
      /\ \A s \in Schedules : sched'[s].live = sched[s].live /\ sched'[s].policy = sched[s].policy
  <2>1. task.now \in Nat /\ sched \in [Schedules -> ScheduleRows] /\ d.s \in Schedules
    BY <1>2 DEF IInv, TypeOK, Tasks
  <2>2. CASE UNCHANGED sched
    BY <2>1, <2>2
  <2>3. CASE sched' = [sched EXCEPT ![d.s].next = next_cron_fire(task.now)]
    BY <2>1, <2>3 DEF next_cron_fire, ScheduleRows
  <2> QED
    BY <1>1, <2>2, <2>3 DEF Advance, Rows
<1>6. InHand'
  BY <1>4 DEF InHand
<1>7. RestType'
  BY <1>3, <1>5, TypeParts DEF IInv, RestType
<1>8. CASE UNCHANGED occs
  <2>1. OccsMove
    BY <1>8, OccsUnchanged DEF IInv
  <2>2. TaskType'
    BY <1>2, <1>4, <1>8, Tables DEF TaskType, IInv
  <2> QED
    BY <1>2, <1>3, <1>6, <1>7, <1>8, <2>1, <2>2, OccsStepIInv
<1>9. CASE occs' = Pruned(Enqueued(d), d.s)
  <2>1. /\ occs' \in Seq(OccurrenceRows)
        /\ Len(occs') \in Len(occs)..(Len(occs) + 1)
        /\ \A i \in DOMAIN occs : occs'[i].run = occs[i].run
               /\ (occs'[i].state = occs[i].state \/ (occs[i].state \in Settled /\ occs'[i].state = "gone"))
        /\ \A i \in DOMAIN occs' \ DOMAIN occs : occs'[i].state = "queued" /\ occs'[i].run = 0
    BY <1>2, <1>9, AdvanceRows
  <2>2. DOMAIN occs' = 1..Len(occs') /\ Len(occs') \in Nat /\ DOMAIN occs \subseteq DOMAIN occs'
    BY <2>1, Tables DEF IInv
  <2>3. TypeOK'
    <3>1. RowsType'
      <4>1. \A i \in DOMAIN occs' : occs'[i].run \in 0..Len(runs')
        <5>1. Len(runs') = Len(runs) /\ Len(runs) \in Nat
          BY <1>2, Tables DEF IInv
        <5>2. \A i \in DOMAIN occs : occs[i].run \in 0..Len(runs)
          BY DEF IInv, TypeOK
        <5> QED
          BY <5>1, <5>2, <2>1
      <4>2. \A r \in DOMAIN runs' : runs'[r].occ \in 0..Len(occs')
        BY <2>1, <2>2, <1>2, Tables DEF IInv, TypeOK
      <4> QED
        BY <4>1, <4>2, <2>1, <1>2 DEF IInv, TypeOK, RowsType
    <3>2. TaskType'
      BY <1>2, <1>4, <2>2 DEF TaskType
    <3>3. ExecType'
      BY <1>2, <1>3, TypeParts DEF IInv, ExecType
    <3> QED
      BY <3>1, <3>2, <3>3, <1>7, NextTypeParts
  <2>4. RowsRefer'
    BY <2>1, <2>2, <1>2 DEF IInv, RowsRefer, Settled
  <2>5. BoundRuns'
    <3>1. \A r \in DOMAIN runs : runs[r].occ # 0 => runs[r].occ \in DOMAIN occs
      BY Tables DEF IInv, TypeOK
    <3>2. \A r \in DOMAIN runs : Bound(r) => Bound(r)'
      BY <3>1, <2>1, <1>2 DEF Bound
    <3> QED
      BY <3>2, <1>2, <1>3 DEF IInv, BoundRuns, TypeOK
  <2> QED
    BY <1>6, <2>3, <2>4, <2>5 DEF IInv
<1> QED
  BY <1>1, <1>8, <1>9 DEF Advance, Rows

-----------------------------------------------------------------------------
(* Admission. *)

(* Appending a run keeps every reference to the runs that were there. *)
LEMMA AppendRun ==
    ASSUME IInv, NEW o \in 0..Len(occs), Len(runs) < MaxRuns,
           runs' = Append(runs, [occ |-> o, state |-> "queued"]), UNCHANGED occs
    PROVE  /\ RowsType' /\ RowsRefer'
           /\ Len(runs') = Len(runs) + 1 /\ DOMAIN runs' = 1..(Len(runs) + 1)
           /\ \A r \in DOMAIN runs : runs'[r] = runs[r]
           /\ runs'[Len(runs) + 1] = [occ |-> o, state |-> "queued"]
<1>1. runs \in Seq(RunRows) /\ [occ |-> o, state |-> "queued"] \in RunRows
  BY Tables DEF IInv, TypeOK, RunRows, RunStates, Open
<1>2. /\ runs' \in Seq(RunRows) /\ Len(runs') = Len(runs) + 1 /\ DOMAIN runs' = 1..(Len(runs) + 1)
      /\ \A r \in DOMAIN runs : runs'[r] = runs[r]
      /\ runs'[Len(runs) + 1] = [occ |-> o, state |-> "queued"]
  BY <1>1
<1>3. DOMAIN runs = 1..Len(runs) /\ Len(runs) \in Nat /\ MaxRuns \in Nat /\ Len(occs) \in Nat
  BY Tables DEF IInv
<1>4. \A i \in DOMAIN occs : occs[i].run \in 0..Len(runs')
  BY <1>2, <1>3 DEF IInv, TypeOK
<1>5. \A r \in DOMAIN runs' : runs'[r].occ \in 0..Len(occs)
  <2>1. \A r \in DOMAIN runs : runs[r].occ \in 0..Len(occs)
    BY DEF IInv, TypeOK
  <2>2. [occ |-> o, state |-> "queued"].occ \in 0..Len(occs)
    OBVIOUS
  <2> QED
    BY <2>1, <2>2, <1>2, <1>3
<1>6. RowsType'
  BY <1>2, <1>3, <1>4, <1>5 DEF IInv, TypeOK, RowsType
<1>7. RowsRefer'
  <2>1. \A i \in DOMAIN occs : occs[i].run # 0 => occs[i].run \in DOMAIN runs
    BY <1>3 DEF IInv, TypeOK
  <2> QED
    BY <2>1, <1>2 DEF IInv, RowsRefer
<1> QED
  BY <1>2, <1>6, <1>7

(* Runs that are bound stay so when a run is appended. *)
LEMMA AppendBound ==
    ASSUME IInv, UNCHANGED <<occs, touched>>, \A r \in DOMAIN runs : runs'[r] = runs[r],
           DOMAIN runs \subseteq DOMAIN runs',
           \A r \in RunIds : exec'[r].pc # "none" =>
               exec[r].pc # "none" \/ (r \in DOMAIN runs' /\ runs'[r].occ = 0)
    PROVE  BoundRuns'
<1>1. \A r \in DOMAIN runs : Bound(r) => Bound(r)'
  BY DEF Bound
<1>2. \A r \in DOMAIN runs' : runs'[r].occ = 0 => Bound(r)'
  BY DEF Bound
<1> QED
  BY <1>1, <1>2 DEF IInv, BoundRuns, TypeOK

LEMMA AdmitIInv ==
    ASSUME IInv, Admit
    PROVE  IInv'
<1>1. PICK i \in task.todo :
          \/ /\ access = "ok" /\ Len(runs) < MaxRuns
             /\ runs' = Append(runs, [occ |-> i, state |-> "queued"])
             /\ task' = [task EXCEPT !.pc = "attach", !.todo = @ \ {i}, !.occ = i, !.run = Len(runs) + 1]
          \/ /\ \E v \in admission_failure_states :
                   task' = [task EXCEPT !.pc = "reject", !.todo = @ \ {i}, !.occ = i, !.verdict = v]
             /\ UNCHANGED runs
  BY DEF Admit
<1>2. UNCHANGED <<sched, occs, exec, tokens, cancelled, touched, clock, access, spent, forsaken>> /\ task.pc = "admit"
  BY DEF Admit, TaskOnly, At
<1>3. /\ i \in DOMAIN occs /\ i \in 0..Len(occs) /\ i # 0 /\ i \in Nat
      /\ task \in Tasks /\ task.todo \subseteq DOMAIN occs
      /\ DOMAIN runs = 1..Len(runs) /\ Len(runs) \in Nat
  BY Tables DEF IInv, TypeOK
<1>4. RestType'
  BY <1>2, TypeParts DEF IInv, RestType
<1>5. CASE runs' = Append(runs, [occ |-> i, state |-> "queued"]) /\ Len(runs) < MaxRuns /\
           task' = [task EXCEPT !.pc = "attach", !.todo = @ \ {i}, !.occ = i, !.run = Len(runs) + 1]
  <2>1. /\ RowsType' /\ RowsRefer'
        /\ Len(runs') = Len(runs) + 1 /\ DOMAIN runs' = 1..(Len(runs) + 1)
        /\ \A r \in DOMAIN runs : runs'[r] = runs[r]
        /\ runs'[Len(runs) + 1] = [occ |-> i, state |-> "queued"]
    BY <1>2, <1>3, <1>5, AppendRun
  <2>2. TaskType'
    <3>1. task' \in Tasks
      <4>1. task.todo \ {i} \in SUBSET Nat /\ Len(runs) + 1 \in Nat
        BY <1>3 DEF Tasks
      <4> QED
        BY <4>1, <1>3, <1>5 DEF Tasks, TaskPcs
    <3> QED
      BY <3>1, <1>2, <1>3, <1>5, <2>1 DEF TaskType, Tasks
  <2>3. ExecType'
    BY <1>2, <1>3, <2>1, TypeParts DEF IInv, ExecType
  <2>4. InHand'
    <3>1. /\ task'.pc = "attach" /\ task'.todo = task.todo \ {i} /\ task'.occ = i
          /\ task'.run = Len(runs) + 1
      BY <1>3, <1>5 DEF Tasks
    <3> QED
      BY <1>3, <3>1, <2>1 DEF InHand
  <2>5. BoundRuns'
    BY <1>2, <1>3, <2>1, AppendBound
  <2> QED
    BY <1>4, <2>1, <2>2, <2>3, <2>4, <2>5, NextTypeParts DEF IInv
<1>6. ASSUME NEW v \in admission_failure_states, UNCHANGED runs,
             task' = [task EXCEPT !.pc = "reject", !.todo = @ \ {i}, !.occ = i, !.verdict = v]
      PROVE  IInv'
  <2>1. OccsMove
    BY <1>2, <1>6, OccsUnchanged DEF IInv
  <2>2. v \in {"rejected", "blocked"}
    BY <1>6 DEF admission_failure_states
  <2>3. TaskType'
    <3>1. task' \in Tasks
      BY <1>3, <1>6, <2>2 DEF Tasks, TaskPcs
    <3>2. task.run \in 0..Len(runs)
      BY DEF IInv, TypeOK
    <3> QED
      BY <3>1, <3>2, <1>2, <1>3, <1>6 DEF TaskType, Tasks
  <2>4. InHand'
    BY <1>3, <1>6, <2>2 DEF InHand, Tasks
  <2> QED
    BY <1>2, <1>4, <1>6, <2>1, <2>3, <2>4, OccsStepIInv
<1> QED
  BY <1>1, <1>5, <1>6

LEMMA AttachIInv ==
    ASSUME IInv, Attach
    PROVE  IInv'
<1>1. /\ UNCHANGED <<clock, sched, runs, cancelled, access, touched, spent, forsaken>> /\ task.pc = "attach"
      /\ RestType'
  BY TypeParts DEF Attach, At, IInv, RestType
<1>2. /\ task.occ \in DOMAIN occs /\ task.run \in DOMAIN runs /\ runs[task.run].occ = task.occ
      /\ task \in Tasks /\ task.todo \subseteq DOMAIN occs /\ task.run \in RunIds
      /\ task.occ \notin task.todo /\ task.run # 0
  BY <1>1, Tables DEF IInv, TypeOK, InHand, RunIds
<1>3. CASE occs[task.occ].state # "leased"
  <2>1. /\ task' = [task EXCEPT !.pc = "reject", !.verdict = "blocked"]
        /\ UNCHANGED <<occs, exec, tokens>>
    BY <1>3 DEF Attach
  <2>2. OccsMove
    BY <2>1, OccsUnchanged DEF IInv
  <2>3. TaskType'
    BY <1>1, <1>2, <2>1, TypeParts DEF IInv, TaskType, Tasks, TaskPcs
  <2>4. InHand'
    BY <1>1, <1>2, <2>1 DEF IInv, InHand, Tasks
  <2> QED
    BY <1>1, <2>1, <2>2, <2>3, <2>4, OccsStepIInv
<1>4. CASE occs[task.occ].state = "leased"
  <2> DEFINE i == task.occ
             new == [occs[i] EXCEPT !.state = "running", !.run = task.run]
  <2>1. occs' = [occs EXCEPT ![i] = new] /\ Spawn(task.run) /\ NextOccurrence
    BY <1>4 DEF Attach
  <2>2. new \in OccurrenceRows /\ new.state = "running" /\ new.run = task.run /\ new.sched = occs[i].sched
    BY <1>2, Tables DEF IInv, OccurrenceRows, OccStates, Active, Tasks
  <2> HIDE DEF new
  <2>3. occs' \in Seq(OccurrenceRows) /\ Len(occs') = Len(occs) /\ DOMAIN occs' = DOMAIN occs
    BY <2>1, <2>2, <1>2 DEF IInv, TypeOK
  <2>4. \A j \in DOMAIN occs : occs'[j] = IF j = i THEN new ELSE occs[j]
    BY <2>1
  <2>5. TypeOK'
    <3>1. RowsType'
      <4>1. \A j \in DOMAIN occs' : occs'[j].run \in 0..Len(runs')
        BY <1>1, <1>2, <2>2, <2>3, <2>4, Tables DEF IInv, TypeOK
      <4> QED
        BY <4>1, <1>1, <2>3 DEF IInv, TypeOK, RowsType
    <3>2. TaskType'
      <4>1. task' = [task EXCEPT !.pc = "admit", !.occ = 0, !.run = 0, !.verdict = "none"]
        BY <2>1 DEF NextOccurrence
      <4>2. task' \in Tasks
        BY <4>1, <1>2 DEF Tasks, TaskPcs
      <4> QED
        BY <4>1, <4>2, <1>2, <1>1, <2>3, Tables DEF TaskType, Tasks, IInv
    <3>3. ExecType'
      BY <1>1, <1>2, <2>1, TypeParts DEF IInv, ExecType, Spawn, Executors, ExecPcs
    <3> QED
      BY <3>1, <3>2, <3>3, <1>1, NextTypeParts
  <2>6. RowsRefer'
    BY <1>1, <1>2, <2>2, <2>3, <2>4 DEF IInv, RowsRefer
  <2>7. InHand'
    BY <1>2, <2>1, Tables DEF NextOccurrence, InHand, Tasks, IInv
  <2>8. BoundRuns'
    <3>1. occs[i].run = 0
      BY <1>2, <1>4 DEF IInv, RowsRefer
    <3>2. ASSUME NEW r \in DOMAIN runs, Bound(r)
          PROVE  Bound(r)'
      <4>1. r # 0 /\ (runs[r].occ # 0 => runs[r].occ \in DOMAIN occs)
        BY Tables DEF IInv, TypeOK
      <4> QED
        BY <4>1, <1>1, <2>4, <3>1, <3>2 DEF Bound
    <3>3. \A r \in DOMAIN runs : r = task.run => Bound(r)'
      BY <1>1, <1>2, <2>2, <2>4 DEF Bound
    <3>4. \A r \in RunIds : exec'[r].pc # "none" => r = task.run \/ exec[r].pc # "none"
      BY <2>1 DEF Spawn, IInv, TypeOK
    <3> QED
      BY <1>1, <1>2, <3>2, <3>3, <3>4 DEF IInv, BoundRuns, TypeOK
  <2> QED
    BY <2>5, <2>6, <2>7, <2>8 DEF IInv
<1> QED
  BY <1>3, <1>4

(* What attach_occurrence_run does to the rows: a leased row becomes running with its run. *)
LEMMA AttachRows ==
    ASSUME IInv, Attach
    PROVE  /\ task.occ \in DOMAIN occs /\ DOMAIN occs' = DOMAIN occs
           /\ \A i \in DOMAIN occs : occs'[i].sched = occs[i].sched /\ (i # task.occ => occs'[i] = occs[i])
           /\ \/ UNCHANGED occs /\ occs[task.occ].state # "leased"
              \/ occs[task.occ].state = "leased" /\ occs'[task.occ].state = "running"
<1>1. task.occ \in DOMAIN occs
  BY Tables DEF IInv, TypeOK, InHand, Attach, At
<1>2. CASE UNCHANGED occs /\ occs[task.occ].state # "leased"
  BY <1>1, <1>2
<1>3. CASE /\ occs[task.occ].state = "leased"
           /\ occs' = [occs EXCEPT ![task.occ] = [@ EXCEPT !.state = "running", !.run = task.run]]
  <2>1. occs[task.occ] \in OccurrenceRows
    BY <1>1, Tables DEF IInv
  <2>2. occs'[task.occ].sched = occs[task.occ].sched /\ occs'[task.occ].state = "running"
    BY <1>1, <1>3, <2>1 DEF OccurrenceRows
  <2> QED
    BY <1>1, <1>3, <2>2
<1> QED
  BY <1>2, <1>3 DEF Attach

LEMMA RejectIInv ==
    ASSUME IInv, Reject
    PROVE  IInv' /\ OccsMove
<1>1. /\ task.pc = "reject" /\ task' = [task EXCEPT !.pc = "disable"] /\ RestType'
      /\ UNCHANGED <<runs, exec, cancelled, tokens, touched>>
  BY TypeParts DEF Reject, Goto, At, TaskOnly, IInv, RestType
<1>2. /\ task.occ \in DOMAIN occs /\ task \in Tasks /\ task.verdict \in {"blocked", "rejected"}
  BY <1>1, Tables DEF IInv, TypeOK, InHand, Tasks
<1>3. OccsMove /\ \A i \in DOMAIN occs : occs'[i].state \in {occs[i].state, "blocked", "rejected"}
  <2>1. occs[task.occ] \in OccurrenceRows /\ SetState(occs[task.occ], task.verdict) \in OccurrenceRows
    BY <1>2, Tables DEF IInv, SetState, OccurrenceRows, OccStates, Settled
  <2>2. occs \in [DOMAIN occs -> OccurrenceRows]
    BY DEF IInv, TypeOK
  <2>3. occs' \in [DOMAIN occs -> OccurrenceRows]
    BY <2>1, <2>2 DEF Reject
  <2> QED
    BY <1>2, <2>1, <2>2, <2>3 DEF Reject, OccsMove, SetState, OccurrenceRows
<1>4. RunsMove
  BY <1>1, RunsUnchanged DEF IInv
<1>5. TaskType'
  BY <1>1, <1>3, <1>4, MoveLengths, TypeParts DEF IInv, TaskType, Tasks, TaskPcs
<1>6. InHand'
  BY <1>1, <1>2 DEF IInv, InHand, Tasks
<1> QED
  BY <1>1, <1>3, <1>5, <1>6, OccsStepIInv

LEMMA NewTaskType ==
    ASSUME IInv, NEW pc \in TaskPcs, task' = NewTask(pc), Len(occs') \in Nat, Len(runs') \in Nat
    PROVE  TaskType'
  BY DEF TaskType, NewTask, Tasks

LEMMA DisableIInv ==
    ASSUME IInv, Disable
    PROVE  IInv'
<1>1. /\ task.pc = "disable"
      /\ UNCHANGED <<occs, runs, exec, cancelled, tokens, touched, clock, access, spent, forsaken>>
  BY DEF Disable, At, TaskOnly
<1>2. task.occ \in DOMAIN occs /\ occs[task.occ].sched \in Schedules /\ task \in Tasks /\ sched \in [Schedules -> ScheduleRows]
  <2>1. task.occ \in DOMAIN occs
    BY <1>1, Tables DEF IInv, TypeOK, InHand
  <2> QED
    BY <2>1, Tables DEF IInv, TypeOK, OccurrenceRows
<1>3. OccsMove
  BY <1>1, OccsUnchanged DEF IInv
<1>4. sched' \in [Schedules -> ScheduleRows]
  <2>1. NoFire \in Nat
    BY Tables DEF NoFire, IInv
  <2> QED
    BY <1>2, <2>1 DEF Disable, ScheduleRows
<1>5. TaskType' /\ InHand'
  <2>1. CASE NextOccurrence
    <3>1. task' \in Tasks
      BY <1>2, <2>1 DEF NextOccurrence, Tasks, TaskPcs
    <3>2. task'.todo = task.todo /\ task'.occ = 0 /\ task'.run = 0 /\ task'.pc = "admit"
      BY <1>2, <2>1 DEF NextOccurrence, Tasks
    <3>3. task.todo \subseteq DOMAIN occs /\ 0 \notin DOMAIN occs
      BY Tables DEF IInv, TypeOK
    <3>4. TaskType'
      BY <3>1, <3>2, <3>3, <1>1, Tables DEF TaskType, IInv
    <3> QED
      BY <3>2, <3>3, <3>4 DEF InHand
  <2>2. CASE task' = NewTask("reconcile")
    <3>1. TaskType'
      BY <2>2, <1>1, NewTaskType, Tables DEF IInv, TaskPcs
    <3> QED
      BY <2>2, <3>1 DEF InHand, NewTask
  <2> QED
    BY <2>1, <2>2 DEF Disable, AbortTick
<1>6. RestType'
  BY <1>1, <1>4, TypeParts DEF IInv, RestType
<1> QED
  BY <1>1, <1>3, <1>5, <1>6, OccsStepIInv

(* The task starts anew: the end of a tick, a crash, a restart. *)
LEMMA NewTaskIInv ==
    ASSUME IInv, EndTick \/ Crash \/ Restart
    PROVE  IInv'
<1>1. PICK pc \in {"reconcile", "down", "recover_running"} : task' = NewTask(pc)
  BY DEF EndTick, AbortTick, Crash, Restart
<1>2. /\ UNCHANGED <<occs, runs, sched, clock, access, touched>>
      /\ UNCHANGED spent \/ Spend("crash")
      /\ forsaken' \in {forsaken, {}}
  BY DEF EndTick, Rows, TaskOnly, Crash, Restart, EnvOnly
<1>3. /\ exec' \in [RunIds -> Executors] /\ cancelled' \subseteq tokens' /\ tokens' \subseteq RunIds
      /\ \A r \in RunIds : exec'[r].pc # "none" => exec[r].pc # "none"
      /\ \A r \in RunIds : exec'[r].pc = "conclude" => exec'[r].end # "none"
  <2>1. CASE Crash
    BY <2>1 DEF Crash, Idle, Executors, ExecPcs
  <2>2. CASE EndTick \/ Restart
    BY <2>2 DEF EndTick, TaskOnly, Restart, EnvOnly, IInv, TypeOK
  <2> QED
    BY <2>1, <2>2
<1>4. OccsMove /\ RunsMove
  BY <1>2, OccsUnchanged, RunsUnchanged DEF IInv
<1>5. TypeOK'
  <2>1. TaskType'
    BY <1>1, <1>2, NewTaskType, Tables DEF IInv, TaskPcs
  <2>2. ExecType'
    BY <1>2, <1>3 DEF IInv, TypeOK, ExecType
  <2>3. RestType'
    BY <1>2, SpendType DEF IInv, TypeOK, RestType, Events
  <2> QED
    BY <2>1, <2>2, <2>3, <1>4, MoveLengths, NextTypeParts DEF IInv
<1>6. RowsRefer'
  BY <1>2, <1>4, MoveRefers
<1>7. BoundRuns'
  BY <1>2, <1>3, <1>4, MoveBound
<1>8. InHand'
  BY <1>1 DEF InHand, NewTask
<1> QED
  BY <1>5, <1>6, <1>7, <1>8 DEF IInv

-----------------------------------------------------------------------------
(* The executors. *)

(* What every step of the executor of r does: it moves the state of its own run, and it is
   there already. *)
LEMMA ExecutorEffect ==
    ASSUME IInv, NEW r \in RunIds, ExecutorStep(r)
    PROVE  /\ r \in DOMAIN runs /\ exec[r].pc \notin {"none", "create"}
           /\ UNCHANGED <<clock, sched, occs, task, access, spent, forsaken>>
           /\ RunsMove /\ \A q \in DOMAIN runs : q # r => runs'[q] = runs[q]
           /\ exec' \in [RunIds -> Executors] /\ \A q \in RunIds : q # r => exec'[q] = exec[q]
           /\ \A q \in RunIds : exec'[q].pc = "conclude" => exec'[q].end # "none"
           /\ exec'[r].pc # "create"
           /\ cancelled' \subseteq tokens' /\ tokens' \subseteq RunIds
           /\ touched' \in {touched, touched \union {r}}
<1>1. exec[r].pc \notin {"none", "create"}
  BY DEF ExecutorStep, AdmitRun, PrepareRun, ConnectRun, StartRun, NextScript, RunScripts, ConcludeRun,
         FailRun, Transition
<1>2. r \in DOMAIN runs
  BY <1>1 DEF IInv, BoundRuns
<1>3. UNCHANGED <<clock, sched, occs, task, access, spent, forsaken>>
  BY DEF ExecutorStep, AdmitRun, PrepareRun, ConnectRun, StartRun, NextScript, RunScripts, ConcludeRun,
         FailRun, Transition, ExecOnly
<1>4. exec \in [RunIds -> Executors] /\ cancelled \subseteq tokens /\ tokens \subseteq RunIds
  BY DEF IInv, TypeOK
<1>5. UNCHANGED runs \/ \E to \in RunEndings \union {"admitted", "preparing", "running"} : Move(r, to)
  <2>1. exec[r].pc = "conclude" => exec[r].end \in RunEndings
    BY <1>4 DEF IInv, TypeOK, Executors
  <2> QED
    BY <2>1 DEF ExecutorStep, AdmitRun, PrepareRun, ConnectRun, StartRun, NextScript, RunScripts,
                ConcludeRun, FailRun, Transition, RunEndings
<1>6. RunsMove /\ \A q \in DOMAIN runs : q # r => runs'[q] = runs[q]
  <2>1. CASE UNCHANGED runs
    BY <2>1, RunsUnchanged DEF IInv
  <2>2. ASSUME NEW to \in RunEndings \union {"admitted", "preparing", "running"}, Move(r, to)
        PROVE  RunsMove /\ \A q \in DOMAIN runs : q # r => runs'[q] = runs[q]
    BY <1>2, <2>2, Tables DEF IInv, Move, RunsMove, SetState, RunRows, RunStates, Open
  <2> QED
    BY <1>5, <2>1, <2>2
<1>7. PICK e \in Executors :
          e.pc # "create" /\ (e.pc = "conclude" => e.end # "none") /\ exec' = [exec EXCEPT ![r] = e]
  <2>1. \/ exec' = [exec EXCEPT ![r] = Idle]
        \/ \E pc \in ExecPcs \ {"none", "create", "conclude"} : exec' = [exec EXCEPT ![r] = [exec[r] EXCEPT !.pc = pc]]
        \/ \E e \in RunEndings : exec' = [exec EXCEPT ![r] = [pc |-> "conclude", end |-> e]]
        \/ exec' = [exec EXCEPT ![r] = [pc |-> "fail", end |-> "none"]]
    BY DEF ExecutorStep, AdmitRun, PrepareRun, ConnectRun, StartRun, NextScript, RunScripts, ConcludeRun,
           FailRun, Transition, Step, Done, Endings, RunEndings, ExecPcs
  <2>2. Idle \in Executors /\ [pc |-> "fail", end |-> "none"] \in Executors /\ Idle.pc = "none"
    BY DEF Idle, Executors, ExecPcs
  <2>3. \A pc \in ExecPcs : [exec[r] EXCEPT !.pc = pc] \in Executors /\ [exec[r] EXCEPT !.pc = pc].pc = pc
    BY <1>4 DEF Executors
  <2>4. \A x \in RunEndings : [pc |-> "conclude", end |-> x] \in Executors /\ x # "none"
    BY DEF Executors, ExecPcs, RunEndings
  <2> QED
    BY <2>1, <2>2, <2>3, <2>4
<1>8. /\ exec' \in [RunIds -> Executors] /\ \A q \in RunIds : q # r => exec'[q] = exec[q]
      /\ \A q \in RunIds : exec'[q].pc = "conclude" => exec'[q].end # "none"
      /\ exec'[r].pc # "create"
  BY <1>4, <1>7 DEF IInv, TypeOK
<1>9. cancelled' \subseteq tokens' /\ tokens' \subseteq RunIds
  BY <1>4
  DEF ExecutorStep, AdmitRun, PrepareRun, ConnectRun, StartRun, NextScript, RunScripts, ConcludeRun,
      FailRun, Transition, Done, Quiet
<1>10. touched' \in {touched, touched \union {r}}
  BY DEF ExecutorStep, AdmitRun, PrepareRun, ConnectRun, StartRun, NextScript, RunScripts, ConcludeRun,
         FailRun, Transition, Quiet
<1> QED
  BY <1>1, <1>2, <1>3, <1>6, <1>8, <1>9, <1>10

LEMMA ExecutorIInv ==
    ASSUME IInv, NEW r \in RunIds, ExecutorStep(r)
    PROVE  IInv'
<1>1. /\ r \in DOMAIN runs /\ exec[r].pc \notin {"none", "create"}
      /\ UNCHANGED <<clock, sched, occs, task, access, spent, forsaken>>
      /\ RunsMove
      /\ exec' \in [RunIds -> Executors] /\ \A q \in RunIds : q # r => exec'[q] = exec[q]
      /\ \A q \in RunIds : exec'[q].pc = "conclude" => exec'[q].end # "none"
      /\ cancelled' \subseteq tokens' /\ tokens' \subseteq RunIds
      /\ touched' \in {touched, touched \union {r}}
  BY ExecutorEffect
<1>2. OccsMove
  BY <1>1, OccsUnchanged DEF IInv
<1>3. TypeOK'
  <2>1. TaskType'
    BY <1>1, <1>2, MoveLengths, TypeParts DEF IInv, TaskType
  <2>2. ExecType'
    <3>1. DOMAIN runs' = DOMAIN runs /\ touched \subseteq DOMAIN runs
      BY <1>1, <1>2, MoveLengths DEF IInv, TypeOK
    <3> QED
      BY <1>1, <3>1 DEF ExecType
  <2>3. RestType'
    BY <1>1 DEF IInv, TypeOK, RestType
  <2> QED
    BY <1>1, <1>2, <2>1, <2>2, <2>3, MoveLengths, NextTypeParts DEF IInv
<1>4. RowsRefer'
  BY <1>1, <1>2, MoveRefers
<1>5. BoundRuns'
  BY <1>1, <1>2, MoveBound
<1>6. InHand'
  BY <1>1, MoveInHand
<1> QED
  BY <1>3, <1>4, <1>5, <1>6 DEF IInv

-----------------------------------------------------------------------------
(* The handlers and the environment. *)

(* A change of the rows of run_schedule, of tokens, access or the clock. *)
LEMMA QuietIInv ==
    ASSUME IInv, UNCHANGED <<occs, runs, task, exec, touched>>, RestType',
           cancelled' \subseteq tokens' /\ tokens' \subseteq RunIds
    PROVE  IInv'
<1>1. OccsMove /\ RunsMove
  BY OccsUnchanged, RunsUnchanged DEF IInv
<1>2. TypeOK'
  BY TypeParts, NextTypeParts, <1>1, MoveLengths DEF IInv, TaskType, ExecType
<1>3. RowsRefer'
  BY <1>1, MoveRefers
<1>4. BoundRuns' /\ InHand'
  BY DEF IInv, BoundRuns, Bound, InHand
<1> QED
  BY <1>2, <1>3, <1>4 DEF IInv

LEMMA HandlersIInv ==
    ASSUME IInv,
           \/ \E s \in Schedules : UpdateSchedule(s)
           \/ \E r \in RunIds : CancelRun(r)
           \/ Revoke \/ Reinstate \/ Tick
    PROVE  IInv'
<1>1. UNCHANGED <<occs, runs, task, exec, touched>>
  BY DEF UpdateSchedule, CancelRun, Revoke, Reinstate, Tick, EnvOnly, HttpOnly
<1>2. cancelled' \subseteq tokens' /\ tokens' \subseteq RunIds
  BY DEF IInv, TypeOK, UpdateSchedule, CancelRun, Revoke, Reinstate, Tick, EnvOnly, HttpOnly
<1>3. RestType'
  <2>0. /\ UNCHANGED spent \/ \E w \in Events : Spend(w)
        /\ spent' \in [Events -> Nat] /\ UNCHANGED forsaken
    <3>1. UNCHANGED spent \/ \E w \in Events : Spend(w)
      BY DEF UpdateSchedule, CancelRun, Revoke, Reinstate, Tick, Events
    <3>2. UNCHANGED forsaken
      BY DEF UpdateSchedule, CancelRun, Revoke, Reinstate, Tick, EnvOnly, HttpOnly
    <3> QED
      BY <3>1, <3>2, SpendType DEF IInv, TypeOK
  <2>1. CASE \E s \in Schedules : UpdateSchedule(s)
    <3>1. NoFire \in Nat /\ next_cron_fire(clock) \in Nat
      BY Tables DEF NoFire, next_cron_fire, IInv, TypeOK
    <3> QED
      BY <2>0, <2>1, <3>1 DEF UpdateSchedule, HttpOnly, RestType, IInv, TypeOK, ScheduleRows
  <2>2. CASE (\E r \in RunIds : CancelRun(r)) \/ Revoke \/ Reinstate
    BY <2>0, <2>2 DEF CancelRun, Revoke, Reinstate, EnvOnly, HttpOnly, RestType, IInv, TypeOK
  <2>3. CASE Tick
    BY <2>0, <2>3 DEF Tick, EnvOnly, RestType, IInv, TypeOK
  <2> QED
    BY <2>1, <2>2, <2>3
<1> QED
  BY <1>1, <1>2, <1>3, QuietIInv

LEMMA DeleteIInv ==
    ASSUME IInv, NEW s \in Schedules, DeleteSchedule(s)
    PROVE  IInv' /\ OccsMove
<1>1. OccsMove /\ \A i \in DOMAIN occs : occs'[i].state \in {occs[i].state, "gone"}
  BY Tables DEF IInv, DeleteSchedule, OccsMove, SetState, OccurrenceRows, OccStates
<1>2. UNCHANGED <<runs, exec, tokens, cancelled, touched, clock, task, access, forsaken>> /\ Spend("edit")
  BY DEF DeleteSchedule, HttpOnly
<1>3. RestType'
  <2>1. sched' \in [Schedules -> ScheduleRows]
    BY DEF DeleteSchedule, IInv, TypeOK, ScheduleRows
  <2> QED
    BY <1>2, <2>1, SpendType DEF RestType, IInv, TypeOK, Events
<1>4. RunsMove
  BY <1>2, RunsUnchanged DEF IInv
<1>5. TaskType'
  BY <1>1, <1>2, <1>4, MoveLengths, TypeParts DEF IInv, TaskType
<1>6. InHand'
  BY <1>2, <1>4, MoveInHand
<1> QED
  BY <1>1, <1>2, <1>3, <1>5, <1>6, OccsStepIInv

LEMMA ResumeIInv ==
    ASSUME IInv, NEW i \in DOMAIN occs, ResumeOccurrence(i)
    PROVE  IInv' /\ OccsMove
<1>1. /\ OccsMove
      /\ \A j \in DOMAIN occs : occs'[j].state = occs[j].state \/ (occs'[j].state = "queued" /\ occs[j].run = 0)
  <2>1. occs[i] \in OccurrenceRows /\ SetState(occs[i], "queued") \in OccurrenceRows
    BY Tables DEF IInv, SetState, OccurrenceRows, OccStates
  <2>2. occs \in [DOMAIN occs -> OccurrenceRows]
    BY DEF IInv, TypeOK
  <2>3. occs' \in [DOMAIN occs -> OccurrenceRows]
    BY <2>1, <2>2 DEF ResumeOccurrence
  <2> QED
    BY <2>1, <2>2, <2>3 DEF ResumeOccurrence, OccsMove, SetState, OccurrenceRows
<1>2. UNCHANGED <<sched, runs, exec, tokens, cancelled, touched, clock, task, access, forsaken>> /\ Spend("resume")
  BY DEF ResumeOccurrence, HttpOnly
<1>3. RestType'
  BY <1>2, SpendType DEF RestType, IInv, TypeOK, Events
<1>4. RunsMove
  BY <1>2, RunsUnchanged DEF IInv
<1>5. TaskType'
  BY <1>1, <1>2, <1>4, MoveLengths, TypeParts DEF IInv, TaskType
<1>6. InHand'
  BY <1>2, <1>4, MoveInHand
<1> QED
  BY <1>1, <1>2, <1>3, <1>5, <1>6, OccsStepIInv

LEMMA CreateForegroundIInv ==
    ASSUME IInv, CreateForeground
    PROVE  IInv'
<1>1. /\ Len(runs) < MaxRuns /\ runs' = Append(runs, [occ |-> 0, state |-> "queued"])
      /\ exec' = [exec EXCEPT ![Len(runs) + 1].pc = "create"]
      /\ UNCHANGED <<sched, occs, tokens, cancelled, touched, clock, task, access, forsaken>> /\ Spend("foreground")
  BY DEF CreateForeground, HttpOnly
<1>2. 0 \in 0..Len(occs)
  BY Tables DEF IInv
<1>3. /\ RowsType' /\ RowsRefer'
      /\ Len(runs') = Len(runs) + 1 /\ DOMAIN runs' = 1..(Len(runs) + 1)
      /\ \A r \in DOMAIN runs : runs'[r] = runs[r]
      /\ runs'[Len(runs) + 1] = [occ |-> 0, state |-> "queued"]
  BY <1>1, <1>2, AppendRun
<1>4. /\ Len(runs) + 1 \in RunIds /\ Len(runs) \in Nat /\ DOMAIN runs = 1..Len(runs)
  BY <1>1, Tables DEF IInv, RunIds
<1>5. /\ exec' \in [RunIds -> Executors]
      /\ exec'[Len(runs) + 1].pc = "create"
      /\ \A r \in RunIds : r # Len(runs) + 1 => exec'[r] = exec[r]
  BY <1>1, <1>4 DEF IInv, TypeOK, Executors, ExecPcs
<1>6. ExecType'
  <2>1. touched' \subseteq DOMAIN runs'
    BY <1>1, <1>3, <1>4 DEF IInv, TypeOK
  <2> QED
    BY <2>1, <1>1, <1>5 DEF IInv, TypeOK, ExecType
<1>7. TaskType' /\ RestType'
  BY <1>1, <1>3, <1>4, SpendType DEF IInv, TypeOK, TaskType, RestType, Events
<1>8. BoundRuns'
  <2>1. \A r \in RunIds : exec'[r].pc # "none" =>
            exec[r].pc # "none" \/ (r \in DOMAIN runs' /\ runs'[r].occ = 0)
    BY <1>3, <1>4, <1>5
  <2> QED
    BY <2>1, <1>1, <1>3, <1>4, AppendBound
<1>9. InHand'
  <2>1. task.run # 0 => task.run \in DOMAIN runs
    BY Tables DEF IInv, TypeOK
  <2> QED
    BY <2>1, <1>1, <1>3 DEF IInv, InHand
<1> QED
  BY <1>3, <1>6, <1>7, <1>8, <1>9, NextTypeParts DEF IInv

LEMMA SpawnForegroundIInv ==
    ASSUME IInv, NEW r \in RunIds, SpawnForeground(r)
    PROVE  IInv'
<1>1. /\ exec[r].pc = "create" /\ exec' = [exec EXCEPT ![r] = [pc |-> "admit", end |-> "none"]]
      /\ tokens' = tokens \union {r}
      /\ UNCHANGED <<sched, occs, runs, cancelled, touched, clock, task, access, spent, forsaken>>
  BY DEF SpawnForeground, Spawn, HttpOnly
<1>2. OccsMove /\ RunsMove
  BY <1>1, OccsUnchanged, RunsUnchanged DEF IInv
<1>3. exec' \in [RunIds -> Executors] /\ \A q \in RunIds : exec'[q].pc # "none" => exec[q].pc # "none"
  BY <1>1 DEF IInv, TypeOK, Executors, ExecPcs
<1>4. TypeOK'
  <2>1. ExecType'
    BY <1>1, <1>3 DEF IInv, TypeOK, ExecType
  <2>2. TaskType' /\ RestType'
    BY <1>1 DEF IInv, TypeOK, TaskType, RestType
  <2> QED
    BY <2>1, <2>2, <1>2, MoveLengths, NextTypeParts DEF IInv
<1>5. RowsRefer' /\ InHand'
  BY <1>1, <1>2, MoveRefers, MoveInHand
<1>6. BoundRuns'
  BY <1>1, <1>2, <1>3, MoveBound
<1> QED
  BY <1>4, <1>5, <1>6 DEF IInv

LEMMA DropForegroundIInv ==
    ASSUME IInv, NEW r \in RunIds, DropForeground(r)
    PROVE  IInv'
<1>1. /\ exec[r].pc = "create" /\ exec' = [exec EXCEPT ![r] = Idle] /\ forsaken' = forsaken \union {r}
      /\ UNCHANGED <<sched, occs, runs, tokens, cancelled, touched, clock, task, access, spent>>
  BY DEF DropForeground
<1>2. OccsMove /\ RunsMove
  BY <1>1, OccsUnchanged, RunsUnchanged DEF IInv
<1>3. exec' \in [RunIds -> Executors] /\ \A q \in RunIds : exec'[q].pc # "none" => exec[q].pc # "none"
  BY <1>1 DEF IInv, TypeOK, Idle, Executors, ExecPcs
<1>4. TypeOK'
  <2>1. ExecType'
    BY <1>1, <1>3 DEF IInv, TypeOK, ExecType, Idle
  <2>2. TaskType' /\ RestType'
    BY <1>1 DEF IInv, TypeOK, TaskType, RestType
  <2> QED
    BY <2>1, <2>2, <1>2, MoveLengths, NextTypeParts DEF IInv
<1>5. RowsRefer' /\ InHand'
  BY <1>1, <1>2, MoveRefers, MoveInHand
<1>6. BoundRuns'
  BY <1>1, <1>2, <1>3, MoveBound
<1> QED
  BY <1>4, <1>5, <1>6 DEF IInv

-----------------------------------------------------------------------------
LEMMA InitIInv == Init => IInv
<1> SUFFICES ASSUME Init PROVE IInv
  OBVIOUS
<1>1. MaxRuns \in Nat
  BY BoundsAssumption
<1>2. RowsType /\ RowsRefer
  BY <1>1 DEF Init, RowsType, RowsRefer
<1>3. TaskType /\ InHand
  BY DEF Init, TaskType, InHand, NewTask, Tasks, TaskPcs
<1>4. ExecType /\ BoundRuns
  BY DEF Init, ExecType, BoundRuns, Idle, Executors, ExecPcs
<1>5. RestType
  <2>1. [live : {TRUE}, enabled : {TRUE}, next : {1}, policy : Policies] \subseteq ScheduleRows
    <3>1. {TRUE} \subseteq BOOLEAN /\ {1} \subseteq Nat
      OBVIOUS
    <3>2. ASSUME NEW x \in [live : {TRUE}, enabled : {TRUE}, next : {1}, policy : Policies]
          PROVE  x \in [live : BOOLEAN, enabled : BOOLEAN, next : Nat, policy : Policies]
      <4>1. x = [live |-> x.live, enabled |-> x.enabled, next |-> x.next, policy |-> x.policy]
        OBVIOUS
      <4>2. x.live \in BOOLEAN /\ x.enabled \in BOOLEAN /\ x.next \in Nat /\ x.policy \in Policies
        BY <3>1
      <4> QED
        BY <4>1, <4>2, Zenon
    <3> QED
      BY <3>2 DEF ScheduleRows
  <2>2. sched \in [Schedules -> ScheduleRows]
    BY <2>1 DEF Init
  <2> QED
    BY <2>2 DEF Init, RestType
<1> QED
  BY <1>2, <1>3, <1>4, <1>5, TypeParts DEF IInv

LEMMA NextIInv == IInv /\ [Next]_vars => IInv'
<1> SUFFICES ASSUME IInv, [Next]_vars PROVE IInv'
  OBVIOUS
<1>1. CASE SchedulerStep
  BY <1>1, RecoverRunsIInv, RecoverOccurrencesIInv, ReconcileIInv, AdvanceIInv, ClaimIInv, AdmitIInv,
     AttachIInv, RejectIInv, DisableIInv, NewTaskIInv DEF SchedulerStep
<1>2. CASE \E r \in RunIds : ExecutorStep(r) \/ SpawnForeground(r) \/ DropForeground(r) \/ CancelRun(r)
  BY <1>2, ExecutorIInv, SpawnForegroundIInv, DropForegroundIInv, HandlersIInv
<1>3. CASE \E s \in Schedules : UpdateSchedule(s) \/ DeleteSchedule(s)
  BY <1>3, HandlersIInv, DeleteIInv
<1>4. CASE \E i \in DOMAIN occs : ResumeOccurrence(i)
  BY <1>4, ResumeIInv
<1>5. CASE CreateForeground \/ Revoke \/ Reinstate \/ Tick \/ Crash \/ Restart
  BY <1>5, CreateForegroundIInv, HandlersIInv, NewTaskIInv
<1>6. CASE UNCHANGED vars
  BY <1>6 DEF vars, IInv, TypeOK, RowsRefer, InHand, BoundRuns, Bound
<1> QED
  BY <1>1, <1>2, <1>3, <1>4, <1>5, <1>6 DEF Next

(* For any schedules, policies, crashes, edits, resumes and revocations: the rows and the
   tasks agree (run_schedule.rs, run_executor.rs). *)
THEOREM RowsConsistent == Spec => []IInv
  BY InitIInv, NextIInv, PTL DEF Spec

(* The occurrence and run rows refer to each other as recovery and reconciliation need it. *)
THEOREM RowsAlwaysAgree == Spec => []RowsAgree
<1>1. IInv => RowsAgree
  BY DEF IInv, RowsAgree, RowsRefer
<1> QED
  BY <1>1, RowsConsistent, PTL

(* A set without two members is small. *)
LEMMA AtMostOne ==
    ASSUME NEW S, \A x, y \in S : x = y
    PROVE  IsFiniteSet(S) /\ Cardinality(S) <= 1
<1>1. CASE S = {}
  BY <1>1, FS_EmptySet
<1>2. CASE S # {}
  <2>1. PICK x \in S : TRUE
    BY <1>2
  <2>2. S = {x}
    BY <2>1
  <2>3. IsFiniteSet({x}) /\ Cardinality({x}) = 1
    BY FS_Singleton
  <2> QED
    BY <2>2, <2>3
<1> QED
  BY <1>1, <1>2

(* At most one run of an occurrence ever sends statements, whatever crashes, failed
   admissions, resumes, edits and revocations come between. *)
THEOREM OccurrencesNeverReplayed == Spec => []NeverReplayed
<1>1. ASSUME IInv PROVE NeverReplayed
  <2> SUFFICES ASSUME NEW i \in DOMAIN occs
               PROVE  Cardinality({r \in touched : runs[r].occ = i}) <= 1
    BY DEF NeverReplayed, Count
  <2>1. i # 0
    BY <1>1, Tables DEF IInv
  <2>2. \A q, r \in {x \in touched : runs[x].occ = i} : q = r
    BY <1>1, <2>1 DEF IInv, BoundRuns, Bound
  <2> QED
    BY <2>2, AtMostOne
<1> QED
  BY <1>1, RowsConsistent, PTL

-----------------------------------------------------------------------------
(* Claimed occurrences are held. *)

(* Only an edit touches the rows of the schedules otherwise than in next and enabled, and
   none brings a deleted schedule back. *)
LEMMA DeletedStays ==
    ASSUME IInv, Next, NEW s \in Schedules, ~sched[s].live
    PROVE  ~sched'[s].live
<1>1. sched \in [Schedules -> ScheduleRows]
  BY DEF IInv, TypeOK
<1>2. CASE AdvanceAndEnqueue
  <2>1. PICK d \in task.due : Advance(d)
    BY <1>2 DEF AdvanceAndEnqueue
  <2> QED
    BY <1>1, <2>1 DEF Advance, Rows, ScheduleRows
<1>3. CASE Disable
  BY <1>1, <1>3 DEF Disable, ScheduleRows
<1>4. CASE \E q \in Schedules : UpdateSchedule(q)
  BY <1>1, <1>4 DEF UpdateSchedule
<1>5. CASE \E q \in Schedules : DeleteSchedule(q)
  BY <1>1, <1>5 DEF DeleteSchedule, ScheduleRows
<1>6. CASE \E r \in RunIds : ExecutorStep(r)
  BY <1>6, ExecutorEffect
<1>7. CASE \/ RecoverRunning \/ RecoverUnstarted \/ RecoverOccurrences \/ Reconcile \/ Claim \/ Admit \/ Attach
           \/ Reject \/ EndTick
  BY <1>7 DEF RecoverRunning, RecoverUnstarted, RecoverOccurrences, Reconcile, Claim, Admit, Attach,
              Reject, EndTick, Rows
<1>8. CASE \/ \E r \in RunIds : SpawnForeground(r) \/ DropForeground(r) \/ CancelRun(r)
           \/ \E i \in DOMAIN occs : ResumeOccurrence(i)
           \/ CreateForeground \/ Revoke \/ Reinstate \/ Tick \/ Crash \/ Restart
  BY <1>8 DEF SpawnForeground, DropForeground, CancelRun, ResumeOccurrence, CreateForeground, Revoke, Reinstate, Tick,
              Crash, Restart, EnvOnly, HttpOnly
<1> QED
  BY <1>2, <1>3, <1>4, <1>5, <1>6, <1>7, <1>8 DEF Next, SchedulerStep

(* A row that no step of the task touches stays held. *)
LEMMA HeldFrame ==
    ASSUME IInv, HeldInv, Next, task'.todo \subseteq task.todo,
           task'.pc \in {"attach", "reject"} => task.pc \in {"attach", "reject"} /\ task'.occ = task.occ,
           \A i \in DOMAIN occs :
               occs[i].state = "leased" /\ (i \in task'.todo \/ task'.pc \in {"attach", "reject"}) =>
                   occs'[i].state = "leased" \/ ~sched'[occs[i].sched].live,
           \A i \in DOMAIN occs : occs'[i].sched = occs[i].sched
    PROVE  HeldInv'
<1>1. ASSUME NEW i \in DOMAIN occs, Held(i), i \in task'.todo \/ task'.pc \in {"attach", "reject"}
      PROVE  Held(i)'
  <2>1. occs[i].sched \in Schedules
    BY Tables DEF IInv, OccurrenceRows
  <2> QED
    BY <1>1, <2>1, DeletedStays DEF Held
<1>2. task.todo \subseteq DOMAIN occs /\ (task.pc \in {"attach", "reject"} => task.occ \in DOMAIN occs)
  BY Tables DEF IInv, TypeOK, InHand
<1>3. \A i \in task'.todo : Held(i)'
  BY <1>1, <1>2 DEF HeldInv
<1>4. ASSUME task'.pc \in {"attach", "reject"}
      PROVE  Held(task.occ)'
  <2> DEFINE o == task.occ
  <2>1. o \in DOMAIN occs /\ Held(o) /\ task'.occ = o
    BY <1>2, <1>4 DEF HeldInv
  <2> HIDE DEF o
  <2>2. occs'[o].state = "leased" \/ ~sched'[occs'[o].sched].live
    BY <1>1, <1>4, <2>1 DEF Held
  <2> QED
    BY <2>1, <2>2 DEF Held
<1> QED
  BY <1>3, <1>4 DEF HeldInv, Held

LEMMA NextHeld == IInv /\ HeldInv /\ [Next]_vars => HeldInv'
<1> SUFFICES ASSUME IInv, HeldInv, [Next]_vars PROVE HeldInv'
  OBVIOUS
<1>0. task \in Tasks /\ task.todo \subseteq DOMAIN occs
  BY DEF IInv, TypeOK
<1>1. CASE RecoverRunning \/ RecoverUnstarted \/ RecoverOccurrences \/ Reconcile
  <2>1. task.todo = {} /\ task'.todo = task.todo /\ task'.pc \notin {"attach", "reject"}
    BY <1>0, <1>1 DEF RecoverRunning, RecoverUnstarted, RecoverOccurrences, Reconcile, At, Goto, IInv,
                      InHand, Tasks
  <2> QED
    BY <2>1 DEF HeldInv
<1>2. CASE AdvanceAndEnqueue
  <2>1. PICK d \in task.due : Advance(d)
    BY <1>2 DEF AdvanceAndEnqueue
  <2>2. task.todo = {} /\ task.pc = "due"
    BY <1>2 DEF AdvanceAndEnqueue, At, IInv, InHand
  <2>3. task'.todo = {} /\ task'.pc \notin {"attach", "reject"}
    BY <1>0, <2>1, <2>2 DEF Advance, AbortTick, NewTask, Tasks
  <2> QED
    BY <2>3 DEF HeldInv
<1>3. CASE EndTick \/ Crash \/ Restart
  <2>1. task'.todo = {} /\ task'.pc \notin {"attach", "reject"}
    BY <1>3 DEF EndTick, AbortTick, Crash, Restart, NewTask
  <2> QED
    BY <2>1 DEF HeldInv
<1>4. CASE Claim
  <2>1. task'.pc = "admit" /\ task'.todo = {i \in Looked : Claimed(i) = "leased"}
    BY <1>0, <1>4 DEF Claim, Tasks
  <2>2. \A i \in Looked : i \in DOMAIN occs /\ occs[i] \in OccurrenceRows /\ occs'[i] = SetState(occs[i], Claimed(i))
    BY <1>4, Tables DEF Claim, Looked, Queued, IInv
  <2>3. \A i \in task'.todo : occs'[i].state = "leased"
    BY <2>1, <2>2 DEF SetState, OccurrenceRows
  <2> QED
    BY <2>1, <2>3 DEF HeldInv, Held
<1>5. CASE Admit
  <2>1. PICK i \in task.todo : /\ task'.pc \in {"attach", "reject"} /\ task'.occ = i
                               /\ task'.todo = task.todo \ {i}
    BY <1>0, <1>5 DEF Admit, Tasks
  <2>2. UNCHANGED <<occs, sched>>
    BY <1>5 DEF Admit
  <2> QED
    BY <2>1, <2>2 DEF HeldInv, Held
<1>6. CASE Attach
  <2>1. /\ task'.todo = task.todo /\ UNCHANGED sched /\ task.occ \notin task.todo /\ task.pc = "attach"
        /\ task'.pc = "reject" => task'.occ = task.occ /\ UNCHANGED occs
        /\ task'.pc # "attach"
    BY <1>0, <1>6 DEF Attach, NextOccurrence, Tasks, IInv, InHand, At
  <2>2. \A i \in DOMAIN occs : occs'[i].sched = occs[i].sched /\ (i # task.occ => occs'[i] = occs[i])
    BY <1>6, AttachRows
  <2> QED
    BY <1>6, <2>1, <2>2, HeldFrame DEF Next, SchedulerStep
<1>7. CASE Reject
  <2>1. task'.todo = task.todo /\ task'.pc = "disable" /\ task.occ \notin task.todo
    BY <1>0, <1>7 DEF Reject, Goto, Tasks, IInv, InHand, At
  <2>2. \A i \in DOMAIN occs : occs'[i].sched = occs[i].sched /\ (i # task.occ => occs'[i] = occs[i])
    BY <1>7, RejectIInv DEF Reject, OccsMove
  <2> QED
    BY <1>7, <2>1, <2>2, HeldFrame DEF Next, SchedulerStep
<1>8. CASE Disable
  <2>1. UNCHANGED occs /\ (NextOccurrence \/ task' = NewTask("reconcile"))
    BY <1>8 DEF Disable, AbortTick
  <2>2. task'.todo \subseteq task.todo /\ task'.pc \notin {"attach", "reject"}
    <3>1. CASE NextOccurrence
      BY <1>0, <3>1 DEF NextOccurrence, Tasks
    <3>2. CASE task' = NewTask("reconcile")
      BY <3>2 DEF NewTask
    <3> QED
      BY <2>1, <3>1, <3>2
  <2> QED
    BY <1>8, <2>1, <2>2, HeldFrame DEF Next, SchedulerStep
<1>9. CASE \E s \in Schedules : DeleteSchedule(s)
  <2>1. PICK s \in Schedules : DeleteSchedule(s)
    BY <1>9
  <2>2. \A i \in DOMAIN occs : occs'[i].sched = occs[i].sched
    BY <2>1, DeleteIInv DEF OccsMove
  <2>3. ~sched'[s].live /\ UNCHANGED task
    BY <2>1 DEF DeleteSchedule, HttpOnly, IInv, TypeOK, ScheduleRows
  <2>4. \A i \in DOMAIN occs : occs[i].sched # s => occs'[i] = occs[i]
    BY <2>1 DEF DeleteSchedule
  <2> QED
    BY <2>1, <2>2, <2>3, <2>4, HeldFrame DEF Next
<1>10. CASE \E i \in DOMAIN occs : ResumeOccurrence(i)
  <2>1. PICK i \in DOMAIN occs : ResumeOccurrence(i)
    BY <1>10
  <2>2. \A j \in DOMAIN occs : occs'[j].sched = occs[j].sched
    BY <2>1, ResumeIInv DEF OccsMove
  <2>3. \A j \in DOMAIN occs : occs[j].state = "leased" => occs'[j] = occs[j]
    BY <2>1 DEF ResumeOccurrence
  <2> QED
    BY <2>1, <2>2, <2>3, HeldFrame DEF Next, ResumeOccurrence, HttpOnly
<1>11. CASE \E r \in RunIds : ExecutorStep(r)
  BY <1>11, ExecutorEffect DEF HeldInv, Held
<1>12. CASE \E s \in Schedules : UpdateSchedule(s)
  BY <1>12, HeldFrame DEF Next, UpdateSchedule, HttpOnly
<1>13. CASE \/ \E r \in RunIds : SpawnForeground(r) \/ DropForeground(r) \/ CancelRun(r)
            \/ CreateForeground \/ Revoke \/ Reinstate \/ Tick \/ UNCHANGED vars
  BY <1>13 DEF SpawnForeground, DropForeground, CancelRun, CreateForeground, Revoke, Reinstate, Tick, EnvOnly, HttpOnly,
               vars, HeldInv, Held
<1> QED
  BY <1>1, <1>2, <1>3, <1>4, <1>5, <1>6, <1>7, <1>8, <1>9, <1>10, <1>11, <1>12, <1>13
  DEF Next, SchedulerStep

-----------------------------------------------------------------------------
(* The executor of a scheduled run and its rows keep in step. *)

(* A step that leaves the executors it does not end alone, with their runs. *)
LEMMA FlightFrame ==
    ASSUME IInv, FlightInv,
           \A r \in RunIds : exec'[r].pc # "none" =>
               /\ exec'[r] = exec[r] /\ runs'[r].occ = runs[r].occ
               /\ runs[r].occ # 0 => runs'[r].state = runs[r].state,
           \A r \in RunIds, i \in DOMAIN occs : OnCourse(r) /\ runs[r].occ = i => Busy(i)',
           Recovering' => Recovering \/ \A r \in RunIds : exec'[r].pc = "none",
           task'.pc = "attach" => runs'[task'.run].state = "queued" /\ exec'[task'.run].pc = "none"
    PROVE  FlightInv'
<1>1. \A r \in RunIds : exec'[r].pc # "none" /\ (Recovering' \/ exec'[r].pc = "create") => runs'[r].occ = 0
  BY DEF FlightInv
<1>2. ASSUME NEW r \in RunIds, OnCourse(r)'
      PROVE  /\ runs'[r].state = Expected(exec'[r].pc)
             /\ occs'[runs'[r].occ].state = "running" \/ ~sched'[occs'[runs'[r].occ].sched].live
  <2>1. /\ exec'[r] = exec[r] /\ runs'[r].occ = runs[r].occ /\ OnCourse(r) /\ runs'[r].state = runs[r].state
        /\ runs[r].state = Expected(exec[r].pc)
    BY <1>2 DEF OnCourse, FlightInv
  <2>2. r \in DOMAIN runs
    BY <2>1 DEF OnCourse, IInv, BoundRuns
  <2>3. runs[r].occ \in DOMAIN occs
    BY <2>1, <2>2, Tables DEF OnCourse, IInv, TypeOK
  <2> DEFINE i == runs[r].occ
  <2>4. occs'[i].state = "running" \/ ~sched'[occs'[i].sched].live
    BY <2>1, <2>3 DEF Busy
  <2> QED
    BY <2>1, <2>4
<1> QED
  BY <1>1, <1>2 DEF FlightInv, Busy

(* A busy row stays busy while its row keeps its state and schedule. *)
LEMMA BusyStays ==
    ASSUME IInv, Next, NEW i \in DOMAIN occs, Busy(i), occs'[i].sched = occs[i].sched,
           occs[i].state = "running" => occs'[i].state = "running" \/ ~sched'[occs[i].sched].live
    PROVE  Busy(i)'
<1>1. occs[i].sched \in Schedules
  BY Tables DEF IInv, OccurrenceRows
<1> QED
  BY <1>1, DeletedStays DEF Busy

(* What an executor on course knows of its run. *)
LEMMA CourseKnows ==
    ASSUME IInv, FlightInv, NEW r \in RunIds, OnCourse(r)
    PROVE  /\ r \in DOMAIN runs /\ r # 0 /\ runs[r].occ \in DOMAIN occs /\ Busy(runs[r].occ)
           /\ occs[runs[r].occ].run = r /\ ~Recovering
           /\ runs[r].state = Expected(exec[r].pc) /\ runs[r].state \in Open
<1>1. r \in DOMAIN runs /\ runs[r].occ # 0 /\ exec[r].pc \notin {"none", "create", "fail"} /\ Bound(r)
  BY DEF OnCourse, IInv, BoundRuns
<1>2. runs[r].occ \in DOMAIN occs /\ r # 0
  BY <1>1, Tables DEF IInv, TypeOK
<1>3. runs[r].state = Expected(exec[r].pc) /\ Busy(runs[r].occ) /\ ~Recovering
  BY <1>1 DEF FlightInv
<1>4. Expected(exec[r].pc) \in Open
  BY DEF Expected, Open
<1> QED
  BY <1>1, <1>2, <1>3, <1>4 DEF Bound

(* An executor on course stays so, or fails, or ends. *)
LEMMA ExecutorCourse ==
    ASSUME IInv, NEW r \in RunIds, ExecutorStep(r),
           exec[r].pc # "fail" => runs[r].state = Expected(exec[r].pc)
    PROVE  exec'[r].pc \notin {"none", "create", "fail"} => runs'[r].state = Expected(exec'[r].pc)
<1>1. exec \in [RunIds -> Executors] /\ r \in DOMAIN runs /\ runs[r] \in RunRows
  BY ExecutorEffect, Tables DEF IInv, TypeOK
<1>2. CASE AdmitRun(r) \/ PrepareRun(r) \/ StartRun(r)
  BY <1>1, <1>2 DEF AdmitRun, PrepareRun, StartRun, Transition, Move, SetState, Step, Expected, RunRows,
                    Executors
<1>3. CASE ConnectRun(r)
  BY <1>1, <1>3 DEF ConnectRun, Step, Done, Idle, Expected, Executors
<1>4. CASE NextScript(r)
  BY <1>1, <1>4 DEF NextScript, Step, Expected, Executors
<1>5. CASE RunScripts(r)
  <2>1. PICK e \in Endings : exec' = [exec EXCEPT ![r] = e]
    BY <1>5 DEF RunScripts
  <2>2. e.pc \in {"conclude", "fail"}
    BY DEF Endings
  <2> QED
    BY <1>1, <1>5, <2>1, <2>2 DEF RunScripts, Expected
<1>6. CASE ConcludeRun(r) \/ FailRun(r)
  BY <1>1, <1>6 DEF ConcludeRun, FailRun, Step, Done, Idle, Executors
<1> QED
  BY <1>2, <1>3, <1>4, <1>5, <1>6 DEF ExecutorStep

LEMMA ExecutorFlight ==
    ASSUME IInv, FlightInv, NEW r \in RunIds, ExecutorStep(r)
    PROVE  FlightInv'
<1>1. /\ r \in DOMAIN runs /\ exec[r].pc \notin {"none", "create"}
      /\ UNCHANGED <<clock, sched, occs, task, access, spent, forsaken>>
      /\ RunsMove /\ \A q \in DOMAIN runs : q # r => runs'[q] = runs[q]
      /\ \A q \in RunIds : q # r => exec'[q] = exec[q]
      /\ exec'[r].pc # "create"
  BY ExecutorEffect
<1>2. \A q \in RunIds : exec'[q].pc # "none" => q \in DOMAIN runs /\ exec[q].pc # "none" /\ runs'[q].occ = runs[q].occ
  BY <1>1 DEF IInv, BoundRuns, RunsMove
<1>3. Recovering' <=> Recovering
  BY <1>1 DEF Recovering
<1>4. \A q \in RunIds : exec'[q].pc # "none" /\ (Recovering' \/ exec'[q].pc = "create") => runs'[q].occ = 0
  BY <1>1, <1>2, <1>3 DEF FlightInv
<1>5. ASSUME NEW q \in RunIds, OnCourse(q)'
      PROVE  runs'[q].state = Expected(exec'[q].pc) /\ Busy(runs[q].occ)
  <2>1. CASE q # r
    BY <1>1, <1>2, <1>5, <2>1 DEF OnCourse, FlightInv
  <2>2. CASE q = r
    <3>1. exec[r].pc # "fail"
      <4>1. CASE exec[r].pc = "fail"
        BY <4>1, <1>5, <2>2 DEF ExecutorStep, AdmitRun, PrepareRun, ConnectRun, StartRun, NextScript,
           RunScripts, ConcludeRun, FailRun, Transition, Done, Idle, OnCourse, IInv, TypeOK
      <4> QED
        BY <4>1
    <3>2. OnCourse(r)
      BY <1>1, <1>2, <1>5, <2>2, <3>1 DEF OnCourse
    <3> QED
      BY <2>2, <3>2, <1>5, ExecutorCourse DEF FlightInv, OnCourse
  <2> QED
    BY <2>1, <2>2
<1>6. \A q \in RunIds : OnCourse(q)' => runs'[q].state = Expected(exec'[q].pc) /\ Busy(runs[q].occ)'
  <2> SUFFICES ASSUME NEW q \in RunIds, OnCourse(q)'
               PROVE  runs'[q].state = Expected(exec'[q].pc) /\ Busy(runs[q].occ)'
    OBVIOUS
  <2>1. runs'[q].occ = runs[q].occ
    BY <1>2 DEF OnCourse
  <2> QED
    BY <1>1, <1>5, <2>1 DEF Busy
<1>7. task.pc = "attach" => task.run \in RunIds /\ task.run # r /\ task.run \in DOMAIN runs
  BY <1>1, Tables DEF FlightInv, IInv, TypeOK, InHand, RunIds
<1> QED
  BY <1>1, <1>4, <1>6, <1>7 DEF FlightInv

LEMMA NextFlight == IInv /\ HeldInv /\ FlightInv /\ [Next]_vars => FlightInv'
<1> SUFFICES ASSUME IInv, HeldInv, FlightInv, [Next]_vars PROVE FlightInv'
  OBVIOUS
<1>0. task \in Tasks
  BY DEF IInv, TypeOK
<1>1. CASE RecoverRunning \/ RecoverUnstarted
  <2>1. /\ Recovering /\ Recovering' /\ RunsMove /\ UNCHANGED exec /\ task'.pc # "attach"
    BY <1>0, <1>1, RecoverRunsIInv DEF RecoverRunning, RecoverUnstarted, TaskOnly, At, Goto, Recovering, Tasks
  <2>2. \A r \in RunIds : exec[r].pc # "none" => r \in DOMAIN runs /\ runs[r].occ = 0 /\ runs'[r].occ = 0
    BY <2>1 DEF FlightInv, IInv, BoundRuns, RunsMove
  <2>3. \A r \in RunIds : ~OnCourse(r)
    BY <2>2 DEF OnCourse
  <2> QED
    BY <2>1, <2>2, <2>3, FlightFrame
<1>2. CASE RecoverOccurrences
  <2>1. /\ Recovering /\ ~Recovering' /\ UNCHANGED <<runs, exec>> /\ task'.pc # "attach"
    BY <1>0, <1>2 DEF RecoverOccurrences, TaskOnly, At, Goto, Recovering, Tasks
  <2>2. \A r \in RunIds : ~OnCourse(r)
    BY <2>1, CourseKnows
  <2> QED
    BY <2>1, <2>2, FlightFrame
<1>3. CASE Reconcile
  <2>1. /\ ~Recovering' /\ UNCHANGED <<runs, exec, sched>> /\ task'.pc # "attach" /\ OccsMove
    BY <1>0, <1>3, ReconcileIInv DEF Reconcile, TaskOnly, At, Recovering, Tasks
  <2>2. ASSUME NEW r \in RunIds, NEW i \in DOMAIN occs, OnCourse(r), runs[r].occ = i
        PROVE  Busy(i)'
    <3>1. Busy(i) /\ runs[r].state \in Open /\ occs[i].run = r
      BY <2>2, CourseKnows
    <3>2. Verdict(runs[r].state) = "running"
      BY <3>1 DEF Verdict, Open
    <3>3. occs[i].state = "running" => occs'[i].state = "running"
      BY <1>3, <3>1, <3>2, Tables DEF Reconcile, FoldVerdicts, SetState, OccurrenceRows, IInv
    <3> QED
      BY <3>1, <3>3, <1>3, <2>1, BusyStays DEF OccsMove, Next, SchedulerStep
  <2> QED
    BY <2>1, <2>2, FlightFrame
<1>4. CASE AdvanceAndEnqueue
  <2>1. PICK d \in task.due : Advance(d)
    BY <1>4 DEF AdvanceAndEnqueue
  <2>2. /\ task.pc = "due" /\ UNCHANGED exec /\ UNCHANGED runs /\ d \in [s : Schedules, at : Nat]
    BY <1>0, <1>4, <2>1 DEF AdvanceAndEnqueue, TaskOnly, At, Advance, Rows, Tasks
  <2>3. task'.pc \in {"due", "reconcile"} /\ ~Recovering'
    BY <1>0, <2>1, <2>2 DEF Advance, AbortTick, NewTask, Tasks, Recovering
  <2>4. \A i \in DOMAIN occs : occs'[i].sched = occs[i].sched /\ (occs[i].state = "running" => occs'[i].state = "running")
    <3>1. CASE UNCHANGED occs
      BY <3>1
    <3>2. CASE occs' = Pruned(Enqueued(d), d.s)
      BY <3>2, <2>2, AdvanceRows DEF Settled
    <3> QED
      BY <2>1, <3>1, <3>2 DEF Advance, Rows
  <2>5. \A r \in RunIds, i \in DOMAIN occs : OnCourse(r) /\ runs[r].occ = i => Busy(i)'
    BY <1>4, <2>4, CourseKnows, BusyStays DEF Next, SchedulerStep
  <2> QED
    BY <2>2, <2>3, <2>5, FlightFrame
<1>5. CASE Claim
  <2>1. /\ ~Recovering' /\ UNCHANGED <<runs, exec, sched>> /\ task'.pc # "attach" /\ OccsMove
    BY <1>0, <1>5, ClaimIInv DEF Claim, TaskOnly, At, Recovering, Tasks
  <2>2. \A i \in DOMAIN occs : occs[i].state = "running" => occs'[i] = occs[i]
    BY <1>5 DEF Claim, Looked, Queued
  <2>3. \A r \in RunIds, i \in DOMAIN occs : OnCourse(r) /\ runs[r].occ = i => Busy(i)'
    BY <1>5, <2>1, <2>2, CourseKnows, BusyStays DEF OccsMove, Next, SchedulerStep
  <2> QED
    BY <2>1, <2>3, FlightFrame
<1>6. CASE Admit
  <2>1. /\ ~Recovering' /\ UNCHANGED <<exec, sched, occs>> /\ task.pc = "admit"
    BY <1>0, <1>6 DEF Admit, TaskOnly, At, Recovering, Tasks
  <2>2. \/ UNCHANGED runs /\ task'.pc = "reject"
        \/ \E i \in task.todo :
              /\ runs' = Append(runs, [occ |-> i, state |-> "queued"]) /\ Len(runs) < MaxRuns
              /\ task'.pc = "attach" /\ task'.run = Len(runs) + 1
    BY <1>0, <1>6 DEF Admit, Tasks
  <2>3. \A r \in RunIds, i \in DOMAIN occs : OnCourse(r) /\ runs[r].occ = i => Busy(i)'
    BY <1>6, <2>1, CourseKnows, BusyStays DEF Next, SchedulerStep
  <2>4. CASE UNCHANGED runs /\ task'.pc = "reject"
    BY <2>1, <2>3, <2>4, FlightFrame
  <2>5. ASSUME NEW i \in task.todo, runs' = Append(runs, [occ |-> i, state |-> "queued"]),
               Len(runs) < MaxRuns, task'.pc = "attach", task'.run = Len(runs) + 1
        PROVE  FlightInv'
    <3>1. i \in 0..Len(occs) /\ Len(runs) \in Nat /\ DOMAIN runs = 1..Len(runs)
      BY Tables DEF IInv, TypeOK
    <3>2. /\ \A r \in DOMAIN runs : runs'[r] = runs[r]
          /\ runs'[Len(runs) + 1] = [occ |-> i, state |-> "queued"]
      BY <2>1, <2>5, <3>1, AppendRun
    <3>3. exec[Len(runs) + 1].pc = "none"
      <4>1. Len(runs) + 1 \in RunIds /\ Len(runs) + 1 \notin DOMAIN runs
        BY <3>1, <2>5, Tables DEF RunIds, IInv
      <4> QED
        BY <4>1 DEF IInv, BoundRuns
    <3>4. \A r \in RunIds : exec[r].pc # "none" => r \in DOMAIN runs
      BY DEF IInv, BoundRuns
    <3> QED
      BY <2>1, <2>3, <2>5, <3>2, <3>3, <3>4, FlightFrame
  <2> QED
    BY <2>2, <2>4, <2>5
<1>7. CASE Attach
  <2>1. /\ UNCHANGED <<sched, runs>> /\ task.pc = "attach" /\ task.run \in RunIds /\ task.run \in DOMAIN runs
        /\ runs[task.run].occ = task.occ /\ task.occ \in DOMAIN occs
        /\ runs[task.run].state = "queued" /\ task'.pc \in {"admit", "reject"} /\ ~Recovering'
    <3>1. UNCHANGED <<sched, runs>> /\ task.pc = "attach" /\ task.occ \in DOMAIN occs
      BY <1>7, AttachRows DEF Attach, At
    <3>2. /\ task.run \in RunIds /\ task.run \in DOMAIN runs
          /\ runs[task.run].occ = task.occ /\ runs[task.run].state = "queued"
      BY <3>1, Tables DEF IInv, TypeOK, InHand, FlightInv, RunIds
    <3>3. task'.pc \in {"admit", "reject"}
      BY <1>0, <1>7 DEF Attach, NextOccurrence, Tasks
    <3> QED
      BY <3>1, <3>2, <3>3 DEF Recovering
  <2>2. CASE UNCHANGED occs /\ occs[task.occ].state # "leased"
    <3>1. UNCHANGED exec
      BY <1>7, <2>2 DEF Attach
    <3>2. \A r \in RunIds, i \in DOMAIN occs : OnCourse(r) /\ runs[r].occ = i => Busy(i)'
      BY <1>7, <2>1, <2>2, CourseKnows, BusyStays DEF Next, SchedulerStep
    <3> QED
      BY <2>1, <3>1, <3>2, FlightFrame
  <2>3. CASE occs[task.occ].state = "leased" /\ occs'[task.occ].state = "running"
    <3>1. exec' = [exec EXCEPT ![task.run] = [pc |-> "admit", end |-> "none"]]
      BY <1>7, <2>3 DEF Attach, Spawn
    <3>2. /\ exec'[task.run].pc = "admit"
          /\ \A r \in RunIds : r # task.run => exec'[r] = exec[r]
      BY <2>1, <3>1 DEF IInv, TypeOK
    <3>3. ASSUME NEW r \in RunIds, OnCourse(r)'
          PROVE  /\ runs'[r].state = Expected(exec'[r].pc)
                 /\ occs'[runs'[r].occ].state = "running" \/ ~sched'[occs'[runs'[r].occ].sched].live
      <4>1. CASE r = task.run
        BY <2>1, <2>3, <3>2, <4>1 DEF Expected
      <4>2. CASE r # task.run
        <5>1. OnCourse(r) /\ exec'[r] = exec[r]
          BY <2>1, <3>2, <3>3, <4>2 DEF OnCourse
        <5>2. occs[runs[r].occ].run = r /\ r # 0 /\ Busy(runs[r].occ) /\ runs[r].occ \in DOMAIN occs
              /\ runs[r].state = Expected(exec[r].pc)
          BY <5>1, CourseKnows
        <5>3. runs[r].occ # task.occ
          BY <5>2, <2>1, <2>3 DEF IInv, RowsRefer
        <5>4. occs'[runs[r].occ] = occs[runs[r].occ]
          BY <5>2, <5>3, <1>7, AttachRows
        <5> QED
          BY <5>1, <5>2, <5>4, <2>1 DEF Busy
      <4> QED
        BY <4>1, <4>2
    <3>4. \A r \in RunIds : exec'[r].pc = "create" => runs'[r].occ = 0
      BY <2>1, <3>2 DEF FlightInv
    <3> QED
      BY <2>1, <3>3, <3>4 DEF FlightInv, Busy
  <2> QED
    BY <1>7, <2>2, <2>3, AttachRows
<1>8. CASE Reject
  <2>1. /\ ~Recovering' /\ UNCHANGED <<runs, exec, sched>> /\ task'.pc # "attach" /\ OccsMove /\ task.pc = "reject"
    BY <1>0, <1>8, RejectIInv DEF Reject, TaskOnly, At, Goto, Recovering, Tasks
  <2>2. \A i \in DOMAIN occs : i # task.occ => occs'[i] = occs[i]
    BY <1>8 DEF Reject
  <2>3. occs[task.occ].state = "running" => ~sched[occs[task.occ].sched].live
    BY <2>1 DEF HeldInv, Held
  <2>4. \A r \in RunIds, i \in DOMAIN occs : OnCourse(r) /\ runs[r].occ = i => Busy(i)'
    BY <1>8, <2>1, <2>2, <2>3, CourseKnows, BusyStays DEF OccsMove, Next, SchedulerStep
  <2> QED
    BY <2>1, <2>4, FlightFrame
<1>9. CASE Disable \/ EndTick
  <2>1. UNCHANGED <<occs, runs, exec>>
    BY <1>9 DEF Disable, EndTick, Rows, TaskOnly
  <2>2. task'.pc # "attach" /\ ~Recovering'
    <3>1. NextOccurrence \/ task' = NewTask("reconcile")
      BY <1>9 DEF Disable, EndTick, AbortTick
    <3>2. task'.pc \in {"admit", "reconcile"}
      <4>1. CASE NextOccurrence
        BY <1>0, <4>1 DEF NextOccurrence, Tasks
      <4>2. CASE task' = NewTask("reconcile")
        BY <4>2 DEF NewTask
      <4> QED
        BY <3>1, <4>1, <4>2
    <3> QED
      BY <3>2 DEF Recovering
  <2>3. \A r \in RunIds, i \in DOMAIN occs : OnCourse(r) /\ runs[r].occ = i => Busy(i)'
    BY <1>9, <2>1, CourseKnows, BusyStays DEF Next, SchedulerStep
  <2> QED
    BY <2>1, <2>2, <2>3, FlightFrame
<1>10. CASE \E r \in RunIds : ExecutorStep(r)
  BY <1>10, ExecutorFlight
<1>11. CASE Crash
  <2>1. (\A r \in RunIds : exec'[r].pc = "none") /\ task'.pc # "attach"
    BY <1>11 DEF Crash, Idle, NewTask
  <2> QED
    BY <2>1 DEF FlightInv, OnCourse
<1>12. CASE CreateForeground
  <2>1. /\ Len(runs) < MaxRuns /\ runs' = Append(runs, [occ |-> 0, state |-> "queued"])
        /\ exec' = [exec EXCEPT ![Len(runs) + 1].pc = "create"] /\ UNCHANGED <<occs, sched, task>>
    BY <1>12 DEF CreateForeground, HttpOnly
  <2>2. 0 \in 0..Len(occs) /\ Len(runs) \in Nat /\ DOMAIN runs = 1..Len(runs) /\ Len(runs) + 1 \in RunIds
    BY <2>1, Tables DEF IInv, RunIds
  <2>3. /\ \A r \in DOMAIN runs : runs'[r] = runs[r]
        /\ runs'[Len(runs) + 1] = [occ |-> 0, state |-> "queued"]
    BY <2>1, <2>2, AppendRun
  <2>4. /\ exec'[Len(runs) + 1].pc = "create" /\ runs'[Len(runs) + 1].occ = 0
        /\ \A r \in RunIds : r # Len(runs) + 1 => exec'[r] = exec[r] /\ (exec[r].pc # "none" => r \in DOMAIN runs)
    BY <2>1, <2>2, <2>3 DEF IInv, TypeOK, BoundRuns, Executors
  <2>5. task.pc = "attach" => task.run \in RunIds /\ task.run # Len(runs) + 1 /\ task.run \in DOMAIN runs
    BY <2>2, Tables DEF IInv, TypeOK, InHand, RunIds
  <2>6. \A r \in RunIds : OnCourse(r)' => OnCourse(r) /\ exec'[r] = exec[r] /\ runs'[r] = runs[r]
    BY <2>3, <2>4 DEF OnCourse
  <2>7. \A r \in RunIds : exec'[r].pc # "none" /\ (Recovering' \/ exec'[r].pc = "create") => runs'[r].occ = 0
    BY <2>1, <2>3, <2>4 DEF FlightInv, Recovering
  <2>8. task'.pc = "attach" => runs'[task'.run].state = "queued" /\ exec'[task'.run].pc = "none"
    BY <2>1, <2>3, <2>4, <2>5 DEF FlightInv
  <2>9. ASSUME NEW r \in RunIds, OnCourse(r)'
        PROVE  /\ runs'[r].state = Expected(exec'[r].pc)
               /\ occs'[runs'[r].occ].state = "running" \/ ~sched'[occs'[runs'[r].occ].sched].live
    BY <2>1, <2>6, <2>9 DEF FlightInv, Busy
  <2> QED
    BY <2>7, <2>8, <2>9 DEF FlightInv, Busy
<1>13. CASE \E r \in RunIds : SpawnForeground(r) \/ DropForeground(r)
  <2>1. PICK r \in RunIds : SpawnForeground(r) \/ DropForeground(r)
    BY <1>13
  <2>2. /\ exec[r].pc = "create"
        /\ exec' = [exec EXCEPT ![r] = [pc |-> "admit", end |-> "none"]] \/ exec' = [exec EXCEPT ![r] = Idle]
        /\ UNCHANGED <<runs, occs, sched, task>> /\ runs[r].occ = 0
    BY <2>1 DEF SpawnForeground, DropForeground, Spawn, HttpOnly, FlightInv
  <2>3. \A q \in RunIds : q # r => exec'[q] = exec[q]
    BY <2>2 DEF IInv, TypeOK
  <2>4. task.pc = "attach" => task.run \in RunIds /\ task.run # r
    BY <2>2, Tables DEF IInv, TypeOK, InHand, RunIds, FlightInv
  <2> QED
    BY <2>2, <2>3, <2>4 DEF FlightInv, Busy, OnCourse, Recovering
<1>14. CASE \E s \in Schedules : DeleteSchedule(s)
  <2>1. PICK s \in Schedules : DeleteSchedule(s)
    BY <1>14
  <2>2. OccsMove /\ UNCHANGED <<runs, exec, task>> /\ ~sched'[s].live
    BY <2>1, DeleteIInv DEF DeleteSchedule, HttpOnly, IInv, TypeOK, ScheduleRows
  <2>3. \A i \in DOMAIN occs : occs[i].sched # s => occs'[i] = occs[i]
    BY <2>1 DEF DeleteSchedule
  <2>4. \A r \in RunIds, i \in DOMAIN occs : OnCourse(r) /\ runs[r].occ = i => Busy(i)'
    BY <1>14, <2>2, <2>3, CourseKnows, BusyStays DEF OccsMove, Next
  <2> QED
    BY <2>2, <2>4, FlightFrame DEF FlightInv, Recovering
<1>15. CASE \E i \in DOMAIN occs : ResumeOccurrence(i)
  <2>1. PICK i \in DOMAIN occs : ResumeOccurrence(i)
    BY <1>15
  <2>2. OccsMove /\ UNCHANGED <<runs, exec, task, sched>>
    BY <2>1, ResumeIInv DEF ResumeOccurrence, HttpOnly
  <2>3. \A j \in DOMAIN occs : occs[j].state = "running" => occs'[j] = occs[j]
    BY <2>1 DEF ResumeOccurrence
  <2>4. \A r \in RunIds, j \in DOMAIN occs : OnCourse(r) /\ runs[r].occ = j => Busy(j)'
    BY <1>15, <2>2, <2>3, CourseKnows, BusyStays DEF OccsMove, Next
  <2> QED
    BY <2>2, <2>4, FlightFrame DEF FlightInv, Recovering
<1>16. CASE \E s \in Schedules : UpdateSchedule(s)
  <2>1. UNCHANGED <<runs, exec, task, occs>>
    BY <1>16 DEF UpdateSchedule, HttpOnly
  <2>2. \A r \in RunIds, i \in DOMAIN occs : OnCourse(r) /\ runs[r].occ = i => Busy(i)'
    BY <1>16, <2>1, CourseKnows, BusyStays DEF Next
  <2> QED
    BY <2>1, <2>2, FlightFrame DEF FlightInv, Recovering
<1>17. CASE Restart
  <2>1. UNCHANGED <<runs, exec, sched, occs>> /\ Recovering /\ task'.pc # "attach"
    BY <1>17 DEF Restart, EnvOnly, At, Recovering, NewTask
  <2> QED
    BY <2>1, CourseKnows, FlightFrame
<1>18. CASE (\E r \in RunIds : CancelRun(r)) \/ Revoke \/ Reinstate \/ Tick \/ UNCHANGED vars
  BY <1>18 DEF CancelRun, Revoke, Reinstate, Tick, EnvOnly, HttpOnly, vars, FlightInv, OnCourse, Busy, Recovering
<1> QED
  BY <1>1, <1>2, <1>3, <1>4, <1>5, <1>6, <1>7, <1>8, <1>9, <1>10, <1>11, <1>12, <1>13, <1>14, <1>15,
     <1>16, <1>17, <1>18 DEF Next, SchedulerStep

(* The unconditional invariant: rows and tasks agree, claimed rows are held, and executors
   keep in step with their rows. *)
THEOREM ExecutorsInStep == Spec => [](IInv /\ HeldInv /\ FlightInv)
<1>1. Init => HeldInv /\ FlightInv
  BY DEF Init, HeldInv, FlightInv, NewTask, Idle, OnCourse
<1>2. IInv /\ HeldInv /\ FlightInv /\ [Next]_vars => (IInv /\ HeldInv /\ FlightInv)'
  BY NextIInv, NextHeld, NextFlight
<1> QED
  BY <1>1, <1>2, InitIInv, PTL DEF Spec

-----------------------------------------------------------------------------
(* The concurrency policy. *)

(* A bounded set of numbers has a greatest member. *)
LEMMA HasGreatest ==
    ASSUME NEW n \in Nat, NEW S \in SUBSET (1..n), S # {}
    PROVE  \E m \in S : \A i \in S : i <= m
<1> DEFINE T == {n - i : i \in S}
           R == OpToRel(<, Nat)
<1>1. T \subseteq Nat /\ T # {}
  <2>1. \A i \in S : i \in Nat /\ n - i \in Nat
    OBVIOUS
  <2>2. PICK i \in S : TRUE
    OBVIOUS
  <2>3. n - i \in T
    BY <2>2
  <2> QED
    BY <2>1, <2>3
<1>2. IsWellFoundedOn(R, Nat)
  BY NatLessThanWellFounded
<1>3. \A x, y \in Nat : x < y => <<x, y>> \in R
  BY DEF OpToRel
<1> HIDE DEF R
<1>4. PICK x \in T : \A y \in T : ~(<<y, x>> \in R)
  BY <1>1, <1>2, WFMin
<1>5. PICK m \in S : x = n - m
  OBVIOUS
<1>6. \A i \in S : ~(n - i < n - m)
  BY <1>1, <1>3, <1>4, <1>5
<1> QED
  BY <1>5, <1>6

LEMMA RowSetsFinite ==
    ASSUME IInv, NEW S \in SUBSET DOMAIN occs
    PROVE  IsFiniteSet(S) /\ Cardinality(S) \in Nat
<1>1. IsFiniteSet(DOMAIN occs)
  BY Tables, FS_Interval DEF IInv
<1> QED
  BY <1>1, FS_Subset, FS_CardinalityType

LEMMA CapacityPositive ==
    ASSUME IInv, NEW s \in Schedules
    PROVE  Capacity(sched[s].policy) \in Nat \ {0}
<1>1. sched[s].policy \in Policies
  BY DEF IInv, TypeOK, ScheduleRows
<1> QED
  BY <1>1, PoliciesAssumption DEF Capacity

(* No policy is edited. *)
PoliciesStay == \A s \in Schedules : sched'[s].policy = sched[s].policy

(* Without an edit the policies are what they were, and no schedule is deleted. *)
LEMMA EditSteps ==
    ASSUME IInv, [Next]_vars, Unedited'
    PROVE  Unedited /\ PoliciesStay /\ (AllLive => AllLive')
<1>0. sched \in [Schedules -> ScheduleRows]
  BY DEF IInv, TypeOK
<1>1. ~\E s \in Schedules : UpdateSchedule(s) \/ DeleteSchedule(s)
  BY SpendType DEF UpdateSchedule, DeleteSchedule, Unedited, Events, IInv
<1>2. Unedited
  <2>1. UNCHANGED spent \/ \E w \in Events \ {"edit"} : Spend(w)
    BY <1>1, ExecutorEffect
    DEF Next, SchedulerStep, RecoverRunning, RecoverUnstarted, RecoverOccurrences, Reconcile, AdvanceAndEnqueue,
        Claim, Admit, Attach, Reject, Disable, EndTick, TaskOnly, SpawnForeground, DropForeground, CancelRun,
        ResumeOccurrence, CreateForeground, Revoke, Reinstate, Tick, Crash, Restart, Events, vars
  <2> QED
    BY <2>1, SpendType DEF Unedited, Events, IInv
<1>3. ASSUME NEW s \in Schedules
      PROVE  sched'[s].policy = sched[s].policy /\ sched'[s].live = sched[s].live
  <2>1. CASE AdvanceAndEnqueue
    <3>1. PICK d \in task.due : Advance(d)
      BY <2>1 DEF AdvanceAndEnqueue
    <3> QED
      BY <1>0, <3>1 DEF Advance, Rows, ScheduleRows
  <2>2. CASE Disable
    <3> DEFINE d == occs[task.occ].sched
    <3>1. \/ sched' = sched
          \/ sched' = [sched EXCEPT ![d] = [sched[d] EXCEPT !.enabled = FALSE, !.next = NoFire]]
      BY <2>2 DEF Disable
    <3>2. sched[s].live \in BOOLEAN /\ sched[s] \in ScheduleRows
      BY <1>0 DEF ScheduleRows
    <3>3. CASE s = d
      BY <1>0, <3>1, <3>2, <3>3 DEF ScheduleRows
    <3>4. CASE s # d
      <4> HIDE DEF d
      <4> QED
        BY <1>0, <3>1, <3>4
    <3> QED
      BY <3>3, <3>4
  <2>3. CASE \E r \in RunIds : ExecutorStep(r)
    BY <2>3, ExecutorEffect
  <2>4. CASE ~AdvanceAndEnqueue /\ ~Disable /\ ~\E r \in RunIds : ExecutorStep(r)
    <3>1. UNCHANGED sched
      BY <1>1, <2>4
      DEF Next, SchedulerStep, RecoverRunning, RecoverUnstarted, RecoverOccurrences, Reconcile,
          Claim, Admit, Attach, Reject, EndTick, Rows, SpawnForeground, DropForeground, CancelRun,
          ResumeOccurrence, CreateForeground, Revoke, Reinstate, Tick, Crash, Restart, EnvOnly, vars
    <3> QED
      BY <3>1
  <2> QED
    BY <2>1, <2>2, <2>3, <2>4
<1> QED
  BY <1>2, <1>3 DEF PoliciesStay, AllLive

(* Without a revocation the owner keeps access. *)
LEMMA RevokeSteps ==
    ASSUME IInv, [Next]_vars, NeverRevoked'
    PROVE  NeverRevoked /\ (AccessOk => AccessOk')
<1>1. ~Revoke
  BY SpendType DEF Revoke, NeverRevoked, Events, IInv
<1>2. /\ UNCHANGED spent \/ \E w \in Events \ {"revoke"} : Spend(w)
      /\ UNCHANGED access \/ access' = "ok"
  BY <1>1, ExecutorEffect
  DEF Next, SchedulerStep, RecoverRunning, RecoverUnstarted, RecoverOccurrences, Reconcile, AdvanceAndEnqueue,
      Claim, Admit, Attach, Reject, Disable, EndTick, TaskOnly, SpawnForeground, DropForeground, CancelRun,
      ResumeOccurrence, CreateForeground, Reinstate, Tick, Crash, Restart, UpdateSchedule, DeleteSchedule,
      HttpOnly, EnvOnly, Events, vars
<1> QED
  BY <1>2, SpendType DEF NeverRevoked, AccessOk, Events, IInv

(* What has not happened has left no trace. *)
StandingInv == (Unedited => AllLive) /\ (NeverRevoked => AccessOk)

LEMMA StandingKnown == Spec => []StandingInv
<1>1. ASSUME Init PROVE StandingInv
  BY <1>1 DEF Init, StandingInv, AllLive, AccessOk
<1>2. IInv /\ StandingInv /\ [Next]_vars => StandingInv'
  BY EditSteps, RevokeSteps DEF StandingInv
<1> QED
  BY <1>1, <1>2, RowsConsistent, PTL DEF Spec

(* The claim fills the free slots of a schedule and no more: the rows it leases come first
   among the looked-at rows of their schedule. *)
LEMMA ClaimWithinPolicy ==
    ASSUME IInv, Claim, NEW s \in Schedules, Cardinality(ActiveOf(s)) <= Capacity(sched[s].policy)
    PROVE  Cardinality(ActiveOf(s)') <= Capacity(sched[s].policy)
<1> DEFINE cap == Capacity(sched[s].policy)
           old == ActiveOf(s)
           new == {i \in Looked : occs[i].sched = s /\ Claimed(i) = "leased"}
<1>1. ActiveOf(s)' \subseteq old \union new /\ old \subseteq DOMAIN occs /\ new \subseteq DOMAIN occs
  <2>1. OccsMove /\ DOMAIN occs' = DOMAIN occs
    BY ClaimIInv, RunsUnchanged, MoveLengths DEF IInv, Claim
  <2>2. \A i \in DOMAIN occs : i \notin Looked => occs'[i] = occs[i]
    BY DEF Claim
  <2>3. \A i \in Looked : i \in DOMAIN occs /\ occs'[i].state = Claimed(i)
    BY Tables DEF Claim, Looked, Queued, SetState, OccurrenceRows, IInv
  <2> QED
    BY <2>1, <2>2, <2>3, ClaimedRange DEF ActiveOf, OccsMove, Active
<1>2. /\ IsFiniteSet(old) /\ IsFiniteSet(new) /\ IsFiniteSet(old \union new)
      /\ Cardinality(old) \in Nat /\ Cardinality(new) \in Nat /\ Cardinality(old \union new) \in Nat
  BY <1>1, RowSetsFinite
<1>3. cap \in Nat \ {0}
  BY CapacityPositive
<1>4. Cardinality(ActiveOf(s)') <= Cardinality(old \union new)
  BY <1>1, <1>2, FS_Subset
<1>5. Cardinality(ActiveOf(s)') \in Nat
  BY <1>1, <1>2, FS_Subset, FS_CardinalityType
<1>6. CASE new = {}
  <2>1. Cardinality(old \union new) = Cardinality(old)
    <3>1. old \union new = old
      BY <1>6
    <3> QED
      BY <3>1, Zenon
  <2>2. Cardinality(old) <= cap
    OBVIOUS
  <2> HIDE DEF old, new
  <2> QED
    BY <2>1, <2>2, <1>2, <1>3, <1>4, <1>5
<1>7. CASE new # {}
  <2>1. new \subseteq 1..Len(occs) /\ Len(occs) \in Nat
    BY <1>1, Tables DEF IInv
  <2>2. PICK m \in new : \A i \in new : i <= m
    BY <1>7, <2>1, HasGreatest
  <2>3. Cardinality(old) + Cardinality(AheadOf(m)) < cap
    <3>1. occs[m].sched = s /\ Claimed(m) = "leased"
      BY <2>2
    <3> QED
      BY <3>1 DEF Claimed
  <2>4. new \ {m} \subseteq AheadOf(m)
    <3>1. \A i \in new : i \in Nat
      BY <2>1
    <3> QED
      BY <2>2, <3>1 DEF AheadOf
  <2>5. IsFiniteSet(AheadOf(m)) /\ Cardinality(AheadOf(m)) \in Nat
    <3>1. AheadOf(m) \subseteq DOMAIN occs
      BY DEF AheadOf, Looked, Queued
    <3> QED
      BY <3>1, RowSetsFinite
  <2>6. Cardinality(new \ {m}) <= Cardinality(AheadOf(m)) /\ Cardinality(new \ {m}) = Cardinality(new) - 1
    BY <1>2, <2>2, <2>4, <2>5, FS_Subset, FS_RemoveElement
  <2>7. Cardinality(old \union new) <= Cardinality(old) + Cardinality(new)
    <3>1. /\ Cardinality(old \union new) = Cardinality(old) + Cardinality(new) - Cardinality(old \cap new)
      BY <1>2, FS_Union
    <3>2. Cardinality(old \cap new) \in Nat
      BY <1>1, RowSetsFinite
    <3> QED
      BY <3>1, <3>2, <1>2
  <2> QED
    BY <1>2, <1>3, <1>4, <1>5, <2>3, <2>5, <2>6, <2>7
<1> QED
  BY <1>6, <1>7

(* What a step may do to one occurrence row. *)
RowStep(i) ==
    /\ i \in DOMAIN occs => occs'[i].sched = occs[i].sched
    /\ occs'[i].state = "leased" => i \in DOMAIN occs /\ (occs[i].state = "leased" \/ Claim)
    /\ occs'[i].state = "running" => i \in DOMAIN occs /\ occs[i].state \in Active

LEMMA RowSteps ==
    ASSUME IInv, [Next]_vars
    PROVE  DOMAIN occs \subseteq DOMAIN occs' /\ \A i \in DOMAIN occs' : RowStep(i)
<1>1. ASSUME OccsMove, RunsMove
      PROVE  /\ DOMAIN occs' = DOMAIN occs
             /\ \A i \in DOMAIN occs : occs'[i].sched = occs[i].sched /\ occs[i] \in OccurrenceRows
  BY <1>1, MoveLengths, Tables DEF IInv, OccsMove
<1>2. CASE UNCHANGED occs
  BY <1>2 DEF RowStep, Active
<1>3. CASE RecoverOccurrences
  <2>1. OccsMove /\ RunsMove
    BY <1>3, RecoverOccurrencesIInv, RunsUnchanged DEF RecoverOccurrences, IInv
  <2>2. \A i \in DOMAIN occs : occs'[i].state \in {occs[i].state, "outcome_unknown", "blocked"}
    BY <1>3, <2>1, <1>1 DEF RecoverOccurrences, SetState, OccurrenceRows
  <2> QED
    BY <2>1, <2>2, <1>1 DEF RowStep, Active
<1>4. CASE Reconcile
  <2>1. OccsMove /\ RunsMove
    BY <1>4, ReconcileIInv, RunsUnchanged DEF Reconcile, IInv
  <2>2. \A i \in DOMAIN occs : \/ occs'[i].state = occs[i].state
                               \/ occs[i].state = "running" /\ occs'[i].state \notin {"leased", "queued"}
    BY <1>4, <2>1, <1>1, VerdictRange DEF Reconcile, FoldVerdicts, SetState, OccurrenceRows
  <2> QED
    BY <2>1, <2>2, <1>1 DEF RowStep, Active
<1>5. CASE Claim
  <2>1. OccsMove /\ RunsMove
    BY <1>5, ClaimIInv, RunsUnchanged DEF Claim, IInv
  <2>2. \A i \in DOMAIN occs : \/ occs'[i].state = occs[i].state
                               \/ occs[i].state = "queued" /\ occs'[i].state \in {"leased", "blocked"}
    BY <1>5, <2>1, <1>1, ClaimedRange DEF Claim, Looked, Queued, SetState, OccurrenceRows
  <2> QED
    BY <2>1, <2>2, <1>1, <1>5 DEF RowStep, Active
<1>6. CASE Attach
  BY <1>6, AttachRows DEF RowStep, Active
<1>7. CASE Reject
  <2>1. OccsMove /\ RunsMove /\ task.verdict \in {"blocked", "rejected"}
    BY <1>7, RejectIInv, RunsUnchanged DEF Reject, IInv, TypeOK, InHand, Tasks, At
  <2>2. \A i \in DOMAIN occs : occs'[i].state \in {occs[i].state, "blocked", "rejected"}
    BY <1>7, <2>1, <1>1 DEF Reject, SetState, OccurrenceRows
  <2> QED
    BY <2>1, <2>2, <1>1 DEF RowStep, Active
<1>8. CASE \E s \in Schedules : DeleteSchedule(s)
  <2>1. OccsMove /\ RunsMove
    BY <1>8, DeleteIInv, RunsUnchanged DEF DeleteSchedule, IInv
  <2>2. \A i \in DOMAIN occs : occs'[i].state \in {occs[i].state, "gone"}
    BY <1>8, <2>1, <1>1 DEF DeleteSchedule, SetState, OccurrenceRows
  <2> QED
    BY <2>1, <2>2, <1>1 DEF RowStep, Active
<1>9. CASE \E i \in DOMAIN occs : ResumeOccurrence(i)
  <2>1. OccsMove /\ RunsMove
    BY <1>9, ResumeIInv, RunsUnchanged DEF ResumeOccurrence, IInv
  <2>2. \A i \in DOMAIN occs : occs'[i].state \in {occs[i].state, "queued"}
    BY <1>9, <2>1, <1>1 DEF ResumeOccurrence, SetState, OccurrenceRows
  <2> QED
    BY <2>1, <2>2, <1>1, <1>9 DEF RowStep, Active
<1>10. CASE AdvanceAndEnqueue
  <2>1. PICK d \in task.due : Advance(d)
    BY <1>10 DEF AdvanceAndEnqueue
  <2>2. d \in [s : Schedules, at : Nat]
    BY DEF IInv, TypeOK, Tasks
  <2>3. CASE occs' = Pruned(Enqueued(d), d.s)
    <3>1. /\ occs' \in Seq(OccurrenceRows)
          /\ Len(occs') \in Len(occs)..(Len(occs) + 1)
          /\ \A i \in DOMAIN occs :
                /\ occs'[i].sched = occs[i].sched
                /\ occs'[i].state = occs[i].state \/ occs'[i].state = "gone"
          /\ \A i \in DOMAIN occs' \ DOMAIN occs :
                /\ occs'[i].state = "queued" /\ occs'[i].sched = d.s
                /\ ~(sched[d.s].policy.kind = "queue_one" /\ AlreadyQueued(d.s))
      BY <2>2, <2>3, AdvanceRows
    <3>2. DOMAIN occs' = 1..Len(occs') /\ DOMAIN occs = 1..Len(occs) /\ Len(occs) \in Nat
      BY <3>1, Tables DEF IInv
    <3>3. DOMAIN occs \subseteq DOMAIN occs' /\ \A i \in DOMAIN occs' \ DOMAIN occs : i = Len(occs) + 1
      BY <3>1, <3>2
    <3> QED
      BY <3>1, <3>3 DEF RowStep, Active
  <2> QED
    BY <2>1, <2>3, <1>2 DEF Advance, Rows
<1>11. CASE \/ RecoverRunning \/ RecoverUnstarted \/ Admit \/ Disable \/ EndTick
            \/ \E r \in RunIds : SpawnForeground(r) \/ DropForeground(r) \/ CancelRun(r)
            \/ \E s \in Schedules : UpdateSchedule(s)
            \/ CreateForeground \/ Revoke \/ Reinstate \/ Tick \/ Crash \/ Restart \/ UNCHANGED vars
  BY <1>11, <1>2 DEF RecoverRunning, RecoverUnstarted, Admit, Disable, EndTick, Rows, SpawnForeground,
     DropForeground, CancelRun, UpdateSchedule, CreateForeground, Revoke, Reinstate, Tick, Crash, Restart, EnvOnly, vars
<1>12. CASE \E r \in RunIds : ExecutorStep(r)
  BY <1>12, <1>2, ExecutorEffect
<1> QED
  BY <1>3, <1>4, <1>5, <1>6, <1>7, <1>8, <1>9, <1>10, <1>11, <1>12 DEF Next, SchedulerStep

LEMMA NextActiveBound == IInv /\ ActiveBound /\ PoliciesStay /\ [Next]_vars => ActiveBound'
<1> SUFFICES ASSUME IInv, ActiveBound, PoliciesStay, [Next]_vars, NEW s \in Schedules
             PROVE  Cardinality(ActiveOf(s)') <= Capacity(sched[s].policy)
  BY DEF ActiveBound, PoliciesStay
<1>1. CASE Claim
  BY <1>1, ClaimWithinPolicy DEF ActiveBound
<1>2. CASE ~Claim
  <2>1. ActiveOf(s)' \subseteq ActiveOf(s)
    BY <1>2, RowSteps DEF RowStep, ActiveOf, Active
  <2>2. IsFiniteSet(ActiveOf(s)) /\ Cardinality(ActiveOf(s)) \in Nat
    BY RowSetsFinite DEF ActiveOf
  <2>3. Cardinality(ActiveOf(s)') <= Cardinality(ActiveOf(s)) /\ Cardinality(ActiveOf(s)') \in Nat
    BY <2>1, <2>2, FS_Subset, FS_CardinalityType
  <2>4. Capacity(sched[s].policy) \in Nat /\ Cardinality(ActiveOf(s)) <= Capacity(sched[s].policy)
    BY CapacityPositive DEF ActiveBound
  <2> QED
    BY <2>2, <2>3, <2>4
<1> QED
  BY <1>1, <1>2

(* The executors in flight are at most the rows that hold a slot: the run of an executor in
   flight is running, and so is its occurrence, which names that run. *)
LEMMA InFlightWithinPolicy ==
    ASSUME IInv, FlightInv, ActiveBound, AllLive
    PROVE  PolicyBoundsExecution
<1> SUFFICES ASSUME NEW s \in Schedules
             PROVE  Cardinality(InFlight(s)) <= Capacity(sched[s].policy)
  BY DEF PolicyBoundsExecution, Count
<1> DEFINE f == [r \in InFlight(s) |-> runs[r].occ]
<1>1. ASSUME NEW r \in InFlight(s)
      PROVE  runs[r].occ \in ActiveOf(s) /\ occs[runs[r].occ].run = r
  <2>1. r \in RunIds /\ OnCourse(r) /\ occs[runs[r].occ].sched = s
    <3>1. r \in DOMAIN runs /\ DOMAIN runs = 1..Len(runs) /\ Len(runs) <= MaxRuns /\ Len(runs) \in Nat /\ MaxRuns \in Nat
      BY Tables DEF InFlight, IInv, TypeOK
    <3> QED
      BY <3>1 DEF InFlight, OnCourse, RunIds
  <2>2. runs[r].occ \in DOMAIN occs /\ Busy(runs[r].occ) /\ occs[runs[r].occ].run = r
    BY <2>1, CourseKnows
  <2> QED
    BY <2>1, <2>2 DEF Busy, AllLive, ActiveOf, Active
<1>2. f \in Injection(InFlight(s), ActiveOf(s))
  BY <1>1 DEF Injection, IsInjective
<1>3. IsFiniteSet(ActiveOf(s)) /\ Cardinality(ActiveOf(s)) \in Nat
  BY RowSetsFinite DEF ActiveOf
<1>4. IsFiniteSet(InFlight(s)) /\ Cardinality(InFlight(s)) <= Cardinality(ActiveOf(s))
  BY <1>2, <1>3, FS_Injection
<1>5. Cardinality(InFlight(s)) \in Nat
  BY <1>4, FS_CardinalityType
<1>6. Capacity(sched[s].policy) \in Nat /\ Cardinality(ActiveOf(s)) <= Capacity(sched[s].policy)
  BY CapacityPositive DEF ActiveBound
<1> QED
  BY <1>3, <1>4, <1>5, <1>6

(* No schedule ever has more executors with statements in flight than its policy allows,
   although claim_queued_occurrences only counts rows; after an edit the rows count for the
   new policy only from then on. *)
THEOREM PolicyBounds == Spec => []PolicyBoundsExecution
<1> DEFINE Bounded == Unedited => ActiveBound
<1>1. ASSUME Init PROVE Bounded
  <2> SUFFICES ASSUME NEW s \in Schedules PROVE Cardinality(ActiveOf(s)) <= Capacity(sched[s].policy)
    BY DEF ActiveBound
  <2>1. ActiveOf(s) = {}
    BY <1>1 DEF Init, ActiveOf
  <2>2. Cardinality(ActiveOf(s)) = 0
    BY <2>1, FS_EmptySet
  <2> QED
    BY <1>1, <2>2, CapacityPositive, InitIInv
<1>2. IInv /\ Bounded /\ [Next]_vars => Bounded'
  BY EditSteps, NextActiveBound
<1>3. ASSUME IInv, FlightInv, StandingInv, Bounded PROVE PolicyBoundsExecution
  BY <1>3, InFlightWithinPolicy DEF PolicyBoundsExecution, StandingInv
<1> QED
  BY <1>1, <1>2, <1>3, RowsConsistent, ExecutorsInStep, StandingKnown, PTL DEF Spec

-----------------------------------------------------------------------------
(* Leases. *)

LEMMA NextLease == IInv /\ LeaseInv /\ AllLive /\ [Next]_vars => LeaseInv'
<1> SUFFICES ASSUME IInv, LeaseInv, AllLive, [Next]_vars PROVE LeaseInv'
  OBVIOUS
<1>0. /\ task \in Tasks /\ DOMAIN occs \subseteq DOMAIN occs' /\ 0 \notin DOMAIN occs
      /\ \A i \in DOMAIN occs' : occs'[i].state = "leased" => i \in DOMAIN occs /\ (occs[i].state = "leased" \/ Claim)
  BY RowSteps, Tables DEF IInv, TypeOK, RowStep
<1>1. ASSUME ~Claim, ~Recovering,
             \A i \in (task.todo \union {task.occ}) \cap DOMAIN occs :
                 i \in task'.todo \union {task'.occ} \/ occs'[i].state # "leased",
             task'.pc = "disable" => task.pc = "disable" /\ task'.occ = task.occ
      PROVE  LeaseInv'
  <2>1. \A i \in DOMAIN occs' : occs'[i].state = "leased" => i \in task'.todo \union {task'.occ}
    BY <1>0, <1>1 DEF LeaseInv, LeasesInHand
  <2>2. ASSUME task'.pc = "disable" PROVE occs'[task'.occ].state # "leased"
    <3>1. task.occ \in DOMAIN occs /\ occs[task.occ].state # "leased"
      BY <1>1, <2>2, Tables DEF LeaseInv, IInv, TypeOK, InHand
    <3> QED
      BY <3>1, <1>0, <1>1, <2>2
  <2> QED
    BY <2>1, <2>2 DEF LeaseInv, LeasesInHand
<1>2. CASE RecoverRunning \/ RecoverUnstarted
  <2>1. Recovering' /\ task'.pc # "disable"
    BY <1>0, <1>2 DEF RecoverRunning, RecoverUnstarted, Goto, Recovering, Tasks
  <2> QED
    BY <2>1 DEF LeaseInv, LeasesInHand
<1>3. CASE Crash \/ Restart
  <2>1. Recovering' /\ task'.pc # "disable"
    BY <1>3 DEF Crash, Restart, NewTask, Recovering
  <2> QED
    BY <2>1 DEF LeaseInv, LeasesInHand
<1>4. CASE RecoverOccurrences
  <2>1. task'.pc = "reconcile"
    BY <1>0, <1>4 DEF RecoverOccurrences, Goto, Tasks
  <2>2. DOMAIN occs' = DOMAIN occs /\ \A i \in DOMAIN occs : occs'[i].state # "leased"
    BY <1>4, Tables DEF RecoverOccurrences, IInv, SetState, OccurrenceRows, Active
  <2> QED
    BY <2>1, <2>2 DEF LeaseInv, LeasesInHand
<1>5. CASE Reconcile
  <2>1. task.pc = "reconcile" /\ task'.pc = "due" /\ task'.todo = task.todo /\ task'.occ = task.occ
    BY <1>0, <1>5 DEF Reconcile, At, Tasks
  <2>2. ~Claim
    BY <2>1 DEF Claim, At
  <2> QED
    BY <1>1, <2>1, <2>2 DEF Recovering
<1>6. CASE AdvanceAndEnqueue \/ EndTick \/ Disable
  <2>1. /\ task.pc \in {"due", "admit", "disable"} /\ ~Claim
        /\ task'.pc \in {"due", "reconcile", "admit"}
        /\ (task'.todo = task.todo /\ task'.occ = 0) \/ task.todo = {}
    <3>1. CASE AdvanceAndEnqueue
      <4>1. PICK d \in task.due : Advance(d)
        BY <3>1 DEF AdvanceAndEnqueue
      <4>2. task.pc = "due" /\ task.todo = {} /\ ~Claim
        BY <3>1, <4>1 DEF AdvanceAndEnqueue, At, IInv, InHand, Claim
      <4> QED
        BY <1>0, <4>1, <4>2 DEF Advance, AbortTick, NewTask, Tasks
    <3>2. CASE EndTick
      BY <3>2 DEF EndTick, At, AbortTick, NewTask, Claim
    <3>3. CASE Disable
      <4>1. sched[occs[task.occ].sched].live
        <5>1. task.occ \in DOMAIN occs
          BY <3>3, Tables DEF Disable, At, IInv, TypeOK, InHand
        <5> QED
          BY <5>1, Tables DEF AllLive, IInv, OccurrenceRows
      <4>2. NextOccurrence /\ task.pc = "disable"
        BY <3>3, <4>1 DEF Disable, At
      <4> QED
        BY <1>0, <4>2 DEF NextOccurrence, Tasks, Claim, At
    <3> QED
      BY <1>6, <3>1, <3>2, <3>3
  <2>2. task.pc # "disable" => task.occ = 0
    BY <2>1 DEF IInv, InHand
  <2>3. task.pc = "disable" => task.occ \in DOMAIN occs /\ occs[task.occ].state # "leased" /\ occs'[task.occ].state # "leased"
    BY <1>0, <2>1, Tables DEF LeaseInv, IInv, TypeOK, InHand
  <2>4. \A i \in (task.todo \union {task.occ}) \cap DOMAIN occs :
            i \in task'.todo \union {task'.occ} \/ occs'[i].state # "leased"
    BY <1>0, <2>1, <2>2, <2>3
  <2> QED
    BY <1>1, <2>1, <2>4 DEF Recovering
<1>7. CASE Claim
  <2>1. /\ task.pc = "due" /\ task'.pc = "admit" /\ task'.todo = {i \in Looked : Claimed(i) = "leased"}
    BY <1>0, <1>7 DEF Claim, At, Tasks
  <2>2. \A i \in DOMAIN occs : occs[i].state # "leased"
    BY <1>0, <2>1 DEF LeaseInv, LeasesInHand, IInv, InHand, Recovering
  <2>3. DOMAIN occs' = DOMAIN occs /\ \A i \in DOMAIN occs : occs'[i].state = "leased" => i \in Looked /\ Claimed(i) = "leased"
    BY <1>7, <2>2, Tables DEF Claim, IInv, SetState, OccurrenceRows
  <2> QED
    BY <2>1, <2>3 DEF LeaseInv, LeasesInHand
<1>8. CASE Admit
  <2>1. PICK i \in task.todo : task'.todo = task.todo \ {i} /\ task'.occ = i /\ task'.pc \in {"attach", "reject"}
    BY <1>0, <1>8 DEF Admit, Tasks
  <2>2. task.pc = "admit" /\ ~Claim /\ task.occ = 0
    BY <1>8 DEF Admit, At, Claim, IInv, InHand
  <2> QED
    BY <1>0, <1>1, <2>1, <2>2 DEF Recovering
<1>9. CASE Attach
  <2>1. task'.todo = task.todo /\ task'.pc # "disable" /\ task.pc = "attach" /\ ~Claim
    BY <1>0, <1>9 DEF Attach, NextOccurrence, At, Claim, Tasks
  <2>2. occs'[task.occ].state # "leased"
    BY <1>9, AttachRows
  <2> QED
    BY <1>1, <2>1, <2>2 DEF Recovering
<1>10. CASE Reject
  <2>1. task'.todo = task.todo /\ task'.occ = task.occ /\ task'.pc = "disable" /\ task.pc = "reject" /\ ~Claim
    BY <1>0, <1>10 DEF Reject, Goto, At, Claim, Tasks
  <2>2. occs'[task.occ].state # "leased"
    <3>1. task.occ \in DOMAIN occs /\ occs[task.occ] \in OccurrenceRows /\ task.verdict # "leased"
      BY <1>0, <2>1, Tables DEF IInv, TypeOK, InHand, Tasks
    <3> QED
      BY <1>10, <3>1 DEF Reject, SetState, OccurrenceRows
  <2>3. \A i \in DOMAIN occs' : occs'[i].state = "leased" => i \in task'.todo \union {task'.occ}
    BY <1>0, <2>1 DEF LeaseInv, LeasesInHand, Recovering
  <2> QED
    BY <2>1, <2>2, <2>3 DEF LeaseInv, LeasesInHand
<1>11. CASE UNCHANGED task /\ ~Claim
  <2>1. CASE Recovering
    BY <1>11, <2>1 DEF LeaseInv, LeasesInHand, Recovering
  <2>2. CASE ~Recovering
    BY <1>1, <1>11, <2>2
  <2> QED
    BY <2>1, <2>2
<1>12. CASE \E r \in RunIds : ExecutorStep(r)
  BY <1>7, <1>11, <1>12, ExecutorEffect
<1>13. CASE \/ \E r \in RunIds : SpawnForeground(r) \/ DropForeground(r) \/ CancelRun(r)
            \/ \E s \in Schedules : UpdateSchedule(s) \/ DeleteSchedule(s)
            \/ \E i \in DOMAIN occs : ResumeOccurrence(i)
            \/ CreateForeground \/ Revoke \/ Reinstate \/ Tick \/ UNCHANGED vars
  <2>1. UNCHANGED task
    BY <1>13 DEF SpawnForeground, DropForeground, CancelRun, UpdateSchedule, DeleteSchedule, ResumeOccurrence,
       CreateForeground, Revoke, Reinstate, Tick, HttpOnly, vars
  <2> QED
    BY <2>1, <1>7, <1>11
<1> QED
  BY <1>2, <1>3, <1>4, <1>5, <1>6, <1>7, <1>8, <1>9, <1>10, <1>12, <1>13 DEF Next, SchedulerStep

(* Unless a schedule is edited or deleted, a leased occurrence is in the scheduler's hands
   once recovery is over: no slot is lost, whatever crashes, failed admissions and
   revocations come between (claim_queued_occurrences, recover_interrupted_runs). *)
THEOREM LeasesHeld == Spec => []LeasesAreHeld
<1> DEFINE Kept == Unedited => LeaseInv
<1>1. Init => Kept
  BY DEF Init, LeaseInv, LeasesInHand, Recovering, NewTask
<1>2. IInv /\ StandingInv /\ Kept /\ [Next]_vars => Kept'
  BY EditSteps, NextLease DEF StandingInv
<1>3. ASSUME Kept PROVE LeasesAreHeld
  BY <1>3 DEF LeaseInv, LeasesInHand, LeasesAreHeld
<1> QED
  BY <1>1, <1>2, <1>3, RowsConsistent, StandingKnown, PTL DEF Spec

-----------------------------------------------------------------------------
(* Open runs. *)

(* An executor that ends while the owner has access leaves its run settled. *)
LEMMA ExecutorSettles ==
    ASSUME IInv, AccessOk, NEW r \in RunIds, ExecutorStep(r), exec'[r].pc = "none"
    PROVE  runs'[r].state \notin Open
<1>1. exec \in [RunIds -> Executors] /\ r \in DOMAIN runs /\ runs[r] \in RunRows
  BY ExecutorEffect, Tables DEF IInv, TypeOK
<1>2. CASE AdmitRun(r) \/ PrepareRun(r) \/ StartRun(r) \/ NextScript(r)
  BY <1>1, <1>2 DEF AdmitRun, PrepareRun, StartRun, NextScript, Transition, Step, Executors
<1>3. CASE ConnectRun(r)
  BY <1>1, <1>3 DEF ConnectRun, Step, Move, SetState, Executors, RunRows, Open
<1>4. CASE RunScripts(r)
  <2>1. PICK e \in Endings : exec' = [exec EXCEPT ![r] = e]
    BY <1>4 DEF RunScripts
  <2>2. e.pc \in {"conclude", "fail"}
    BY DEF Endings
  <2> QED
    BY <1>1, <2>1, <2>2
<1>5. CASE ConcludeRun(r)
  <2>1. exec[r].end \in RunEndings
    BY <1>1, <1>5 DEF ConcludeRun, IInv, TypeOK, Executors
  <2> QED
    BY <1>1, <1>5, <2>1 DEF ConcludeRun, Step, Move, SetState, Executors, RunRows, RunEndings, Open
<1>6. CASE FailRun(r)
  BY <1>1, <1>6 DEF FailRun, MayMove, Move, SetState, RunRows, AccessOk, Open
<1> QED
  BY <1>2, <1>3, <1>4, <1>5, <1>6 DEF ExecutorStep

LEMMA NextOpen == IInv /\ HeldInv /\ OpenInv /\ AllLive /\ AccessOk /\ [Next]_vars => OpenInv'
<1> SUFFICES ASSUME IInv, HeldInv, OpenInv, AllLive, AccessOk, [Next]_vars PROVE OpenInv'
  OBVIOUS
<1>0. task \in Tasks /\ DOMAIN runs = 1..Len(runs) /\ Len(runs) \in Nat /\ \A r \in DOMAIN runs : runs[r] \in RunRows
  BY Tables DEF IInv, TypeOK
<1>1. ASSUME UNCHANGED <<runs, exec, forsaken>>, task'.run = task.run, task'.pc # "attach", task.pc # "attach",
             task'.pc \notin {"down", "recover_running"} =>
                 task.pc \notin {"down", "recover_running", "recover_unstarted"}
      PROVE  OpenInv'
  BY <1>1 DEF OpenInv, Driven
<1>2. CASE RecoverRunning
  <2>1. task.pc = "recover_running" /\ task'.pc = "recover_unstarted" /\ task'.run = task.run
    BY <1>0, <1>2 DEF RecoverRunning, At, Goto, Tasks
  <2>2. DOMAIN runs' = DOMAIN runs /\ \A r \in DOMAIN runs : runs'[r].state # "running"
    BY <1>0, <1>2 DEF RecoverRunning, SetState, RunRows
  <2> QED
    BY <2>1, <2>2 DEF OpenInv
<1>3. CASE RecoverUnstarted
  <2>1. task.pc = "recover_unstarted" /\ task'.pc = "recover_occurrences" /\ task'.run = task.run /\ UNCHANGED <<exec, forsaken>>
    BY <1>0, <1>3 DEF RecoverUnstarted, At, Goto, Tasks, TaskOnly
  <2>2. DOMAIN runs' = DOMAIN runs /\ \A r \in DOMAIN runs : runs'[r].state \in Open => runs'[r].state = "running" /\ runs[r].state = "running"
    BY <1>0, <1>3 DEF RecoverUnstarted, SetState, RunRows, Open
  <2> QED
    BY <2>1, <2>2 DEF OpenInv, Driven, Open
<1>4. CASE RecoverOccurrences \/ Reconcile \/ Claim
  BY <1>0, <1>1, <1>4 DEF RecoverOccurrences, Reconcile, Claim, At, Goto, Tasks, TaskOnly
<1>5. CASE AdvanceAndEnqueue
  <2>1. PICK d \in task.due : Advance(d)
    BY <1>5 DEF AdvanceAndEnqueue
  <2>2. task.pc = "due" /\ UNCHANGED <<exec, forsaken>> /\ UNCHANGED runs /\ task.run = 0
    BY <1>5, <2>1 DEF AdvanceAndEnqueue, At, TaskOnly, Advance, Rows, OpenInv
  <2>3. task'.pc \in {"due", "reconcile"} /\ task'.run = task.run
    BY <1>0, <2>1, <2>2 DEF Advance, AbortTick, NewTask, Tasks
  <2> QED
    BY <1>1, <2>2, <2>3
<1>6. CASE EndTick
  <2>1. task.pc = "admit" /\ UNCHANGED <<runs, exec, forsaken>> /\ task.run = 0 /\ task'.pc = "reconcile" /\ task'.run = 0
    BY <1>6 DEF EndTick, At, Rows, TaskOnly, AbortTick, NewTask, OpenInv
  <2> QED
    BY <1>1, <2>1
<1>7. CASE Reject
  BY <1>0, <1>1, <1>7 DEF Reject, At, Goto, Tasks, TaskOnly
<1>8. CASE Disable
  <2>1. task.pc = "disable" /\ UNCHANGED <<runs, exec, forsaken>> /\ task.run = 0
    BY <1>8 DEF Disable, At, TaskOnly, OpenInv
  <2>2. CASE NextOccurrence
    BY <1>0, <1>1, <2>1, <2>2 DEF NextOccurrence, Tasks
  <2>3. CASE task' = NewTask("reconcile")
    BY <1>1, <2>1, <2>3 DEF NewTask
  <2> QED
    BY <1>8, <2>2, <2>3 DEF Disable, AbortTick
<1>9. CASE Admit
  <2>0. UNCHANGED <<occs, exec, forsaken>> /\ task.pc = "admit" /\ task.run = 0
    BY <1>9 DEF Admit, TaskOnly, At, OpenInv
  <2>1. CASE task'.pc = "reject"
    <3>1. UNCHANGED runs /\ task'.run = task.run
      BY <1>0, <1>9, <2>1 DEF Admit, Tasks
    <3> QED
      BY <1>1, <2>0, <2>1, <3>1
  <2>2. CASE task'.pc # "reject"
    <3>1. PICK i \in task.todo : /\ runs' = Append(runs, [occ |-> i, state |-> "queued"]) /\ Len(runs) < MaxRuns
                                 /\ task'.run = Len(runs) + 1 /\ task'.pc = "attach"
      BY <1>0, <1>9, <2>2 DEF Admit, Tasks
    <3>2. i \in 0..Len(occs)
      BY Tables DEF IInv, TypeOK
    <3>3. DOMAIN runs' = 1..(Len(runs) + 1) /\ \A r \in DOMAIN runs : runs'[r] = runs[r]
      BY <2>0, <3>1, <3>2, AppendRun
    <3>4. \A r \in DOMAIN runs : runs[r].state \in Open => exec[r].pc # "none" \/ r \in forsaken
      BY <1>0, <2>0 DEF OpenInv, Driven
    <3>5. \A r \in DOMAIN runs' : r \in DOMAIN runs \/ r = Len(runs) + 1
      BY <1>0, <3>3
    <3>6. "running" \in Open
      BY DEF Open
    <3> QED
      BY <2>0, <3>1, <3>3, <3>4, <3>5, <3>6 DEF OpenInv, Driven
  <2> QED
    BY <2>1, <2>2
<1>10. CASE Attach
  <2>1. task.pc = "attach" /\ UNCHANGED <<runs, forsaken>> /\ task.occ \in DOMAIN occs /\ task.run \in RunIds
    <3>1. task.pc = "attach" /\ UNCHANGED <<runs, forsaken>>
      BY <1>10 DEF Attach, At
    <3> QED
      BY <3>1, Tables DEF IInv, TypeOK, InHand, RunIds
  <2>2. occs[task.occ].state = "leased"
    BY <2>1, Tables DEF HeldInv, Held, AllLive, IInv, OccurrenceRows
  <2>3. NextOccurrence /\ exec' = [exec EXCEPT ![task.run] = [pc |-> "admit", end |-> "none"]]
    BY <1>10, <2>2 DEF Attach, Spawn
  <2>4. task'.pc = "admit" /\ task'.run = 0
    BY <1>0, <2>3 DEF NextOccurrence, Tasks
  <2>5. exec'[task.run].pc = "admit" /\ \A r \in RunIds : r # task.run => exec'[r] = exec[r]
    BY <2>1, <2>3 DEF IInv, TypeOK
  <2>6. \A r \in DOMAIN runs : r \in RunIds
    BY <1>0, Tables DEF IInv, TypeOK, RunIds
  <2> QED
    BY <2>1, <2>4, <2>5, <2>6 DEF OpenInv, Driven
<1>11. CASE Crash \/ Restart
  BY <1>11 DEF Crash, Restart, NewTask, OpenInv
<1>12. CASE \E r \in RunIds : ExecutorStep(r)
  <2>1. PICK r \in RunIds : ExecutorStep(r)
    BY <1>12
  <2>2. /\ UNCHANGED <<task, forsaken>> /\ RunsMove /\ \A q \in DOMAIN runs : q # r => runs'[q] = runs[q]
        /\ \A q \in RunIds : q # r => exec'[q] = exec[q]
    BY <2>1, ExecutorEffect
  <2>3. DOMAIN runs' = DOMAIN runs /\ \A q \in DOMAIN runs : q \in RunIds
    BY <2>2, Tables DEF RunsMove, IInv, TypeOK, RunIds
  <2>4. exec'[r].pc = "none" => runs'[r].state \notin Open
    BY <2>1, ExecutorSettles
  <2>5. \A q \in DOMAIN runs : q = r \/ (runs'[q] = runs[q] /\ (Driven(q)' <=> Driven(q)))
    BY <2>2, <2>3 DEF Driven
  <2>6. runs'[r].state \in Open => Driven(r)'
    BY <2>4 DEF Driven
  <2>7. "running" \in Open
    BY DEF Open
  <2> QED
    BY <2>2, <2>3, <2>5, <2>6, <2>7 DEF OpenInv
<1>13. CASE CreateForeground
  <2>1. /\ Len(runs) < MaxRuns /\ runs' = Append(runs, [occ |-> 0, state |-> "queued"])
        /\ exec' = [exec EXCEPT ![Len(runs) + 1].pc = "create"] /\ UNCHANGED <<occs, task, forsaken>>
    BY <1>13 DEF CreateForeground, HttpOnly
  <2>2. 0 \in 0..Len(occs) /\ Len(runs) + 1 \in RunIds /\ \A r \in DOMAIN runs : r \in RunIds
    BY <1>0, <2>1, Tables DEF IInv, TypeOK, RunIds
  <2>3. DOMAIN runs' = 1..(Len(runs) + 1) /\ \A r \in DOMAIN runs : runs'[r] = runs[r]
    BY <2>1, <2>2, AppendRun
  <2>4. /\ exec'[Len(runs) + 1].pc = "create"
        /\ \A r \in DOMAIN runs : exec'[r] = exec[r]
    BY <1>0, <2>1, <2>2 DEF IInv, TypeOK, Executors
  <2>5. \A r \in DOMAIN runs' : r \in DOMAIN runs \/ r = Len(runs) + 1
    BY <1>0, <2>3
  <2> QED
    BY <2>1, <2>3, <2>4, <2>5 DEF OpenInv, Driven
<1>14. CASE \E r \in RunIds : SpawnForeground(r)
  <2>1. PICK r \in RunIds : exec' = [exec EXCEPT ![r] = [pc |-> "admit", end |-> "none"]] /\ UNCHANGED <<runs, task, forsaken>>
    BY <1>14 DEF SpawnForeground, Spawn, HttpOnly
  <2>2. \A q \in DOMAIN runs : exec[q].pc # "none" => exec'[q].pc # "none"
    <3>1. \A q \in DOMAIN runs : q \in RunIds
      <4>1. DOMAIN runs = 1..Len(runs) /\ Len(runs) \in Nat /\ MaxRuns \in Nat /\ Len(runs) <= MaxRuns
        BY Tables DEF IInv, TypeOK
      <4> QED
        BY <4>1 DEF RunIds
    <3> QED
      BY <2>1, <3>1 DEF IInv, TypeOK
  <2> QED
    BY <2>1, <2>2 DEF OpenInv, Driven
<1>15. CASE \/ \E r \in RunIds : CancelRun(r)
            \/ \E s \in Schedules : UpdateSchedule(s) \/ DeleteSchedule(s)
            \/ \E i \in DOMAIN occs : ResumeOccurrence(i)
            \/ Revoke \/ Reinstate \/ Tick \/ UNCHANGED vars
  <2>1. UNCHANGED <<task, runs, exec, forsaken>>
    BY <1>15 DEF CancelRun, UpdateSchedule, DeleteSchedule, ResumeOccurrence, Revoke, Reinstate, Tick,
       HttpOnly, EnvOnly, vars
  <2> QED
    BY <2>1 DEF OpenInv, Driven
<1>16. CASE \E r \in RunIds : DropForeground(r)
  <2>1. PICK r \in RunIds : /\ exec' = [exec EXCEPT ![r] = Idle] /\ forsaken' = forsaken \union {r}
                            /\ UNCHANGED <<runs, task>>
    BY <1>16 DEF DropForeground
  <2>2. \A q \in DOMAIN runs : exec[q].pc # "none" => exec'[q].pc # "none" \/ q \in forsaken'
    <3>1. \A q \in DOMAIN runs : q \in RunIds
      <4>1. DOMAIN runs = 1..Len(runs) /\ Len(runs) \in Nat /\ MaxRuns \in Nat /\ Len(runs) <= MaxRuns
        BY Tables DEF IInv, TypeOK
      <4> QED
        BY <4>1 DEF RunIds
    <3> QED
      BY <2>1, <3>1 DEF IInv, TypeOK
  <2> QED
    BY <2>1, <2>2 DEF OpenInv, Driven
<1> QED
  BY <1>2, <1>3, <1>4, <1>5, <1>6, <1>7, <1>8, <1>9, <1>10, <1>11, <1>12, <1>13, <1>14, <1>15, <1>16
  DEF Next, SchedulerStep

(* A run that is open once recovery is over has its executor, wherever crashes fell, unless
   its start_run was dropped before the spawn, the owner has lost access, or a schedule was
   edited or deleted (start_run, spawn_run, recover_interrupted_runs). *)
THEOREM OpenRunsDriven == Spec => []OpenRunsAreDriven
<1> DEFINE Cared == Unedited /\ NeverRevoked => OpenInv
<1>1. Init => Cared
  BY DEF Init, OpenInv, NewTask
<1>2. IInv /\ HeldInv /\ StandingInv /\ Cared /\ [Next]_vars => Cared'
  BY EditSteps, RevokeSteps, NextOpen DEF StandingInv
<1>3. ASSUME Cared PROVE OpenRunsAreDriven
  BY <1>3 DEF OpenInv, OpenRunsAreDriven, Driven, Recovering
<1> QED
  BY <1>1, <1>2, <1>3, ExecutorsInStep, StandingKnown, PTL DEF Spec

-----------------------------------------------------------------------------
(* Blocked runs. *)

(* Whoever has sent a statement has left the states that recovery may block, and an executor
   that may send one has, too: its row is running, or recovery has found it running. *)
TouchInv ==
    /\ \A r \in touched : runs[r].state \in {"running"} \union RunEndings
    /\ \A r \in RunIds : exec[r].pc \in {"scripts", "executing", "conclude"} =>
          r \in DOMAIN runs /\ runs[r].state \in {"running", "outcome_unknown"}

(* Steps that leave the rows of the runs alone and set no executor to work. *)
LEMMA TouchFrame ==
    ASSUME TouchInv, UNCHANGED touched, touched \subseteq DOMAIN runs, DOMAIN runs \subseteq DOMAIN runs',
           \A r \in DOMAIN runs : runs'[r] = runs[r],
           \A r \in RunIds : exec'[r].pc \in {"scripts", "executing", "conclude"} => exec'[r] = exec[r]
    PROVE  TouchInv'
  BY DEF TouchInv

LEMMA ExecutorTouch ==
    ASSUME IInv, TouchInv, NEW r \in RunIds, ExecutorStep(r)
    PROVE  TouchInv'
<1>1. /\ r \in DOMAIN runs /\ DOMAIN runs' = DOMAIN runs /\ touched \subseteq DOMAIN runs
      /\ \A q \in DOMAIN runs : q # r => runs'[q] = runs[q]
      /\ exec \in [RunIds -> Executors] /\ \A q \in RunIds : q # r => exec'[q] = exec[q]
      /\ touched' \in {touched, touched \union {r}}
      /\ runs[r] \in RunRows
  BY ExecutorEffect, Tables DEF IInv, TypeOK, RunsMove
<1>2. ASSUME r \in touched' => runs'[r].state \in {"running"} \union RunEndings,
             exec'[r].pc \in {"scripts", "executing", "conclude"} => runs'[r].state \in {"running", "outcome_unknown"}
      PROVE  TouchInv'
  BY <1>1, <1>2 DEF TouchInv
<1>3. CASE AdmitRun(r) \/ PrepareRun(r) \/ ConnectRun(r)
  <2>1. UNCHANGED touched /\ exec'[r].pc \notin {"scripts", "executing", "conclude"}
    BY <1>1, <1>3 DEF AdmitRun, PrepareRun, ConnectRun, Transition, Step, Done, Idle, Quiet, Executors
  <2>2. UNCHANGED runs \/ runs[r].state \in {"queued", "admitted", "preparing"}
    BY <1>3 DEF AdmitRun, PrepareRun, ConnectRun, Transition, MayMove
  <2> QED
    BY <1>2, <2>1, <2>2 DEF TouchInv, RunEndings
<1>4. CASE StartRun(r)
  <2>1. UNCHANGED touched
    BY <1>4 DEF StartRun, Transition, Quiet
  <2>2. CASE runs[r].state = "preparing" /\ Move(r, "running")
    <3>1. runs'[r].state = "running"
      BY <1>1, <2>2 DEF Move, SetState, RunRows
    <3> QED
      BY <1>2, <3>1
  <2>3. CASE UNCHANGED runs /\ Step(r, "fail")
    <3>1. exec'[r].pc = "fail"
      BY <1>1, <2>3 DEF Step, Executors
    <3> QED
      BY <1>2, <2>1, <2>3, <3>1 DEF TouchInv
  <2> QED
    BY <1>4, <2>2, <2>3 DEF StartRun, Transition, MayMove
<1>5. CASE NextScript(r) \/ RunScripts(r)
  <2>1. UNCHANGED runs /\ exec[r].pc \in {"scripts", "executing"}
    BY <1>5 DEF NextScript, RunScripts
  <2> QED
    BY <1>1, <1>2, <2>1 DEF TouchInv, RunEndings
<1>6. CASE ConcludeRun(r) \/ FailRun(r)
  <2>1. UNCHANGED touched /\ exec'[r].pc \in {"none", "fail"}
    BY <1>1, <1>6 DEF ConcludeRun, FailRun, Step, Done, Idle, Executors
  <2>2. UNCHANGED runs \/ \E to \in RunEndings : Move(r, to)
    <3>1. exec[r].pc = "conclude" => exec[r].end \in RunEndings
      BY <1>1 DEF IInv, TypeOK, Executors
    <3> QED
      BY <1>6, <3>1 DEF ConcludeRun, FailRun, RunEndings
  <2>3. UNCHANGED runs \/ runs'[r].state \in RunEndings
    BY <1>1, <2>2 DEF Move, SetState, RunRows
  <2> QED
    BY <1>2, <2>1, <2>3 DEF TouchInv
<1> QED
  BY <1>3, <1>4, <1>5, <1>6 DEF ExecutorStep

LEMMA NextTouch == IInv /\ TouchInv /\ [Next]_vars => TouchInv'
<1> SUFFICES ASSUME IInv, TouchInv, [Next]_vars PROVE TouchInv'
  OBVIOUS
<1>0. /\ DOMAIN runs = 1..Len(runs) /\ Len(runs) \in Nat /\ touched \subseteq DOMAIN runs
      /\ \A r \in DOMAIN runs : runs[r] \in RunRows
      /\ exec \in [RunIds -> Executors]
  BY Tables DEF IInv, TypeOK
<1>1. CASE RecoverRunning \/ RecoverUnstarted
  <2>1. UNCHANGED <<exec, touched>> /\ DOMAIN runs' = DOMAIN runs
    BY <1>1 DEF RecoverRunning, RecoverUnstarted, TaskOnly
  <2>2. \A r \in DOMAIN runs :
            \/ runs'[r] = runs[r]
            \/ runs[r].state = "running" /\ runs'[r].state = "outcome_unknown"
            \/ runs[r].state \in Open \ {"running"}
    BY <1>0, <1>1 DEF RecoverRunning, RecoverUnstarted, SetState, RunRows
  <2> QED
    BY <1>0, <2>1, <2>2 DEF TouchInv, Open, RunEndings
<1>2. CASE Admit \/ CreateForeground
  <2>1. PICK o \in Nat : UNCHANGED runs \/ runs' = Append(runs, [occ |-> o, state |-> "queued"])
    <3>1. CASE Admit
      <4>1. task.todo \subseteq Nat
        BY DEF IInv, TypeOK, Tasks
      <4>2. PICK i \in task.todo : UNCHANGED runs \/ runs' = Append(runs, [occ |-> i, state |-> "queued"])
        BY <3>1 DEF Admit
      <4> QED
        BY <4>1, <4>2
    <3>2. CASE CreateForeground
      BY <3>2 DEF CreateForeground
    <3> QED
      BY <1>2, <3>1, <3>2
  <2>2. runs \in Seq(RunRows) /\ [occ |-> o, state |-> "queued"] \in RunRows
    BY DEF IInv, TypeOK, RunRows, RunStates, Open
  <2>3. DOMAIN runs \subseteq DOMAIN runs' /\ \A r \in DOMAIN runs : runs'[r] = runs[r]
    BY <2>1, <2>2
  <2>4. UNCHANGED touched /\ \A r \in RunIds : exec'[r].pc \in {"scripts", "executing", "conclude"} => exec'[r] = exec[r]
    BY <1>0, <1>2 DEF Admit, TaskOnly, CreateForeground, Executors
  <2> QED
    BY <1>0, <2>3, <2>4, TouchFrame
<1>3. CASE Attach \/ Crash \/ \E r \in RunIds : SpawnForeground(r) \/ DropForeground(r)
  <2>1. UNCHANGED <<runs, touched>>
    BY <1>3 DEF Attach, Crash, SpawnForeground, DropForeground
  <2>2. \A r \in RunIds : exec'[r].pc \in {"scripts", "executing", "conclude"} => exec'[r] = exec[r]
    BY <1>0, <1>3 DEF Attach, Crash, SpawnForeground, DropForeground, Spawn, Idle
  <2> QED
    BY <1>0, <2>1, <2>2, TouchFrame
<1>4. CASE \E r \in RunIds : ExecutorStep(r)
  BY <1>4, ExecutorTouch
<1>5. CASE AdvanceAndEnqueue
  <2>1. UNCHANGED <<runs, exec, touched>>
    BY <1>5 DEF AdvanceAndEnqueue, Advance, Rows, TaskOnly
  <2> QED
    BY <1>0, <2>1, TouchFrame
<1>6. CASE \/ RecoverOccurrences \/ Reconcile \/ Claim \/ Reject \/ Disable \/ EndTick
           \/ \E r \in RunIds : CancelRun(r)
           \/ \E s \in Schedules : UpdateSchedule(s) \/ DeleteSchedule(s)
           \/ \E i \in DOMAIN occs : ResumeOccurrence(i)
           \/ Revoke \/ Reinstate \/ Tick \/ Restart \/ UNCHANGED vars
  <2>1. UNCHANGED <<runs, exec, touched>>
    BY <1>6 DEF RecoverOccurrences, Reconcile, Claim, Reject, Disable, EndTick, Rows, TaskOnly, CancelRun,
       UpdateSchedule, DeleteSchedule, ResumeOccurrence, Revoke, Reinstate, Tick, Restart, EnvOnly, vars
  <2> QED
    BY <1>0, <2>1, TouchFrame
<1> QED
  BY <1>1, <1>2, <1>3, <1>4, <1>5, <1>6 DEF Next, SchedulerStep

(* A run that is recorded as blocked has sent nothing, although executors of foreground runs
   move beside the statements of recovery (recover_interrupted_runs). *)
THEOREM BlockedIsSafe == Spec => []BlockedNeverRan
<1>1. Init => TouchInv
  BY DEF Init, TouchInv, Idle
<1>2. IInv /\ TouchInv => BlockedNeverRan
  BY DEF TouchInv, BlockedNeverRan, RunEndings
<1> QED
  BY <1>1, <1>2, NextTouch, RowsConsistent, PTL DEF Spec
=============================================================================
