------------------------ MODULE OperationTasks_proofs ------------------------
(***************************************************************************)
(* Proofs about the operation-task queue, for any set of tasks and sagas   *)
(* of any length.                                                          *)
(***************************************************************************)
EXTENDS OperationTasks, FiniteSetTheorems, TLAPS

(* The rank a new row receives is a natural number.                        *)
LEMMA SubmittedRank == Cardinality(Submitted) \in Nat
<1>1. IsFiniteSet(Submitted)
  BY FS_Subset, TaskAssumption DEF Submitted
<1> QED
  BY <1>1, FS_CardinalityType

(* try_acquire yields a well-formed row at the same step.                  *)
LEMMA TryAcquireType ==
    ASSUME NEW row \in Row
    PROVE  TryAcquire(row) \in Row /\ TryAcquire(row).step = row.step
  BY DEF TryAcquire, Row, Live

(* The rows, the clock and the workers' copies keep their types, and no    *)
(* row points past the end of its saga, with any number of dispatch loops  *)
(* (TaskTypeOK).                                                           *)
THEOREM TaskTypes == TaskSpec => []TaskTypeOK
<1>1. TaskInit => TaskTypeOK
  BY TaskAssumption
  DEF TaskInit, TaskTypeOK, NewRow, IdleWorker, Row, WorkerState, Outcomes, Timers
<1>2. TaskTypeOK /\ [TaskNext]_taskVars => TaskTypeOK'
  <2> SUFFICES ASSUME TaskTypeOK, [TaskNext]_taskVars PROVE TaskTypeOK'
    OBVIOUS
  <2>1. ASSUME NEW t \in Tasks, Submit(t) PROVE TaskTypeOK'
    <3> DEFINE row == [NewRow EXCEPT !.state = "pending"]
    <3>1. row \in Row /\ row.step = 1 /\ 1 <= LastStep[t]
      BY TaskAssumption DEF NewRow, Row, Timers, Live
    <3>2. created' \in [Tasks -> Nat] /\ UNCHANGED <<aged, worker>>
      BY <2>1, SubmittedRank DEF TaskTypeOK, Submit
    <3>3. task' = [task EXCEPT ![t] = row]
      BY <2>1 DEF Submit
    <3> QED
      BY <3>1, <3>2, <3>3 DEF TaskTypeOK
  <2>2. ASSUME NEW t \in Tasks, TimerPasses(t) PROVE TaskTypeOK'
    BY <2>2 DEF TaskTypeOK, TimerPasses, Row, Timers
  <2>3. ASSUME NEW t \in Tasks, Age(t) PROVE TaskTypeOK'
    BY <2>3 DEF TaskTypeOK, Age
  <2>4. ASSUME NEW w \in Workers, NEW t \in Tasks, FindNextAcquirable(w, t)
        PROVE  TaskTypeOK'
    <3> DEFINE copy == [worker[w] EXCEPT !.pc = "claiming", !.task = t]
    <3>1. copy \in WorkerState
      BY DEF TaskTypeOK, WorkerState
    <3>2. worker' = [worker EXCEPT ![w] = copy] /\ UNCHANGED <<task, created, aged>>
      BY <2>4 DEF FindNextAcquirable, TaskTypeOK
    <3> QED
      BY <3>1, <3>2 DEF TaskTypeOK
  <2>5. ASSUME NEW w \in Workers, SetAcquired(w) PROVE TaskTypeOK'
    <3> DEFINE t == worker[w].task
    <3>1. t \in Tasks /\ task[t] \in Row
      BY DEF TaskTypeOK, WorkerState
    <3>2. TryAcquire(task[t]) \in Row /\ TryAcquire(task[t]).step = task[t].step
      BY <3>1, TryAcquireType
    <3>3. task[t].step \in Nat \ {0}
      BY <3>1 DEF Row
    <3> HIDE DEF t
    <3>4. task' \in [Tasks -> Row] /\ \A u \in Tasks : task'[u].step <= LastStep[u]
      BY <2>5, <3>1, <3>2 DEF SetAcquired, TaskTypeOK, t
    <3>5. worker' \in [Workers -> WorkerState]
      <4> DEFINE copy == [worker[w] EXCEPT
                             !.pc = IF task[t].state \in Live THEN "claimed" ELSE "idle",
                             !.step = task[t].step]
      <4>1. copy \in WorkerState
        BY <3>3 DEF TaskTypeOK, WorkerState
      <4>2. worker' = [worker EXCEPT ![w] = copy]
        BY <2>5 DEF SetAcquired, TaskTypeOK, t
      <4> QED
        BY <4>1, <4>2 DEF TaskTypeOK
    <3> QED
      BY <2>5, <3>1, <3>4, <3>5 DEF SetAcquired, TaskTypeOK, t
  <2>6. ASSUME NEW w \in Workers, Load(w) \/ LoadFails(w) \/ Crash(w)
        PROVE  TaskTypeOK'
    <3>1. PICK pc \in {"idle", "loaded"} :
             worker' = [worker EXCEPT ![w] = [worker[w] EXCEPT !.pc = pc]]
      BY <2>6 DEF Load, LoadFails, Crash, TaskTypeOK
    <3>2. [worker[w] EXCEPT !.pc = pc] \in WorkerState
      BY DEF TaskTypeOK, WorkerState
    <3> QED
      BY <2>6, <3>1, <3>2 DEF TaskTypeOK, Load, LoadFails, Crash
  <2>7. ASSUME NEW w \in Workers, NEW o \in Outcomes, RunStep(w, o)
        PROVE  TaskTypeOK'
    <3> DEFINE copy == [worker[w] EXCEPT !.pc = "ran", !.outcome = o]
    <3>1. copy \in WorkerState
      BY DEF TaskTypeOK, WorkerState
    <3>2. worker' = [worker EXCEPT ![w] = copy] /\ UNCHANGED <<task, created, aged>>
      BY <2>7 DEF RunStep, TaskTypeOK
    <3> QED
      BY <3>1, <3>2 DEF TaskTypeOK
  <2>8. ASSUME NEW w \in Workers, ApplyOutcome(w) PROVE TaskTypeOK'
    <3>1. /\ worker[w].task \in Tasks /\ worker[w].step \in Nat \ {0}
          /\ task[worker[w].task] \in Row
          /\ task[worker[w].task].step <= LastStep[worker[w].task]
      BY DEF TaskTypeOK, WorkerState
    <3>2. ASSUME NEW row \in Row, row.step <= LastStep[worker[w].task], Writes(w, row)
          PROVE  TaskTypeOK'
      BY <3>1, <3>2 DEF TaskTypeOK, Writes, WorkerState
    <3>3. ASSUME AdvanceStep(w) PROVE TaskTypeOK'
      <4> DEFINE row == [task[worker[w].task] EXCEPT !.step = worker[w].step + 1,
                                                     !.timer = "null"]
      <4>1. worker[w].step + 1 \in Nat \ {0}
        BY <3>1
      <4>2. row \in Row /\ row.step = worker[w].step + 1
        BY <3>1, <4>1 DEF Row, Timers
      <4>3. row.step <= LastStep[worker[w].task] /\ Writes(w, row)
        BY <3>1, <3>3, <4>2, TaskAssumption DEF AdvanceStep
      <4> QED
        BY <3>2, <4>2, <4>3
    <3>4. ASSUME NEW s \in Terminal, SetTerminalState(w, s) PROVE TaskTypeOK'
      <4> DEFINE row == [task[worker[w].task] EXCEPT !.state = s, !.timer = "null"]
      <4>1. row \in Row /\ row.step <= LastStep[worker[w].task]
        BY <3>1 DEF Row, Timers
      <4> QED
        BY <3>2, <3>4, <4>1 DEF SetTerminalState
    <3>5. ASSUME ScheduleRetry(w) PROVE TaskTypeOK'
      <4> DEFINE row == [task[worker[w].task] EXCEPT !.timer = "future"]
      <4>1. row \in Row /\ row.step <= LastStep[worker[w].task]
        BY <3>1 DEF Row, Timers
      <4> QED
        BY <3>2, <3>5, <4>1 DEF ScheduleRetry
    <3> QED
      BY <2>8, <3>3, <3>4, <3>5 DEF ApplyOutcome, TryComplete, TryFail, Terminal
  <2>9. CASE UNCHANGED taskVars
    BY <2>9 DEF TaskTypeOK, taskVars
  <2> QED
    BY <2>1, <2>2, <2>3, <2>4, <2>5, <2>6, <2>7, <2>8, <2>9 DEF TaskNext, Claim
<1> QED
  BY <1>1, <1>2, PTL DEF TaskSpec

(***************************************************************************)
(* One dispatch loop.  CopyAgreesWithRow is not inductive alone: the claim *)
(* copies a row, and what makes that row live is ClaimedIsLive.            *)
(***************************************************************************)
QueueInv == ClaimedIsLive /\ CopyAgreesWithRow /\ AbsentIsNew

(* The inductive invariant of the queue with one dispatch loop.            *)
LEMMA QueueInvHolds == ASSUME OneWorker PROVE TaskSpec => []QueueInv
<1>1. TaskInit => QueueInv
  BY DEF TaskInit, QueueInv, ClaimedIsLive, CopyAgreesWithRow, AbsentIsNew,
         IdleWorker, NewRow, Busy
<1>2. QueueInv /\ TaskTypeOK /\ [TaskNext]_taskVars => QueueInv'
  <2> SUFFICES ASSUME QueueInv, TaskTypeOK, [TaskNext]_taskVars PROVE QueueInv'
    OBVIOUS
  <2> USE DEF QueueInv, ClaimedIsLive, CopyAgreesWithRow, AbsentIsNew, Busy
  <2>1. ASSUME NEW t \in Tasks, Submit(t) PROVE QueueInv'
    BY <2>1 DEF Submit, TaskTypeOK, NewRow, Live
  <2>2. ASSUME NEW t \in Tasks, TimerPasses(t) PROVE QueueInv'
    BY <2>2 DEF TimerPasses, TaskTypeOK, Row
  <2>3. ASSUME NEW t \in Tasks, Age(t) PROVE QueueInv'
    BY <2>3 DEF Age
  <2>4. ASSUME NEW w \in Workers, NEW t \in Tasks, FindNextAcquirable(w, t)
        PROVE  QueueInv'
    BY <2>4 DEF FindNextAcquirable, Acquirable, TaskTypeOK, WorkerState
  <2>5. ASSUME NEW w \in Workers, SetAcquired(w) PROVE QueueInv'
    <3> DEFINE t == worker[w].task
    <3>1. t \in Tasks /\ task[t] \in Row /\ task[t].state \in Live
      BY <2>5 DEF SetAcquired, TaskTypeOK, WorkerState
    <3>2. /\ TryAcquire(task[t]).state = "in_progress"
          /\ TryAcquire(task[t]).step = task[t].step
      BY <3>1 DEF TryAcquire, Row
    <3>3. /\ worker'[w].pc = "claimed" /\ worker'[w].task = t
          /\ worker'[w].step = task[t].step
          /\ task' = [task EXCEPT ![t] = TryAcquire(task[t])]
      BY <2>5, <3>1 DEF SetAcquired, TaskTypeOK, WorkerState
    <3> QED
      BY <3>1, <3>2, <3>3, OneWorker DEF OneWorker, TaskTypeOK
  <2>6. ASSUME NEW w \in Workers, Load(w) \/ LoadFails(w) \/ Crash(w)
        PROVE  QueueInv'
    BY <2>6 DEF Load, LoadFails, Crash, TaskTypeOK, WorkerState
  <2>7. ASSUME NEW w \in Workers, NEW o \in Outcomes, RunStep(w, o)
        PROVE  QueueInv'
    BY <2>7 DEF RunStep, TaskTypeOK, WorkerState
  <2>8. ASSUME NEW w \in Workers, ApplyOutcome(w) PROVE QueueInv'
    <3>1. ASSUME NEW row, Writes(w, row), row.state # "absent" PROVE QueueInv'
      BY <3>1, OneWorker DEF Writes, TaskTypeOK, WorkerState, OneWorker
    <3>2. worker[w].pc = "ran" /\ task[worker[w].task] \in Row
      BY <2>8 DEF ApplyOutcome, AdvanceStep, TryComplete, ScheduleRetry, TryFail,
          SetTerminalState, Writes, TaskTypeOK, WorkerState
    <3> QED
      BY <2>8, <3>1, <3>2
      DEF ApplyOutcome, AdvanceStep, TryComplete, ScheduleRetry, TryFail,
          SetTerminalState, Row
  <2>9. CASE UNCHANGED taskVars
    BY <2>9 DEF taskVars
  <2> QED
    BY <2>1, <2>2, <2>3, <2>4, <2>5, <2>6, <2>7, <2>8, <2>9 DEF TaskNext, Claim
<1> QED
  BY <1>1, <1>2, TaskTypes, PTL DEF TaskSpec

(* With one dispatch loop the copy a step runs on is the row it is written *)
(* back to, whatever crashes, retries and time-outs happen in between      *)
(* (worker/outcome.rs writes without looking at the row).                  *)
THEOREM CopyIsCurrent == ASSUME OneWorker PROVE TaskSpec => []CopyAgreesWithRow
  BY QueueInvHolds, PTL DEF QueueInv

(* With one dispatch loop the rows implement the lifecycle a poller of     *)
(* GET /tasks/{id} relies on.                                              *)
THEOREM QueueImplementsLifecycle ==
    ASSUME OneWorker PROVE TaskSpec => ImplementsLifecycle
<1>1. TaskInit => Lifecycle!Init
  BY DEF TaskInit, Lifecycle!Init, NewRow
<1>2. QueueInv /\ TaskTypeOK /\ [TaskNext]_taskVars
         => [Lifecycle!Next]_(Lifecycle!vars)
  <2> SUFFICES ASSUME QueueInv, TaskTypeOK, [TaskNext]_taskVars
               PROVE  Lifecycle!Next \/ UNCHANGED Lifecycle!vars
    OBVIOUS
  <2>0. ASSUME task' = task PROVE UNCHANGED Lifecycle!vars
    BY <2>0 DEF Lifecycle!vars
  <2>1. ASSUME NEW t \in Tasks, Submit(t) PROVE Lifecycle!Create(t)
    BY <2>1 DEF Submit, TaskTypeOK, QueueInv, AbsentIsNew, NewRow,
                Lifecycle!Create, Lifecycle!Moves
  <2>2. ASSUME NEW t \in Tasks, TimerPasses(t) PROVE UNCHANGED Lifecycle!vars
    BY <2>2 DEF TimerPasses, TaskTypeOK, Row, Lifecycle!vars
  <2>3. ASSUME NEW w \in Workers, SetAcquired(w)
        PROVE  Lifecycle!Next \/ UNCHANGED Lifecycle!vars
    <3> DEFINE t == worker[w].task
    <3>1. t \in Tasks /\ task[t] \in Row /\ task[t].state \in Live
      BY <2>3 DEF TaskTypeOK, WorkerState, QueueInv, ClaimedIsLive, SetAcquired
    <3>2. /\ TryAcquire(task[t]).state = "in_progress"
          /\ TryAcquire(task[t]).step = task[t].step
      BY <3>1 DEF TryAcquire, Row
    <3>3. task' = [task EXCEPT ![t] = TryAcquire(task[t])]
      BY <2>3 DEF SetAcquired
    <3>4. CASE task[t].state = "pending"
      BY <3>1, <3>2, <3>3, <3>4
      DEF TaskTypeOK, Lifecycle!Next, Lifecycle!Start, Lifecycle!Moves
    <3>5. CASE task[t].state = "in_progress"
      BY <3>1, <3>2, <3>3, <3>5 DEF TaskTypeOK, Lifecycle!vars
    <3> QED
      BY <3>1, <3>4, <3>5 DEF Live
  <2>4. ASSUME NEW w \in Workers, ApplyOutcome(w)
        PROVE  Lifecycle!Next \/ UNCHANGED Lifecycle!vars
    <3> DEFINE t == worker[w].task
    <3>1. worker[w].pc = "ran" /\ t \in Tasks /\ task[t] \in Row
      BY <2>4 DEF ApplyOutcome, AdvanceStep, TryComplete, ScheduleRetry, TryFail,
          SetTerminalState, Writes, TaskTypeOK, WorkerState
    <3>2. task[t].state = "in_progress" /\ task[t].step = worker[w].step
      BY <3>1 DEF QueueInv, CopyAgreesWithRow, Busy
    <3>3. CASE AdvanceStep(w)
      BY <3>1, <3>2, <3>3
      DEF AdvanceStep, Writes, TaskTypeOK, Row, Lifecycle!Next, Lifecycle!Advance
    <3>4. CASE TryComplete(w)
      BY <3>1, <3>2, <3>4
      DEF TryComplete, SetTerminalState, Writes, TaskTypeOK, Row,
          Lifecycle!Next, Lifecycle!Complete, Lifecycle!Moves
    <3>5. CASE ScheduleRetry(w)
      BY <3>1, <3>2, <3>5
      DEF ScheduleRetry, Writes, TaskTypeOK, Row, Lifecycle!vars
    <3>6. CASE TryFail(w)
      BY <3>1, <3>2, <3>6
      DEF TryFail, SetTerminalState, Writes, TaskTypeOK, Row,
          Lifecycle!Next, Lifecycle!Fail, Lifecycle!Moves
    <3> QED
      BY <2>4, <3>3, <3>4, <3>5, <3>6 DEF ApplyOutcome
  <2> QED
    BY <2>0, <2>1, <2>2, <2>3, <2>4
    DEF TaskNext, Claim, Age, FindNextAcquirable, Load, LoadFails, Crash,
        RunStep, taskVars, Lifecycle!Next
<1> QED
  BY <1>1, <1>2, TaskTypes, QueueInvHolds, PTL
  DEF TaskSpec, ImplementsLifecycle, Lifecycle!Spec

(* What the steps of a polled task say: one that has not started is at its *)
(* first step, and a completed one got past every step of its saga.        *)
StepsAccountedFor ==
    \A t \in Tasks :
        /\ task[t].state \in {"absent", "pending"} => task[t].step = 1
        /\ task[t].state = "completed" => task[t].step = LastStep[t]

(* A task that has ended is not touched again, and a poller sees a task    *)
(* move on by one step at a time, never back.                              *)
PolledInOrder ==
    \A t \in Tasks :
        /\ task[t].state \in {"completed", "failed"} =>
              task'[t].state = task[t].state /\ task'[t].step = task[t].step
        /\ task'[t].step \in {task[t].step, task[t].step + 1}

(* One step of the lifecycle, read as one of the rows.                     *)
LEMMA LifecycleStep ==
    ASSUME [Lifecycle!Next]_(Lifecycle!vars)
    PROVE  PolledInOrder /\ (StepsAccountedFor => StepsAccountedFor')
<1> DEFINE Same(u) == task'[u].state = task[u].state /\ task'[u].step = task[u].step
<1>1. CASE UNCHANGED Lifecycle!vars
  <2>1. \A u \in Tasks : Same(u)
    <3>1. /\ [u \in Tasks |-> task'[u].state] = [u \in Tasks |-> task[u].state]
          /\ [u \in Tasks |-> task'[u].step] = [u \in Tasks |-> task[u].step]
      BY <1>1 DEF Lifecycle!vars
    <3> SUFFICES ASSUME NEW u \in Tasks PROVE Same(u)
      OBVIOUS
    <3>2. /\ [v \in Tasks |-> task'[v].state][u] = [v \in Tasks |-> task[v].state][u]
          /\ [v \in Tasks |-> task'[v].step][u] = [v \in Tasks |-> task[v].step][u]
      BY <3>1
    <3> QED
      BY <3>2
  <2> QED
    BY <2>1 DEF PolledInOrder, StepsAccountedFor
<1>2. CASE Lifecycle!Next
  <2>1. PICK t \in Tasks : \/ Lifecycle!Create(t) \/ Lifecycle!Start(t) \/ Lifecycle!Advance(t)
                           \/ Lifecycle!Complete(t) \/ Lifecycle!Fail(t)
    BY <1>2 DEF Lifecycle!Next
  <2>2. \A u \in Tasks : u # t => Same(u)
    BY <2>1 DEF Lifecycle!Create, Lifecycle!Start, Lifecycle!Advance, Lifecycle!Complete,
                Lifecycle!Fail, Lifecycle!Moves
  <2>3. \/ task[t].state = "absent" /\ task'[t].state = "pending" /\ task'[t].step = task[t].step
        \/ task[t].state = "pending" /\ task'[t].state = "in_progress"
           /\ task'[t].step = task[t].step
        \/ task[t].state = "in_progress" /\ task'[t].state = "in_progress"
           /\ task'[t].step = task[t].step + 1
        \/ task[t].state = "in_progress" /\ task'[t].state = "completed"
           /\ task'[t].step = task[t].step /\ task[t].step = LastStep[t]
        \/ task[t].state = "in_progress" /\ task'[t].state = "failed"
           /\ task'[t].step = task[t].step
    BY <2>1 DEF Lifecycle!Create, Lifecycle!Start, Lifecycle!Advance, Lifecycle!Complete,
                Lifecycle!Fail, Lifecycle!Moves
  <2> QED
    BY <2>2, <2>3 DEF PolledInOrder, StepsAccountedFor
<1> QED
  BY <1>1, <1>2

(* What the refinement gives to who polls GET /tasks/{id}: completed means *)
(* that every step of the saga was recorded as done, one after the other,  *)
(* and an end is an end, across crashes, repeated steps and time-outs.     *)
THEOREM PollersCanRelyOnIt ==
    ASSUME OneWorker PROVE TaskSpec => []StepsAccountedFor /\ [][PolledInOrder]_taskVars
<1>1. TaskInit => StepsAccountedFor
  BY DEF TaskInit, NewRow, StepsAccountedFor
<1>2. [Lifecycle!Next]_(Lifecycle!vars) =>
         PolledInOrder /\ (StepsAccountedFor => StepsAccountedFor')
  BY LifecycleStep
<1> QED
  BY <1>1, <1>2, QueueImplementsLifecycle, PTL
  DEF TaskSpec, ImplementsLifecycle, Lifecycle!Spec
=============================================================================
