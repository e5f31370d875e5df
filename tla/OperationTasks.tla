--------------------------- MODULE OperationTasks ---------------------------
(***************************************************************************)
(* The operation-task queue of the management process: the rows of         *)
(* operation_tasks, the dispatch loop of worker/runner.rs that claims one  *)
(* of them at a time, and the way worker/outcome.rs writes the outcome of  *)
(* a step back to the row.                                                 *)
(*                                                                         *)
(* What a step does to the outside world is the business of the saga       *)
(* modules (CreateIssuerSaga, KeySagas), which extend this one.  Here a    *)
(* step only yields an outcome: done, retry or terminal.                   *)
(*                                                                         *)
(* Every database transaction is one action, except the claim, whose row   *)
(* lock is visible to the other workers through SKIP LOCKED.  Wall-clock   *)
(* time is reduced to what the code compares it with: whether a retry      *)
(* timer has run out and whether a task is 24 hours old.  The attempts     *)
(* counter only sets how far in the future a timer is, and is left out.    *)
(***************************************************************************)
EXTENDS Naturals, FiniteSets

CONSTANTS
    Tasks,        \* ids of the tasks that may be submitted
    Workers,      \* dispatch loops (the code starts one per process)
    LastStep      \* LastStep[t]: number of steps of t's saga

ASSUME TaskAssumption ==
    /\ IsFiniteSet(Tasks) /\ Tasks # {}
    /\ LastStep \in [Tasks -> Nat \ {0}]

VARIABLES
    task,     \* the rows: [Tasks -> Row]
    created,  \* created_at as a rank; 0 while not submitted
    aged,     \* tasks older than MAX_TASK_AGE_HOURS
    worker    \* what each dispatch loop is doing

taskVars == <<task, created, aged, worker>>

-----------------------------------------------------------------------------

Live     == {"pending", "in_progress"}
Terminal == {"completed", "failed"}
Outcomes == {"done", "retry", "terminal"}

(* next_attempt_at: NULL, in the future, or already passed.                *)
Timers == {"null", "future", "passed"}

Row == [state : {"absent"} \union Live \union Terminal,
        step  : Nat \ {0},
        timer : Timers]

(* The dispatch loop holds its own copy of the row it claimed: the step it *)
(* runs comes from that copy, not from the row.                            *)
WorkerState ==
    [pc : {"idle", "claiming", "claimed", "loaded", "ran"},
     task : Tasks, step : Nat \ {0}, outcome : Outcomes]

(* The types, and a row never points past the last step of its saga, which *)
(* the worker would refuse for ever as unknown.                            *)
TaskTypeOK ==
    /\ task \in [Tasks -> Row]
    /\ \A t \in Tasks : task[t].step <= LastStep[t]
    /\ created \in [Tasks -> Nat]
    /\ aged \subseteq Tasks
    /\ worker \in [Workers -> WorkerState]

NewRow == [state |-> "absent", step |-> 1, timer |-> "null"]

IdleWorker == [pc |-> "idle", task |-> CHOOSE t \in Tasks : TRUE, step |-> 1,
               outcome |-> "done"]

TaskInit ==
    /\ task = [t \in Tasks |-> NewRow]
    /\ created = [t \in Tasks |-> 0]
    /\ aged = {}
    /\ worker = [w \in Workers |-> IdleWorker]

-----------------------------------------------------------------------------

Submitted == {t \in Tasks : task[t].state # "absent"}

(* A management request inserts a pending row.                             *)
Submit(t) ==
    /\ task[t].state = "absent"
    /\ task' = [task EXCEPT ![t] = [NewRow EXCEPT !.state = "pending"]]
    /\ created' = [created EXCEPT ![t] = Cardinality(Submitted) + 1]
    /\ UNCHANGED <<aged, worker>>

-----------------------------------------------------------------------------
(* Claiming a row.                                                         *)

(* Mutant: the query leaves out in_progress, so a crash orphans the row.   *)
AcquirablePendingOnly(t) == task[t].state = "pending" /\ task[t].timer # "future"

Acquirable(t) == task[t].state \in Live /\ task[t].timer # "future"

LockedByOther(w, t) ==
    \E v \in Workers \ {w} : worker[v].pc = "claiming" /\ worker[v].task = t

(* ORDER BY next_attempt_at NULLS FIRST, created_at.  Two timers that have *)
(* passed are left unordered: which passed first is not recorded here.     *)
OrderedBefore(t, u) ==
    /\ task[t].timer = "null"
    /\ \/ task[u].timer # "null"
       \/ created[t] < created[u]

(* SELECT ... LIMIT 1 FOR UPDATE SKIP LOCKED inside the claim transaction. *)
FindNextAcquirable(w, t) ==
    LET Candidates == {u \in Tasks : Acquirable(u) /\ ~LockedByOther(w, u)}
    IN  /\ worker[w].pc = "idle"
        /\ t \in Candidates
        /\ \A u \in Candidates : ~OrderedBefore(u, t)
        /\ worker' = [worker EXCEPT ![w].pc = "claiming", ![w].task = t]
        /\ UNCHANGED <<task, created, aged>>

(* Mutant: the claim does not move the row to in_progress.                 *)
TryAcquireKeepsState(row) == row

(* Mutant: a row found in_progress is taken back to the start of its saga. *)
TryAcquireRestarts(row) ==
    IF row.state = "in_progress" THEN [row EXCEPT !.step = 1]
                                 ELSE [row EXCEPT !.state = "in_progress"]

(* try_acquire: a pending or in_progress row becomes in_progress, a        *)
(* terminal one is refused (StateTransitionNotAllowed).                    *)
TryAcquire(row) ==
    IF row.state \in Live THEN [row EXCEPT !.state = "in_progress"] ELSE row

(* set_acquired and COMMIT: the row lock goes away here, not at the end of *)
(* the step, and next_attempt_at is left as it was.  A refused row is      *)
(* rolled back and the loop goes on.                                       *)
SetAcquired(w) ==
    LET t == worker[w].task IN
    /\ worker[w].pc = "claiming"
    /\ task' = [task EXCEPT ![t] = TryAcquire(task[t])]
    /\ worker' = [worker EXCEPT
                     ![w].pc = IF task[t].state \in Live THEN "claimed" ELSE "idle",
                     ![w].step = task[t].step]
    /\ UNCHANGED <<created, aged>>

-----------------------------------------------------------------------------
(* Running the step of the claimed copy.                                   *)

(* execute_task decodes the input and the state data and loads the tenant  *)
(* and the issuer.                                                         *)
Load(w) ==
    /\ worker[w].pc = "claimed"
    /\ worker' = [worker EXCEPT ![w].pc = "loaded"]
    /\ UNCHANGED <<task, created, aged>>

(* A WorkerError (the row does not decode, an unknown step, a failed       *)
(* query) is logged and the loop goes on; the row is not touched, so a row *)
(* that never decodes is claimed for ever.                                 *)
LoadFails(w) ==
    /\ worker[w].pc = "claimed"
    /\ worker' = [worker EXCEPT ![w].pc = "idle"]
    /\ UNCHANGED <<task, created, aged>>

(* The step function returns.                                              *)
RunStep(w, outcome) ==
    /\ worker[w].pc = "loaded"
    /\ worker' = [worker EXCEPT ![w].pc = "ran", ![w].outcome = outcome]
    /\ UNCHANGED <<task, created, aged>>

(* The process dies, or the write of the outcome fails: either way the row *)
(* keeps what the claim wrote and is claimable at once.                    *)
Crash(w) ==
    /\ worker[w].pc \in {"claiming", "claimed", "loaded", "ran"}
    /\ worker' = [worker EXCEPT ![w].pc = "idle"]
    /\ UNCHANGED <<task, created, aged>>

-----------------------------------------------------------------------------
(* Writing the outcome back.  None of the UPDATEs looks at the row's       *)
(* current state: try_complete and try_fail only check the worker's copy.  *)

Writes(w, row) ==
    /\ worker[w].pc = "ran"
    /\ ~LockedByOther(w, worker[w].task)
    /\ task' = [task EXCEPT ![worker[w].task] = row]
    /\ worker' = [worker EXCEPT ![w].pc = "idle"]
    /\ UNCHANGED <<created, aged>>

SetTerminalState(w, state) ==
    Writes(w, [task[worker[w].task] EXCEPT !.state = state, !.timer = "null"])

(* Mutant: the last step is followed by one more.                          *)
AdvanceStepPastTheEnd(w) ==
    /\ worker[w].outcome = "done"
    /\ Writes(w, [task[worker[w].task] EXCEPT !.step = worker[w].step + 1,
                                              !.timer = "null"])

AdvanceStep(w) ==
    /\ worker[w].outcome = "done"
    /\ worker[w].step < LastStep[worker[w].task]
    /\ Writes(w, [task[worker[w].task] EXCEPT !.step = worker[w].step + 1,
                                              !.timer = "null"])

TryComplete(w) ==
    /\ worker[w].outcome = "done"
    /\ worker[w].step = LastStep[worker[w].task]
    /\ SetTerminalState(w, "completed")

ScheduleRetry(w) ==
    /\ worker[w].outcome = "retry"
    /\ worker[w].task \notin aged
    /\ Writes(w, [task[worker[w].task] EXCEPT !.timer = "future"])

TryFail(w) ==
    /\ \/ worker[w].outcome = "terminal"
       \/ worker[w].outcome = "retry" /\ worker[w].task \in aged
    /\ SetTerminalState(w, "failed")

ApplyOutcome(w) ==
    AdvanceStep(w) \/ TryComplete(w) \/ ScheduleRetry(w) \/ TryFail(w)

-----------------------------------------------------------------------------
(* The clock.                                                              *)

TimerPasses(t) ==
    /\ task[t].timer = "future"
    /\ task' = [task EXCEPT ![t].timer = "passed"]
    /\ UNCHANGED <<created, aged, worker>>

Age(t) ==
    /\ task[t].state \in Live
    /\ t \notin aged
    /\ aged' = aged \union {t}
    /\ UNCHANGED <<task, created, worker>>

-----------------------------------------------------------------------------

Claim(w) == SetAcquired(w) \/ \E t \in Tasks : FindNextAcquirable(w, t)

TaskNext ==
    \/ \E t \in Tasks : Submit(t) \/ TimerPasses(t) \/ Age(t)
    \/ \E w \in Workers :
          \/ Claim(w) \/ Load(w) \/ LoadFails(w) \/ Crash(w) \/ ApplyOutcome(w)
          \/ \E o \in Outcomes : RunStep(w, o)

TaskSpec == TaskInit /\ [][TaskNext]_taskVars

(* The loop keeps polling and time passes.  The worker is restarted after  *)
(* a crash and does not crash at the same place for ever, so what a loop   *)
(* is about to do over and over it does in the end: strong fairness.  For  *)
(* Load this says that every row decodes.                                  *)
TaskFairness ==
    /\ \A w \in Workers :
          /\ WF_taskVars(\E t \in Tasks : FindNextAcquirable(w, t))
          /\ SF_taskVars(SetAcquired(w))
          /\ SF_taskVars(Load(w))
          /\ SF_taskVars(\E o \in Outcomes : RunStep(w, o))
          /\ SF_taskVars(ApplyOutcome(w))
    /\ \A t \in Tasks : WF_taskVars(TimerPasses(t)) /\ WF_taskVars(Age(t))

TaskFairSpec == TaskSpec /\ TaskFairness

-----------------------------------------------------------------------------
(* Properties.                                                             *)

Busy == {"claimed", "loaded", "ran"}

(* While a worker executes a task, the copy it decides from is the row:    *)
(* the task is in progress and still at the step being run.  The UPDATEs   *)
(* of outcome.rs are unconditional, so everything a poller sees rests on   *)
(* this.  True of one dispatch loop, whatever crashes in between.          *)
CopyAgreesWithRow ==
    \A w \in Workers : worker[w].pc \in Busy =>
        /\ task[worker[w].task].state = "in_progress"
        /\ task[worker[w].task].step = worker[w].step

(* What is true of the rows while a claim is under way: together with the  *)
(* types and the two facts above it is preserved by every step of one      *)
(* dispatch loop.                                                          *)
ClaimedIsLive ==
    \A w \in Workers : worker[w].pc = "claiming" => task[worker[w].task].state \in Live

AbsentIsNew == \A t \in Tasks : task[t].state = "absent" => task[t].step = 1

OneWorker == \A v, w \in Workers : v = w

Lifecycle == INSTANCE TaskLifecycle
    WITH state <- [t \in Tasks |-> task[t].state],
         step <- [t \in Tasks |-> task[t].step]

(* The queue implements the lifecycle a poller relies on: no step is       *)
(* skipped or run again after it was recorded as done, and a terminal      *)
(* state is never left.                                                    *)
ImplementsLifecycle == Lifecycle!Spec

(* Every submitted task is settled in the end: the retry loop is bounded   *)
(* by MAX_TASK_AGE_HOURS and a task that sleeps on a timer or whose worker *)
(* crashed is picked up again, behind however many others.                 *)
EventuallySettled ==
    \A t \in Tasks : task[t].state = "pending" ~> task[t].state \in Terminal
=============================================================================
