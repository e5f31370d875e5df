--------------------------- MODULE KeySagas_proofs ---------------------------
(***************************************************************************)
(* Proofs about the rotate_keys and deactivate_issuer sagas, for any set   *)
(* of tasks, any choice of rotated roles and any bounds, with one dispatch *)
(* loop.                                                                   *)
(***************************************************************************)
EXTENDS KeySagas, OperationTasks_proofs

(***************************************************************************)
(* The sagas run on the queue: every step of KeySpec is a step of the      *)
(* queue or leaves it alone, so that what is proved of TaskSpec holds.     *)
(***************************************************************************)
(* Whatever a step of a saga does, to the queue it is a step that ran and  *)
(* yields one of the three outcomes.                                       *)
LEMMA SagaStepRuns ==
    ASSUME NEW w \in Workers, RunSagaStep(w)
    PROVE  \E o \in Outcomes : RunStep(w, o)
  BY DEF RunSagaStep, GenerateNewKeys, BuildRotationDidlog, PublishRotation, SwapKeys,
         BuildDeactivationDidlog, PublishDeactivation, MarkDeactivated, StepFails, PutEntry,
         Ends, Returns, Outcomes

(* Every step of the sagas is a step of the queue or leaves it alone.      *)
LEMMA KeyStepIsTaskStep == [KeyNext]_keyVars => [TaskNext]_taskVars
<1> SUFFICES ASSUME [KeyNext]_keyVars PROVE [TaskNext]_taskVars
  OBVIOUS
<1>1. ASSUME NEW t \in Tasks, SubmitCheck(t) PROVE UNCHANGED taskVars
  BY <1>1 DEF SubmitCheck, taskVars
<1>2. ASSUME NEW t \in Tasks, SubmitInsert(t) PROVE Submit(t)
  BY <1>2 DEF SubmitInsert
<1>3. ASSUME NEW w \in Workers, ApplySagaOutcome(w) PROVE ApplyOutcome(w)
  BY <1>3 DEF ApplySagaOutcome, ApplyOutcome
<1>4. ASSUME NEW w \in Workers, CrashInSaga(w) PROVE Crash(w)
  BY <1>4 DEF CrashInSaga
<1>5. CASE UNCHANGED keyVars
  BY <1>5 DEF keyVars
<1> QED
  BY <1>1, <1>2, <1>3, <1>4, <1>5, SagaStepRuns DEF KeyNext, TaskNext

(* The key sagas run on the queue, so that what is proved of TaskSpec is   *)
(* true of them: the types of the rows, CopyAgreesWithRow, the lifecycle.  *)
THEOREM KeySagasRunOnTheQueue == KeySpec => TaskSpec
<1>1. KeyInit => TaskInit
  BY DEF KeyInit
<1> QED
  BY <1>1, KeyStepIsTaskStep, PTL DEF KeySpec, TaskSpec

(***************************************************************************)
(* What holds of any mixture of tasks.                                     *)
(***************************************************************************)
PublishStep(t) == IF t \in Rotations THEN 3 ELSE 2

(* The key that signs from now on, or the end of the log, is public.       *)
Announced(t) ==
    IF t \in Rotations
    THEN \E i \in DOMAIN log : log[i].keys.authorized = sd[t].keys.authorized
    ELSE \E i \in DOMAIN log : log[i].kind = "deactivation"

(* A task is past its publish step only with something published, and no   *)
(* state data is ahead of its step.                                        *)
StepsOK ==
    \A t \in Tasks :
        /\ task[t].step > PublishStep(t) => Announced(t)
        /\ sd[t].published => task[t].step > PublishStep(t)

(* What a step that has run wants written: new keys after the first step   *)
(* of a rotation only, and a publication only if there was one.            *)
ResultsOK ==
    \A w \in Workers : worker[w].pc = "ran" =>
        LET t == worker[w].task
            d == result[w].data
            done == worker[w].outcome = "done"
        IN  /\ worker[w].step # 1 \/ t \notin Rotations => d.keys = sd[t].keys
            /\ done /\ worker[w].step = PublishStep(t) => Announced(t)
            /\ d.published => \/ sd[t].published
                              \/ done /\ worker[w].step = PublishStep(t)

(* An entry of the log carries the keys of the rotation it is by, and that *)
(* rotation is past the step that chose them.                              *)
EntriesOK ==
    /\ Len(log) >= 1
    /\ log[1].by = "create_issuer"
    /\ \A i \in DOMAIN log :
          /\ log[i].by = "create_issuer" => i = 1
          /\ log[i].by \in Rotations => /\ log[i].kind = "rotation"
                                        /\ log[i].keys = sd[log[i].by].keys
                                        /\ task[log[i].by].step >= 3
          /\ log[i].by \in Tasks \ Rotations => log[i].kind = "deactivation"

SignerIsPublished ==
    \E i \in DOMAIN log : log[i].keys.authorized = issuer.keys.authorized

LogInv ==
    /\ KeyTypeOK /\ StepsOK /\ ResultsOK /\ EntriesOK /\ SignerIsPublished
    /\ NoRepeatedTail /\ EntriesSignedByPublishedKey /\ DeactivatedMeansClosed

(***************************************************************************)
(* What a rotation that brings a new Authorized key rests on: until it is  *)
(* swapped in, nobody else has that key, although rotations may overlap.   *)
(***************************************************************************)
(* No key is beyond the number generated so far.                           *)
KeysAreMinted ==
    /\ issuer.keys.authorized <= minted
    /\ \A t \in Tasks : sd[t].keys.authorized <= minted
    /\ \A i \in DOMAIN log :
          log[i].kind # "deactivation" => log[i].keys.authorized <= minted

Unused(key) ==
    /\ issuer.keys.authorized # key
    /\ \A t \in Tasks : sd[t].keys.authorized # key
    /\ \A i \in DOMAIN log : log[i].kind # "deactivation" => log[i].keys.authorized # key

(* What generate_new_keys has returned and is not in the row yet.          *)
MintedIsFresh ==
    /\ \A t \in Rotations : task[t].step = 1 => sd[t].keys = NoKeys
    /\ \A w \in Workers :
          /\ worker[w].pc = "ran" /\ worker[w].outcome = "done"
          /\ worker[w].step = 1 /\ worker[w].task \in Rotations
          => LET key == result[w].data.keys.authorized IN
             /\ key <= minted
             /\ IF worker[w].task \in Rekeying THEN Unused(key)
                                               ELSE key = issuer.keys.authorized

(* An update key that makes publish_rotation skip the PUT is its own.      *)
KeyIsOwn ==
    \A t \in Rekeying : task[t].step \in {2, 3} =>
        /\ issuer.keys.authorized # sd[t].keys.authorized
        /\ \A u \in Tasks \ {t} : sd[u].keys.authorized # sd[t].keys.authorized
        /\ \A i \in DOMAIN log :
              /\ log[i].kind # "deactivation"
              /\ log[i].keys.authorized = sd[t].keys.authorized
              => log[i].by = t

HasEntry(t) == \E i \in DOMAIN log : log[i].by = t

RotationsPublish ==
    /\ \A t \in Rekeying : task[t].step > 3 => HasEntry(t)
    /\ \A w \in Workers :
          worker[w].pc = "ran" /\ worker[w].outcome = "done" =>
             /\ worker[w].task \in Rekeying /\ worker[w].step = 3 => HasEntry(worker[w].task)
             /\ worker[w].task \in Rotations /\ worker[w].step = 4 =>
                   issuer.keys = sd[worker[w].task].keys

(* Who had ended before a submission has ended for good.                   *)
SettledAreOver ==
    \A t, u \in Tasks : u \in settled[t] => task[u].state \in Terminal

InForceBy(t) == task[t].step > 1 /\ issuer.keys = sd[t].keys

RowIsInForce ==
    /\ \/ \E i \in DOMAIN log : log[i].keys = issuer.keys
       \/ \E t \in Rotations \ Rekeying : InForceBy(t)
    /\ \A t \in Rotations : task[t].state = "completed" =>
          task[t].step = 4 /\ \E u \in Rotations \ settled[t] : InForceBy(u)

OwnInv ==
    /\ KeysAreMinted /\ MintedIsFresh /\ KeyIsOwn
    /\ RotationsPublish /\ SettledAreOver /\ RowIsInForce

-----------------------------------------------------------------------------
(* Appending an entry leaves the others where they are.                    *)
LEMMA LogGrows ==
    ASSUME NEW L \in Seq(Entry), NEW e \in Entry
    PROVE  /\ Append(L, e) \in Seq(Entry)
           /\ Len(L) \in Nat /\ Len(Append(L, e)) = Len(L) + 1
           /\ DOMAIN L = 1 .. Len(L) /\ DOMAIN Append(L, e) = 1 .. Len(L) + 1
           /\ \A i \in 1 .. Len(L) : Append(L, e)[i] = L[i]
           /\ Append(L, e)[Len(L) + 1] = e
           /\ Last(Append(L, e)) = e
  BY DEF Last

(* What a step of a saga may do: the entry it may add, the change of the   *)
(* issuer row it may make, and what it returns for which reason.           *)
AddsEntry(w, e) ==
    LET t == worker[w].task IN
    /\ log' = Append(log, e) /\ Len(log) < MaxLog /\ e \in Entry
    /\ e.by = t /\ e.signer = issuer.keys.authorized
    /\ worker[w].step = PublishStep(t)
    /\ IF t \in Rotations
       THEN e.kind = "rotation" /\ e.keys = sd[t].keys /\ ~AlreadyRotated(w)
       ELSE e.kind = "deactivation" /\ ~AlreadyDeactivated

LogEffect(w) == log' = log \/ \E e : AddsEntry(w, e)

IssuerEffect(w) ==
    LET t == worker[w].task IN
    \/ UNCHANGED issuer
    \/ /\ t \in Rotations /\ worker[w].step = 4 /\ issuer.state = "active"
       /\ issuer' = [issuer EXCEPT !.keys = sd[t].keys]
    \/ /\ t \notin Rotations /\ worker[w].step = 3
       /\ issuer' = [issuer EXCEPT !.state = "deactivated"]

DoneOnlyIf(w) ==
    LET t == worker[w].task
        n == worker[w].step
    IN  /\ n = PublishStep(t) =>
              \/ sd[t].published
              \/ \E e : AddsEntry(w, e)
              \/ t \in Rotations /\ AlreadyRotated(w)
              \/ t \notin Rotations /\ AlreadyDeactivated
        /\ t \in Rotations /\ n = 1 =>
              \/ sd[t].keys # NoKeys
              \/ minted' = minted + 1 /\ UNCHANGED <<issuer, log>>
        /\ t \in Rotations /\ n = 4 => issuer'.keys = sd[t].keys

DataEffect(w, o, d) ==
    LET t == worker[w].task
        n == worker[w].step
    IN  /\ n # 1 \/ t \notin Rotations => d.keys = sd[t].keys
        /\ d.published => sd[t].published \/ (o = "done" /\ n = PublishStep(t))
        /\ minted' = minted + 1 =>
              d.keys.authorized = IF t \in Rekeying THEN minted + 1
                                                    ELSE issuer.keys.authorized

SagaEffect(w, o, code, d) ==
    /\ o \in Outcomes /\ code \in Codes /\ d \in Data
    /\ Returns(w, o, code, d)
    /\ LogEffect(w) /\ IssuerEffect(w)
    /\ minted' \in 1 .. MaxKeys /\ minted' \in {minted, minted + 1}
    /\ DataEffect(w, o, d)
    /\ o = "done" => DoneOnlyIf(w)

HasEffect(w) == \E o, code, d : SagaEffect(w, o, code, d)

(* The state data a step hands back is well formed.                        *)
LEMMA DataTypes ==
    ASSUME KeyTypeOK, NEW w \in Workers
    PROVE  /\ worker[w] \in WorkerState /\ worker[w].task \in Tasks
           /\ Mine(w) \in Data /\ Mine(w).keys \in Keys
           /\ Published(w) \in Data /\ Published(w).keys = Mine(w).keys
           /\ issuer.keys \in Keys /\ minted \in 1 .. MaxKeys
           /\ issuer.keys.authorized \in 0 .. MaxKeys /\ issuer.keys.other \in 0 .. MaxKeys
<1>1. worker[w] \in WorkerState /\ worker[w].task \in Tasks
  BY DEF KeyTypeOK, TaskTypeOK, WorkerState
<1>2. Mine(w) \in Data
  BY <1>1 DEF KeyTypeOK, Mine
<1>3. Published(w) \in Data /\ Published(w).keys = Mine(w).keys /\ Mine(w).keys \in Keys
  BY <1>2 DEF Published, Data
<1> QED
  BY <1>1, <1>2, <1>3 DEF KeyTypeOK, Keys

(* A step that changes nothing but its outcome.                            *)
LEMMA SimpleEnd ==
    ASSUME KeyTypeOK, NEW w \in Workers, NEW o \in Outcomes, NEW code \in Codes,
           Ends(w, o, code, Mine(w)), o = "done" => DoneOnlyIf(w)
    PROVE  HasEffect(w)
<1>1. SagaEffect(w, o, code, Mine(w))
  BY DataTypes DEF SagaEffect, Ends, LogEffect, IssuerEffect, DataEffect, Mine
<1> QED
  BY <1>1 DEF HasEffect

(* generate_new_keys mints keys and publishes nothing.                     *)
LEMMA GenerateNewKeysEffect ==
    ASSUME KeyTypeOK, NEW w \in Workers, GenerateNewKeys(w) PROVE HasEffect(w)
<1> DEFINE t == worker[w].task
           Key(role) == IF role \in Rotates[t] THEN minted + 1 ELSE issuer.keys[role]
           new == [authorized |-> Key("authorized"), other |-> Key("other")]
<1>1. worker[w].step = 1 /\ t \in Rotations
  BY DEF GenerateNewKeys, At
<1>2. CASE Mine(w).keys # NoKeys /\ Ends(w, "done", "none", Mine(w))
  <2>1. DoneOnlyIf(w)
    BY <1>1, <1>2 DEF DoneOnlyIf, PublishStep, Mine
  <2> QED
    BY <1>2, <2>1, SimpleEnd DEF Outcomes, Codes
<1>3. CASE /\ minted < MaxKeys /\ minted' = minted + 1
           /\ Returns(w, "done", "none", [Mine(w) EXCEPT !.keys = new])
           /\ UNCHANGED <<issuer, log>>
  <2>1. new \in Keys
    BY <1>3, DataTypes, KeyAssumption DEF Keys
  <2>2. new.authorized = IF t \in Rekeying THEN minted + 1 ELSE issuer.keys.authorized
    BY <1>1 DEF Rekeying
  <2> HIDE DEF new
  <2>3. /\ [Mine(w) EXCEPT !.keys = new] \in Data
        /\ [Mine(w) EXCEPT !.keys = new].published = Mine(w).published
        /\ [Mine(w) EXCEPT !.keys = new].keys = new
    BY <2>1, DataTypes DEF Data
  <2>4. minted' \in 1 .. MaxKeys /\ minted' = minted + 1
    BY <1>3, DataTypes, KeyAssumption
  <2>5. DoneOnlyIf(w)
    BY <1>1, <1>3 DEF DoneOnlyIf, PublishStep
  <2>6. DataEffect(w, "done", [Mine(w) EXCEPT !.keys = new])
    BY <1>1, <2>2, <2>3 DEF DataEffect, Mine
  <2>7. SagaEffect(w, "done", "none", [Mine(w) EXCEPT !.keys = new])
    BY <1>3, <2>3, <2>4, <2>5, <2>6
    DEF SagaEffect, LogEffect, IssuerEffect, Outcomes, Codes
  <2> QED
    BY <2>7 DEF HasEffect
<1> QED
  BY <1>2, <1>3 DEF GenerateNewKeys

(* The build steps only check.                                             *)
LEMMA BuildsEffect ==
    ASSUME KeyTypeOK, NEW w \in Workers,
           BuildRotationDidlog(w) \/ BuildDeactivationDidlog(w)
    PROVE  HasEffect(w)
<1>1. \/ worker[w].step = 2 /\ worker[w].task \in Rotations
      \/ worker[w].step = 1 /\ worker[w].task \notin Rotations
  BY DEF BuildRotationDidlog, BuildDeactivationDidlog, At
<1>2. PICK o \in Outcomes, code \in Codes : Ends(w, o, code, Mine(w))
  BY DEF BuildRotationDidlog, BuildDeactivationDidlog, Outcomes, Codes
<1>3. DoneOnlyIf(w)
  BY <1>1 DEF DoneOnlyIf, PublishStep
<1> QED
  BY <1>2, <1>3, SimpleEnd

(* A step that fails has no effect.                                        *)
LEMMA StepFailsEffect ==
    ASSUME KeyTypeOK, NEW w \in Workers, StepFails(w) PROVE HasEffect(w)
  BY SimpleEnd DEF StepFails, Outcomes, Codes

(* The publish steps append the entry of their task, or find the log as    *)
(* they want it.                                                           *)
LEMMA PublishesEffect ==
    ASSUME KeyTypeOK, EntriesOK, NEW w \in Workers,
           PublishRotation(w) \/ PublishDeactivation(w)
    PROVE  HasEffect(w)
<1> DEFINE t == worker[w].task
           Already == IF t \in Rotations THEN AlreadyRotated(w) ELSE AlreadyDeactivated
           e == IF t \in Rotations THEN RotationEntry(w) ELSE DeactivationEntry(w)
<1>1. /\ worker[w].step = PublishStep(t)
      /\ \/ Mine(w).published /\ Ends(w, "done", "none", Mine(w))
         \/ Ends(w, "terminal", "other", Mine(w))
         \/ Already /\ Ends(w, "done", "none", Published(w))
         \/ ~Already /\ PutEntry(w, e)
  BY DEF PublishRotation, PublishDeactivation, At, PublishStep
<1>2. t \in Tasks /\ Last(log) \in Entry
  BY DataTypes DEF KeyTypeOK, EntriesOK, Last
<1>3. /\ e \in Entry /\ e.by = t /\ e.signer = issuer.keys.authorized
      /\ t \in Rotations => e.kind = "rotation" /\ e.keys = sd[t].keys
      /\ t \notin Rotations => e.kind = "deactivation"
  BY <1>2, DataTypes DEF RotationEntry, DeactivationEntry, Signer, Mine, Entry
<1> HIDE DEF e
<1>4. ASSUME Mine(w).published \/ Already \/ \E x : AddsEntry(w, x) PROVE DoneOnlyIf(w)
  BY <1>1, <1>4 DEF DoneOnlyIf, PublishStep, Mine
<1>5. ASSUME ~Already, PutEntry(w, e) PROVE AddsEntry(w, e)
  BY <1>1, <1>3, <1>5 DEF AddsEntry, PutEntry
<1> HIDE DEF Already
<1>6. CASE Mine(w).published /\ Ends(w, "done", "none", Mine(w))
  BY <1>4, <1>6, SimpleEnd DEF Outcomes, Codes
<1>7. CASE Ends(w, "terminal", "other", Mine(w))
  BY <1>7, SimpleEnd DEF Outcomes, Codes
<1>8. CASE Already /\ Ends(w, "done", "none", Published(w))
  <2>1. SagaEffect(w, "done", "none", Published(w))
    BY <1>1, <1>4, <1>8, DataTypes
    DEF SagaEffect, Ends, LogEffect, IssuerEffect, DataEffect, Mine, Outcomes, Codes
  <2> QED
    BY <2>1 DEF HasEffect
<1>9. CASE ~Already /\ PutEntry(w, e)
  <2>1. AddsEntry(w, e) /\ UNCHANGED <<issuer, minted>>
    BY <1>5, <1>9 DEF PutEntry
  <2>2. DoneOnlyIf(w) /\ LogEffect(w)
    BY <1>4, <2>1 DEF LogEffect
  <2>3. CASE Returns(w, "done", "none", Published(w))
    <3>1. SagaEffect(w, "done", "none", Published(w))
      BY <1>1, <2>1, <2>2, <2>3, DataTypes
      DEF SagaEffect, IssuerEffect, DataEffect, Mine, Outcomes, Codes
    <3> QED
      BY <3>1 DEF HasEffect
  <2>4. CASE Returns(w, "retry", "other", Mine(w))
    <3>1. SagaEffect(w, "retry", "other", Mine(w))
      BY <2>1, <2>2, <2>4, DataTypes
      DEF SagaEffect, IssuerEffect, DataEffect, Mine, Outcomes, Codes
    <3> QED
      BY <3>1 DEF HasEffect
  <2> QED
    BY <1>9, <2>3, <2>4 DEF PutEntry
<1> QED
  BY <1>1, <1>6, <1>7, <1>8, <1>9

(* swap_keys and mark_deactivated write the issuer row and nothing else.   *)
LEMMA RowStepsEffect ==
    ASSUME KeyTypeOK, NEW w \in Workers, SwapKeys(w) \/ MarkDeactivated(w)
    PROVE  HasEffect(w)
<1>1. CASE Ends(w, "terminal", "other", Mine(w))
  BY <1>1, SimpleEnd DEF Outcomes, Codes
<1>2. CASE /\ IssuerEffect(w) /\ UNCHANGED <<log, minted>> /\ DoneOnlyIf(w)
           /\ \/ Returns(w, "done", "none", Mine(w))
              \/ Returns(w, "retry", "other", Mine(w))
  <2>1. \/ SagaEffect(w, "done", "none", Mine(w))
        \/ SagaEffect(w, "retry", "other", Mine(w))
    BY <1>2, DataTypes DEF SagaEffect, LogEffect, DataEffect, Mine, Outcomes, Codes
  <2> QED
    BY <2>1 DEF HasEffect
<1>3. CASE SwapKeys(w) /\ Swappable
  <2>1. /\ worker[w].task \in Rotations /\ worker[w].step = 4 /\ issuer.state = "active"
        /\ issuer' = [issuer EXCEPT !.keys = sd[worker[w].task].keys]
        /\ UNCHANGED <<log, minted>>
        /\ \/ Returns(w, "done", "none", Mine(w))
           \/ Returns(w, "retry", "other", Mine(w))
    BY <1>3 DEF SwapKeys, Swappable, At, Mine
  <2>2. issuer'.keys = sd[worker[w].task].keys
    BY <2>1 DEF KeyTypeOK
  <2> QED
    BY <1>2, <2>1, <2>2 DEF IssuerEffect, DoneOnlyIf, PublishStep
<1>4. CASE MarkDeactivated(w)
  BY <1>2, <1>4 DEF MarkDeactivated, At, IssuerEffect, DoneOnlyIf, PublishStep
<1> QED
  BY <1>1, <1>3, <1>4 DEF SwapKeys

(* Every step has one of the effects above.                                *)
LEMMA StepHasEffect ==
    ASSUME KeyTypeOK, EntriesOK, NEW w \in Workers, RunSagaStep(w) PROVE HasEffect(w)
  BY GenerateNewKeysEffect, BuildsEffect, StepFailsEffect, PublishesEffect, RowStepsEffect
  DEF RunSagaStep

-----------------------------------------------------------------------------
(* The worker after a step, and everything a step leaves alone.            *)
LEMMA AfterStep ==
    ASSUME KeyTypeOK, NEW w \in Workers, NEW o \in Outcomes, NEW code \in Codes, NEW d \in Data,
           Returns(w, o, code, d)
    PROVE  /\ worker[w].pc = "loaded"
           /\ worker'[w].pc = "ran" /\ worker'[w].outcome = o
           /\ worker'[w].task = worker[w].task /\ worker'[w].step = worker[w].step
           /\ \A v \in Workers : v # w => worker'[v] = worker[v] /\ result'[v] = result[v]
           /\ result'[w].data = d
           /\ result' \in [Workers -> [data : Data, code : Codes]]
           /\ UNCHANGED <<task, created, aged, sd, error, submitting, settled>>
  BY DEF Returns, submitVars, RunStep, KeyTypeOK, TaskTypeOK, WorkerState

(* Entries stay where they are.                                            *)
LEMMA LogKept ==
    ASSUME KeyTypeOK, NEW w \in Workers, LogEffect(w)
    PROVE  /\ log' \in Seq(Entry) /\ Len(log') <= MaxLog
           /\ Len(log) \in Nat /\ DOMAIN log = 1 .. Len(log)
           /\ DOMAIN log' = 1 .. Len(log') /\ DOMAIN log \subseteq DOMAIN log'
           /\ Len(log') \in Nat /\ Len(log) <= Len(log')
           /\ \A i \in DOMAIN log : log'[i] = log[i]
<1>1. CASE log' = log
  BY <1>1 DEF KeyTypeOK
<1>2. CASE \E e : AddsEntry(w, e)
  <2>1. PICK e \in Entry : log' = Append(log, e) /\ Len(log) < MaxLog
    BY <1>2 DEF AddsEntry
  <2> QED
    BY <2>1, LogGrows, KeyAssumption DEF KeyTypeOK
<1> QED
  BY <1>1, <1>2 DEF LogEffect

(* A step that ends in "done" at the publish step has something published. *)
LEMMA DoneAnnounces ==
    ASSUME LogInv, QueueInv, NEW w \in Workers, NEW o, NEW code, NEW d,
           SagaEffect(w, o, code, d), o = "done", worker[w].step = PublishStep(worker[w].task)
    PROVE  \/ Announced(worker[w].task)
           \/ \E e : AddsEntry(w, e)
<1> DEFINE t == worker[w].task
<1>1. worker[w].pc = "loaded" /\ t \in Tasks
  BY AfterStep, DataTypes DEF LogInv, SagaEffect
<1>2. task[t].step = worker[w].step /\ task[t].step \in Nat
  BY <1>1 DEF QueueInv, CopyAgreesWithRow, Busy, LogInv, KeyTypeOK, TaskTypeOK, Row
<1>3. ~sd[t].published
  BY <1>1, <1>2 DEF LogInv, StepsOK, PublishStep
<1>4. Len(log) \in DOMAIN log
  BY DEF LogInv, EntriesOK, KeyTypeOK
<1> QED
  BY <1>3, <1>4
  DEF SagaEffect, DoneOnlyIf, Announced, AlreadyRotated, AlreadyDeactivated, Last, Mine

(* What is announced stays so, and an added entry announces its task.      *)
LEMMA AnnouncedKept ==
    ASSUME KeyTypeOK, NEW w \in Workers, LogEffect(w), UNCHANGED sd
    PROVE  \A t \in Tasks :
              \/ Announced(t)
              \/ t = worker[w].task /\ \E e : AddsEntry(w, e)
              => Announced(t)'
<1>1. ASSUME NEW t \in Tasks, Announced(t) PROVE Announced(t)'
  BY <1>1, LogKept DEF Announced
<1>2. ASSUME NEW t \in Tasks, t = worker[w].task, NEW e, AddsEntry(w, e) PROVE Announced(t)'
  <2>1. /\ log'[Len(log) + 1] = e /\ Len(log) + 1 \in DOMAIN log'
        /\ t \in Rotations => e.keys = sd[t].keys
        /\ t \notin Rotations => e.kind = "deactivation"
    BY <1>2, LogGrows DEF AddsEntry, KeyTypeOK
  <2> QED
    BY <2>1 DEF Announced
<1> QED
  BY <1>1, <1>2

(* A step of a saga preserves LogInv.                                      *)
LEMMA SagaStepKeepsLog ==
    ASSUME OneWorker, LogInv, QueueInv, TaskTypeOK', NEW w \in Workers, RunSagaStep(w)
    PROVE  LogInv'
<1> USE DEF LogInv
<1>1. PICK o \in Outcomes, code \in Codes, d \in Data : SagaEffect(w, o, code, d)
  BY StepHasEffect DEF HasEffect, SagaEffect
<1> DEFINE t == worker[w].task
           n == worker[w].step
<1>2. /\ worker[w].pc = "loaded"
      /\ worker'[w].pc = "ran" /\ worker'[w].outcome = o
      /\ worker'[w].task = t /\ worker'[w].step = n
      /\ \A v \in Workers : v = w
      /\ result'[w].data = d
      /\ result' \in [Workers -> [data : Data, code : Codes]]
      /\ UNCHANGED <<task, created, aged, sd, error, submitting, settled>>
  BY <1>1, AfterStep, OneWorker DEF SagaEffect, OneWorker
<1>3. t \in Tasks /\ task[t].step = n /\ n \in Nat /\ issuer.keys \in Keys
  BY <1>2, DataTypes DEF QueueInv, CopyAgreesWithRow, Busy, KeyTypeOK, TaskTypeOK, Row
<1>4. LogEffect(w) /\ IssuerEffect(w) /\ DataEffect(w, o, d) /\ minted' \in 1 .. MaxKeys
  BY <1>1 DEF SagaEffect
<1>5. issuer' \in [state : {"active", "deactivated"}, keys : Keys]
  BY <1>3, <1>4, DataTypes DEF IssuerEffect, KeyTypeOK, Mine
<1>6. KeyTypeOK'
  BY <1>2, <1>4, <1>5, LogKept DEF KeyTypeOK
<1>7. \A u \in Tasks : Announced(u) => Announced(u)'
  BY <1>2, <1>4, AnnouncedKept
<1>8. StepsOK'
  BY <1>2, <1>7 DEF StepsOK
<1>9. ResultsOK'
  <2>1. ASSUME o = "done", n = PublishStep(t)
        PROVE  IF t \in Rotations
               THEN \E i \in DOMAIN log' : log'[i].keys.authorized = sd'[t].keys.authorized
               ELSE \E i \in DOMAIN log' : log'[i].kind = "deactivation"
    <3>1. PICK u \in Tasks : u = t
      BY <1>3
    <3>2. Announced(u)'
      BY <1>1, <1>2, <1>4, <2>1, <3>1, AnnouncedKept, DoneAnnounces
    <3> QED
      BY <3>1, <3>2 DEF Announced
  <2>2. /\ n # 1 \/ t \notin Rotations => d.keys = sd'[t].keys
        /\ d.published => sd'[t].published \/ (o = "done" /\ n = PublishStep(t))
    BY <1>2, <1>4 DEF DataEffect
  <2>3. /\ worker'[w].task = t /\ worker'[w].step = n /\ worker'[w].outcome = o
        /\ result'[w].data = d /\ \A v \in Workers : v = w
    BY <1>2
  <2> HIDE DEF LogInv, t, n
  <2> QED
    BY <2>1, <2>2, <2>3 DEF ResultsOK, PublishStep, Announced
<1>10. SignerIsPublished'
  <2>1. \/ issuer'.keys.authorized = issuer.keys.authorized
        \/ t \in Rotations /\ n = 4 /\ issuer'.keys = sd[t].keys
    BY <1>4 DEF IssuerEffect, KeyTypeOK
  <2>2. t \in Rotations /\ n = 4 =>
           \E i \in DOMAIN log : log[i].keys.authorized = sd[t].keys.authorized
    BY <1>3 DEF StepsOK, PublishStep, Announced
  <2>3. \E i \in DOMAIN log : log[i].keys.authorized = issuer'.keys.authorized
    BY <2>1, <2>2 DEF SignerIsPublished
  <2> QED
    BY <1>4, <2>3, LogKept DEF SignerIsPublished
<1>11. DeactivatedMeansClosed'
  <2>1. issuer'.state = "deactivated" => \E i \in DOMAIN log : log[i].kind = "deactivation"
    <3>1. CASE t \notin Rotations /\ n = 3
      BY <1>3, <3>1 DEF StepsOK, PublishStep, Announced
    <3>2. CASE ~(t \notin Rotations /\ n = 3)
      BY <1>4, <3>2 DEF IssuerEffect, DeactivatedMeansClosed, KeyTypeOK
    <3> QED
      BY <3>1, <3>2
  <2> QED
    BY <1>4, <2>1, LogKept DEF DeactivatedMeansClosed
<1>12. EntriesOK' /\ NoRepeatedTail' /\ EntriesSignedByPublishedKey'
  <2>1. CASE log' = log
    BY <1>2, <2>1 DEF EntriesOK, NoRepeatedTail, EntriesSignedByPublishedKey
  <2>2. CASE \E e : AddsEntry(w, e)
    <3>1. PICK e \in Entry : AddsEntry(w, e)
      BY <2>2 DEF AddsEntry
    <3> DEFINE k == Len(log)
    <3>2. /\ k \in Nat /\ k >= 1 /\ Len(log') = k + 1
          /\ DOMAIN log = 1 .. k /\ DOMAIN log' = 1 .. k + 1
          /\ \A i \in 1 .. k : log'[i] = log[i]
          /\ log'[k + 1] = e
      BY <3>1, LogGrows DEF AddsEntry, KeyTypeOK, EntriesOK
    <3>3. /\ e.by = t /\ e.signer = issuer.keys.authorized /\ n = PublishStep(t)
          /\ t \in Rotations => e.kind = "rotation" /\ e.keys = sd[t].keys /\ ~AlreadyRotated(w)
          /\ t \notin Rotations => e.kind = "deactivation" /\ ~AlreadyDeactivated
      BY <3>1 DEF AddsEntry
    <3>4. e.by # log[k].by
      <4>1. CASE t \in Rotations
        BY <3>2, <3>3, <4>1 DEF EntriesOK, AlreadyRotated, Last, Mine
      <4>2. CASE t \notin Rotations
        BY <1>3, <3>2, <3>3, <4>2 DEF EntriesOK, AlreadyDeactivated, Last
      <4> QED
        BY <4>1, <4>2
    <3>5. t # "create_issuer" /\ (t \in Rotations => task[t].step >= 3)
      BY <1>3, <3>3, KeyAssumption DEF PublishStep
    <3>6. PICK j \in 1 .. k : log[j].keys.authorized = e.signer
      BY <3>2, <3>3 DEF SignerIsPublished
    <3> HIDE DEF k, t, n
    <3>7. EntriesOK'
      BY <1>2, <1>3, <3>2, <3>3, <3>5 DEF EntriesOK
    <3>8. NoRepeatedTail'
      BY <3>2, <3>4 DEF NoRepeatedTail, k
    <3>9. EntriesSignedByPublishedKey'
      <4> SUFFICES ASSUME NEW i \in 2 .. k + 1
                   PROVE  \E m \in 1 .. i - 1 : log'[i].signer = log'[m].keys.authorized
        BY <3>2 DEF EntriesSignedByPublishedKey
      <4>1. CASE i = k + 1
        BY <3>2, <3>6, <4>1
      <4>2. CASE i # k + 1
        <5>1. i \in 2 .. k
          BY <3>2, <4>2
        <5>2. PICK m \in 1 .. i - 1 : log[i].signer = log[m].keys.authorized
          BY <5>1 DEF EntriesSignedByPublishedKey, k
        <5> QED
          BY <3>2, <5>1, <5>2
      <4> QED
        BY <4>1, <4>2
    <3> QED
      BY <3>7, <3>8, <3>9
  <2> QED
    BY <1>4, <2>1, <2>2 DEF LogEffect
<1> QED
  BY <1>6, <1>8, <1>9, <1>10, <1>11, <1>12

(* The outcome is written: an advance merges the state data and moves the  *)
(* row on by one step, anything else leaves both.                          *)
LEMMA AfterOutcome ==
    ASSUME LogInv, QueueInv, NEW w \in Workers, ApplySagaOutcome(w)
    PROVE  /\ worker[w].pc = "ran" /\ worker[w].task \in Tasks
           /\ task[worker[w].task].state = "in_progress"
           /\ worker[w].step = task[worker[w].task].step
           /\ worker'[w].pc = "idle"
           /\ \A v \in Workers : v # w => worker'[v] = worker[v] /\ result'[v] = result[v]
           /\ \A u \in Tasks : u # worker[w].task => task'[u] = task[u] /\ sd'[u] = sd[u]
           /\ \/ /\ worker[w].outcome = "done"
                 /\ task'[worker[w].task].step = worker[w].step + 1
                 /\ task'[worker[w].task].state = "in_progress"
                 /\ sd'[worker[w].task] = result[w].data
              \/ /\ UNCHANGED sd /\ task'[worker[w].task].step = worker[w].step
                 /\ \/ task'[worker[w].task].state \in {"in_progress", "failed"}
                    \/ /\ task'[worker[w].task].state = "completed"
                       /\ worker[w].outcome = "done"
                       /\ worker[w].step = LastStep[worker[w].task]
           /\ sd' \in [Tasks -> Data] /\ error' \in [Tasks -> Codes]
           /\ result' \in [Workers -> [data : Data, code : Codes]]
           /\ UNCHANGED <<issuer, log, minted, submitting, settled>>
<1> DEFINE t == worker[w].task
<1>1. /\ worker \in [Workers -> WorkerState] /\ worker[w] \in WorkerState /\ t \in Tasks
      /\ task \in [Tasks -> Row] /\ task[t] \in Row
      /\ result[w] \in [data : Data, code : Codes]
  BY DEF LogInv, KeyTypeOK, TaskTypeOK, WorkerState
<1>2. PICK row : Writes(w, row)
  BY
  DEF ApplySagaOutcome, AdvanceStep, TryComplete, ScheduleRetry, TryFail, SetTerminalState
<1>3. /\ worker[w].pc = "ran" /\ worker'[w].pc = "idle"
      /\ \A v \in Workers : v # w => worker'[v] = worker[v]
      /\ \A u \in Tasks : u # t => task'[u] = task[u]
  BY <1>1, <1>2 DEF Writes, WorkerState
<1>4. task[t].state = "in_progress" /\ worker[w].step = task[t].step
  BY <1>1, <1>3 DEF QueueInv, CopyAgreesWithRow, Busy
<1>5. /\ \A v \in Workers : v # w => result'[v] = result[v]
      /\ result' \in [Workers -> [data : Data, code : Codes]]
      /\ UNCHANGED <<issuer, log, minted, submitting, settled>>
  <2>1. NoResult \in [data : Data, code : Codes]
    BY KeyAssumption DEF NoResult, NoData, NoKeys, Data, Keys, Codes
  <2> QED
    BY <2>1 DEF ApplySagaOutcome, submitVars, LogInv, KeyTypeOK
<1>6. CASE AdvanceStep(w) /\ sd' = [sd EXCEPT ![t] = result[w].data] /\ UNCHANGED error
  <2>1. /\ worker[w].outcome = "done" /\ task'[t].step = worker[w].step + 1
        /\ task'[t].state = "in_progress"
    BY <1>1, <1>4, <1>6 DEF AdvanceStep, Writes, Row
  <2>2. /\ sd' \in [Tasks -> Data] /\ error' \in [Tasks -> Codes]
        /\ sd'[t] = result[w].data /\ \A u \in Tasks : u # t => sd'[u] = sd[u]
    BY <1>1, <1>6 DEF LogInv, KeyTypeOK
  <2> QED
    BY <1>1, <1>3, <1>4, <1>5, <2>1, <2>2
<1>7. CASE (TryComplete(w) \/ ScheduleRetry(w)) /\ UNCHANGED <<sd, error>>
  <2>1. /\ task'[t].step = worker[w].step
        /\ \/ task'[t].state \in {"in_progress", "failed"}
           \/ /\ task'[t].state = "completed" /\ worker[w].outcome = "done"
              /\ worker[w].step = LastStep[t]
    <3>1. CASE TryComplete(w)
      BY <1>1, <1>4, <3>1 DEF TryComplete, SetTerminalState, Writes, Row
    <3>2. CASE ScheduleRetry(w)
      BY <1>1, <1>4, <3>2 DEF ScheduleRetry, Writes, Row
    <3> QED
      BY <1>7, <3>1, <3>2
  <2> QED
    BY <1>1, <1>3, <1>4, <1>5, <1>7, <2>1 DEF LogInv, KeyTypeOK
<1>8. CASE /\ TryFail(w) /\ error' = [error EXCEPT ![t] = result[w].code] /\ UNCHANGED sd
  <2>1. task'[t].step = worker[w].step /\ task'[t].state = "failed"
    BY <1>1, <1>4, <1>8 DEF TryFail, SetTerminalState, Writes, Row
  <2> QED
    BY <1>1, <1>3, <1>4, <1>5, <1>8, <2>1 DEF LogInv, KeyTypeOK
<1> QED
  BY <1>6, <1>7, <1>8 DEF ApplySagaOutcome

(* Writing an outcome keeps the invariant.                                 *)
LEMMA OutcomeKeepsLog ==
    ASSUME OneWorker, LogInv, QueueInv, TaskTypeOK', NEW w \in Workers, ApplySagaOutcome(w)
    PROVE  LogInv'
<1> DEFINE t == worker[w].task
           n == worker[w].step
           d == result[w].data
<1>1. /\ worker[w].pc = "ran" /\ t \in Tasks /\ n = task[t].step /\ n \in Nat
      /\ worker'[w].pc = "idle" /\ \A v \in Workers : v = w
      /\ \A u \in Tasks : u # t => task'[u] = task[u] /\ sd'[u] = sd[u]
      /\ \/ /\ worker[w].outcome = "done" /\ task'[t].step = n + 1 /\ sd'[t] = d
         \/ UNCHANGED sd /\ task'[t].step = n
      /\ UNCHANGED <<issuer, log, minted, submitting, settled>>
  <2>1. \A u \in Tasks : task[u].step \in Nat
    BY DEF LogInv, KeyTypeOK, TaskTypeOK, Row
  <2>2. \A v \in Workers : v = w
    BY OneWorker DEF OneWorker
  <2> QED
    BY <2>1, <2>2, AfterOutcome
<1>2. KeyTypeOK'
  BY <1>1, AfterOutcome DEF LogInv, KeyTypeOK
<1>3. ResultsOK'
  BY <1>1 DEF ResultsOK
<1>4. NoRepeatedTail' /\ EntriesSignedByPublishedKey' /\ DeactivatedMeansClosed'
      /\ SignerIsPublished'
  BY <1>1 DEF LogInv, NoRepeatedTail, EntriesSignedByPublishedKey, DeactivatedMeansClosed,
              SignerIsPublished
<1>5. /\ n # 1 \/ t \notin Rotations => d.keys = sd[t].keys
      /\ worker[w].outcome = "done" /\ n = PublishStep(t) => Announced(t)
      /\ d.published => \/ sd[t].published
                        \/ worker[w].outcome = "done" /\ n = PublishStep(t)
  BY <1>1 DEF LogInv, ResultsOK
<1> HIDE DEF t, n, d
<1>6. /\ sd'[t].keys = sd[t].keys \/ (n = 1 /\ t \in Rotations)
      /\ \A u \in Tasks : task'[u].step >= task[u].step /\ task[u].step \in Nat
  <2>1. sd'[t].keys = sd[t].keys \/ (n = 1 /\ t \in Rotations)
    BY <1>1, <1>5
  <2>2. \A u \in Tasks : task[u].step \in Nat
    BY DEF LogInv, KeyTypeOK, TaskTypeOK, Row
  <2>3. \A u \in Tasks : task'[u].step = task[u].step \/ task'[u].step = task[u].step + 1
    BY <1>1
  <2> QED
    BY <2>1, <2>2, <2>3
<1>7. EntriesOK'
  <2> SUFFICES ASSUME NEW i \in DOMAIN log, log[i].by \in Rotations
               PROVE  /\ log[i].keys = sd'[log[i].by].keys
                      /\ task'[log[i].by].step >= 3
    BY <1>1 DEF LogInv, EntriesOK
  <2>1. /\ log[i].keys = sd[log[i].by].keys /\ task[log[i].by].step >= 3
        /\ log[i].by \in Tasks
    BY KeyAssumption DEF LogInv, EntriesOK
  <2>2. task'[log[i].by].step >= 3
    BY <1>1, <1>6, <2>1
  <2>3. sd'[log[i].by].keys = sd[log[i].by].keys
    BY <1>1, <1>6, <2>1
  <2> QED
    BY <2>1, <2>2, <2>3
<1>8. StepsOK'
  <2> SUFFICES ASSUME NEW u \in Tasks
               PROVE  /\ task'[u].step > PublishStep(u) => Announced(u)'
                      /\ sd'[u].published => task'[u].step > PublishStep(u)
    BY DEF StepsOK, PublishStep
  <2>1. CASE u # t
    BY <1>1, <2>1 DEF LogInv, StepsOK, Announced
  <2>2. CASE u = t
    <3>1. ASSUME task'[u].step > PublishStep(u) PROVE Announced(u)'
      <4>1. Announced(u)
        BY <1>1, <1>5, <2>2, <3>1 DEF LogInv, StepsOK, PublishStep
      <4>2. sd'[u].keys = sd[u].keys
        BY <1>1, <1>6, <2>2, <3>1 DEF PublishStep
      <4> QED
        BY <1>1, <4>1, <4>2 DEF Announced
    <3>2. ASSUME sd'[u].published PROVE task'[u].step > PublishStep(u)
      BY <1>1, <1>5, <2>2, <3>2 DEF LogInv, StepsOK, PublishStep
    <3> QED
      BY <3>1, <3>2
  <2> QED
    BY <2>1, <2>2
<1> QED
  BY <1>2, <1>3, <1>4, <1>7, <1>8 DEF LogInv

(* Steps of the queue that run nothing: submission, timers, claims, loads  *)
(* and crashes.                                                            *)
Quiet ==
    /\ UNCHANGED <<issuer, log, sd, error, minted>>
    /\ \A u \in Tasks : /\ task'[u].step = task[u].step
                        /\ \/ task'[u].state = task[u].state
                           \/ task[u].state = "absent" /\ task'[u].state = "pending"
                           \/ task[u].state \in Live /\ task'[u].state = "in_progress"
    /\ \A w \in Workers : worker'[w].pc = "ran" =>
          worker'[w] = worker[w] /\ result'[w] = result[w]
    /\ result' \in [Workers -> [data : Data, code : Codes]]
    /\ submitting' \subseteq Tasks
    /\ settled' \in [Tasks -> SUBSET Tasks]
    /\ \A u \in Tasks :
          \/ settled'[u] = settled[u]
          \/ /\ task[u].state = "absent" /\ task'[u].state = "pending"
             /\ settled'[u] = {v \in Tasks : task[v].state \in Terminal}

(* Every step that is neither a step of a saga nor the write of its        *)
(* outcome is quiet.                                                       *)
LEMMA QuietSteps ==
    ASSUME LogInv, QueueInv, [KeyNext]_keyVars,
           \A w \in Workers : ~RunSagaStep(w) /\ ~ApplySagaOutcome(w)
    PROVE  Quiet
<1>1. /\ task \in [Tasks -> Row] /\ worker \in [Workers -> WorkerState]
      /\ result \in [Workers -> [data : Data, code : Codes]] /\ submitting \subseteq Tasks
      /\ settled \in [Tasks -> SUBSET Tasks]
  BY DEF LogInv, KeyTypeOK, TaskTypeOK
<1>2. ASSUME NEW t \in Tasks, SubmitCheck(t) PROVE Quiet
  BY <1>1, <1>2 DEF SubmitCheck, Quiet, taskVars, sagaVars
<1>3. ASSUME NEW t \in Tasks, SubmitInsert(t) PROVE Quiet
  <2>1. /\ task[t].state = "absent" /\ task[t].step = 1
        /\ task'[t].state = "pending" /\ task'[t].step = 1
        /\ \A u \in Tasks : u # t => task'[u] = task[u]
        /\ UNCHANGED <<worker, sagaVars>>
        /\ submitting' = submitting \ {t}
        /\ settled' = [settled EXCEPT ![t] = {u \in Tasks : task[u].state \in Terminal}]
    BY <1>1, <1>3 DEF SubmitInsert, Submit, NewRow, QueueInv, AbsentIsNew
  <2> QED
    BY <1>1, <2>1 DEF Quiet, sagaVars, submitVars
<1>4. ASSUME NEW t \in Tasks, TimerPasses(t) \/ Age(t), UNCHANGED <<sagaVars, submitVars>>
      PROVE  Quiet
  <2>1. /\ UNCHANGED worker
        /\ \A u \in Tasks : task'[u].step = task[u].step /\ task'[u].state = task[u].state
    BY <1>1, <1>4 DEF TimerPasses, Age, Row
  <2> QED
    BY <1>1, <1>4, <2>1 DEF Quiet, sagaVars, submitVars
<1>5. ASSUME NEW w \in Workers, SetAcquired(w), UNCHANGED <<sagaVars, submitVars>>
      PROVE  Quiet
  <2> DEFINE t == worker[w].task
  <2>1. t \in Tasks /\ task[t] \in Row /\ task[t].state \in Live
    BY <1>1, <1>5 DEF SetAcquired, WorkerState, QueueInv, ClaimedIsLive
  <2>2. /\ task'[t].state = "in_progress" /\ task'[t].step = task[t].step
        /\ \A u \in Tasks : u # t => task'[u] = task[u]
    BY <1>1, <1>5, <2>1 DEF SetAcquired, TryAcquire, Row
  <2>3. \A v \in Workers : worker'[v].pc = "ran" => worker'[v] = worker[v]
    BY <1>1, <1>5 DEF SetAcquired, WorkerState
  <2> QED
    BY <1>1, <1>5, <2>1, <2>2, <2>3 DEF Quiet, sagaVars, submitVars
<1>6. ASSUME NEW w \in Workers,
             Load(w) \/ LoadFails(w) \/ \E t \in Tasks : FindNextAcquirable(w, t),
             UNCHANGED <<sagaVars, submitVars>>
      PROVE  Quiet
  <2>1. /\ UNCHANGED task
        /\ \A v \in Workers : worker'[v].pc = "ran" => worker'[v] = worker[v]
    BY <1>1, <1>6 DEF Load, LoadFails, FindNextAcquirable, WorkerState
  <2> QED
    BY <1>1, <1>6, <2>1 DEF Quiet, sagaVars, submitVars
<1>7. ASSUME NEW w \in Workers, CrashInSaga(w) PROVE Quiet
  <2>1. /\ UNCHANGED task
        /\ \A v \in Workers : worker'[v].pc = "ran" => worker'[v] = worker[v] /\ v # w
    BY <1>1, <1>7 DEF CrashInSaga, Crash, WorkerState
  <2>2. NoResult \in [data : Data, code : Codes]
    BY KeyAssumption DEF NoResult, NoData, NoKeys, Data, Keys, Codes
  <2>3. /\ result' = [result EXCEPT ![w] = NoResult]
        /\ UNCHANGED <<issuer, log, sd, error, minted, submitVars>>
    BY <1>7 DEF CrashInSaga
  <2> QED
    BY <1>1, <2>1, <2>2, <2>3 DEF Quiet, submitVars
<1>8. CASE UNCHANGED keyVars
  BY <1>1, <1>8 DEF Quiet, keyVars, taskVars, sagaVars, submitVars
<1> QED
  BY <1>2, <1>3, <1>4, <1>5, <1>6, <1>7, <1>8 DEF KeyNext, Claim

(* A quiet step keeps the invariant.                                       *)
LEMMA QuietKeepsLog == ASSUME LogInv, TaskTypeOK', Quiet PROVE LogInv'
<1>1. KeyTypeOK'
  BY DEF Quiet, LogInv, KeyTypeOK
<1>2. \A t \in Tasks : Announced(t)' <=> Announced(t)
  BY DEF Quiet, Announced
<1>3. StepsOK'
  BY <1>2 DEF Quiet, LogInv, StepsOK
<1>4. ResultsOK'
  <2> SUFFICES ASSUME NEW w \in Workers, worker'[w].pc = "ran"
               PROVE  LET t == worker'[w].task
                          d == result'[w].data
                          done == worker'[w].outcome = "done"
                      IN  /\ worker'[w].step # 1 \/ t \notin Rotations => d.keys = sd[t].keys
                          /\ done /\ worker'[w].step = PublishStep(t) => Announced(t)
                          /\ d.published => \/ sd[t].published
                                            \/ done /\ worker'[w].step = PublishStep(t)
    BY DEF Quiet, ResultsOK, Announced, PublishStep
  <2>1. worker'[w] = worker[w] /\ result'[w] = result[w]
    BY DEF Quiet
  <2> QED
    BY <2>1 DEF LogInv, ResultsOK
<1>5. EntriesOK'
  BY KeyAssumption DEF Quiet, LogInv, EntriesOK, KeyTypeOK
<1>6. NoRepeatedTail' /\ EntriesSignedByPublishedKey' /\ DeactivatedMeansClosed'
      /\ SignerIsPublished'
  BY
  DEF Quiet, LogInv, NoRepeatedTail, EntriesSignedByPublishedKey, DeactivatedMeansClosed,
         SignerIsPublished
<1> QED
  BY <1>1, <1>3, <1>4, <1>5, <1>6 DEF LogInv

(* The inductive invariant of the log, with one dispatch loop.             *)
LEMMA LogInvHolds == ASSUME OneWorker PROVE KeySpec => []LogInv
<1>1. KeyInit => LogInv
  <2> SUFFICES ASSUME KeyInit PROVE LogInv
    OBVIOUS
  <2> DEFINE genesis == [kind |-> "genesis", keys |-> FirstKeys, signer |-> 1,
                         by |-> "create_issuer"]
  <2>1. /\ log = <<genesis>> /\ genesis \in Entry /\ FirstKeys \in Keys
        /\ genesis.by = "create_issuer" /\ genesis.keys = FirstKeys
    BY KeyAssumption DEF KeyInit, FirstKeys, Keys, Entry
  <2> HIDE DEF genesis
  <2>2. /\ log \in Seq(Entry) /\ Len(log) = 1 /\ DOMAIN log = 1 .. 1
        /\ log[1].by = "create_issuer" /\ log[1].keys = FirstKeys
    BY <2>1
  <2>3. /\ \A t \in Tasks : task[t].step = 1 /\ sd[t] = NoData /\ ~sd[t].published
        /\ \A w \in Workers : worker[w].pc = "idle"
        /\ issuer.keys = FirstKeys /\ issuer.state = "active"
    BY DEF KeyInit, TaskInit, NewRow, IdleWorker, NoData
  <2>4. KeyTypeOK
    <3>1. TaskTypeOK
      BY TaskAssumption
      DEF KeyInit, TaskInit, TaskTypeOK, NewRow, IdleWorker, Row, WorkerState,
          Outcomes, Timers
    <3>2. NoData \in Data /\ NoResult \in [data : Data, code : Codes]
      BY KeyAssumption DEF NoResult, NoData, NoKeys, Data, Keys, Codes
    <3> QED
      BY <2>1, <2>2, <3>1, <3>2, KeyAssumption DEF KeyInit, KeyTypeOK, Codes
  <2>5. StepsOK /\ ResultsOK
    BY <2>3 DEF StepsOK, ResultsOK, PublishStep
  <2>6. EntriesOK /\ SignerIsPublished
    BY <2>2, <2>3, KeyAssumption DEF EntriesOK, SignerIsPublished
  <2>7. NoRepeatedTail /\ EntriesSignedByPublishedKey /\ DeactivatedMeansClosed
    BY <2>2, <2>3 DEF NoRepeatedTail, EntriesSignedByPublishedKey, DeactivatedMeansClosed
  <2> QED
    BY <2>4, <2>5, <2>6, <2>7 DEF LogInv
<1>2. LogInv /\ QueueInv /\ TaskTypeOK' /\ [KeyNext]_keyVars => LogInv'
  BY OneWorker, SagaStepKeepsLog, OutcomeKeepsLog, QuietSteps, QuietKeepsLog
<1> QED
  BY <1>1, <1>2, KeySagasRunOnTheQueue, TaskTypes, QueueInvHolds, PTL DEF KeySpec

(* KeySagas!NoRepeatedTail: a PUT whose answer was lost is not repeated on *)
(* top of itself (publish_rotation, publish_deactivation).                 *)
THEOREM PublishesOnceInARow == ASSUME OneWorker PROVE KeySpec => []NoRepeatedTail
  BY LogInvHolds, PTL DEF LogInv

(* KeySagas!EntriesSignedByPublishedKey: every entry is signed by an       *)
(* update key an earlier entry has published.                              *)
THEOREM SignersArePublic ==
    ASSUME OneWorker PROVE KeySpec => []EntriesSignedByPublishedKey
  BY LogInvHolds, PTL DEF LogInv

(* KeySagas!DeactivatedMeansClosed: the row says deactivated only after    *)
(* the deactivation entry is in the log.                                   *)
THEOREM DeactivationIsPublished ==
    ASSUME OneWorker PROVE KeySpec => []DeactivatedMeansClosed
  BY LogInvHolds, PTL DEF LogInv

(* KeySagas!DeactivatedIsFrozen: no rotation under way swaps the keys of a *)
(* deactivated issuer, and nothing reactivates it.                         *)
THEOREM DeactivationIsFinal == ASSUME OneWorker PROVE KeySpec => DeactivatedIsFrozen
<1>1. LogInv /\ QueueInv /\ [KeyNext]_keyVars
         => [issuer.state = "deactivated" => issuer' = issuer]_issuer
  <2> SUFFICES ASSUME LogInv, QueueInv, [KeyNext]_keyVars, issuer.state = "deactivated"
               PROVE  issuer' = issuer
    OBVIOUS
  <2>1. ASSUME NEW w \in Workers, RunSagaStep(w) PROVE issuer' = issuer
    <3>1. IssuerEffect(w)
      BY <2>1, StepHasEffect DEF LogInv, HasEffect, SagaEffect
    <3> QED
      BY <3>1 DEF IssuerEffect, LogInv, KeyTypeOK
  <2>2. ASSUME NEW w \in Workers, ApplySagaOutcome(w) PROVE issuer' = issuer
    BY <2>2 DEF ApplySagaOutcome
  <2> QED
    BY <2>1, <2>2, QuietSteps DEF Quiet
<1> QED
  BY <1>1, LogInvHolds, KeySagasRunOnTheQueue, QueueInvHolds, PTL
  DEF KeySpec, DeactivatedIsFrozen

-----------------------------------------------------------------------------
(* Rotations keep their keys apart.                                        *)

(* The authorized keys are numbers, so that a new one differs from all.    *)
LEMMA KeyNumbers ==
    ASSUME KeyTypeOK
    PROVE  /\ minted \in Nat /\ issuer.keys.authorized \in Nat
           /\ \A t \in Tasks : sd[t].keys.authorized \in Nat
           /\ \A i \in DOMAIN log : log[i].keys.authorized \in Nat
           /\ \A w \in Workers : result[w].data.keys.authorized \in Nat
<1>1. \A k \in Keys : k.authorized \in Nat
  BY KeyAssumption DEF Keys
<1>2. /\ issuer.keys \in Keys
      /\ \A t \in Tasks : sd[t].keys \in Keys
      /\ \A w \in Workers : result[w].data.keys \in Keys
  BY DEF KeyTypeOK, Data
<1>3. \A i \in DOMAIN log : log[i].keys \in Keys
  <2>1. \A i \in DOMAIN log : log[i] \in Entry
    BY DEF KeyTypeOK
  <2> QED
    BY <2>1 DEF Entry
<1> QED
  BY <1>1, <1>2, <1>3, KeyAssumption DEF KeyTypeOK

(* A step of a saga leaves the rotations their own keys.                   *)
LEMMA SagaStepKeepsOwn ==
    ASSUME OneWorker, LogInv, QueueInv, OwnInv, NEW w \in Workers, RunSagaStep(w)
    PROVE  OwnInv'
<1>1. PICK o \in Outcomes, code \in Codes, d \in Data : SagaEffect(w, o, code, d)
  BY StepHasEffect DEF LogInv, HasEffect, SagaEffect
<1> DEFINE t == worker[w].task
           n == worker[w].step
           k == Len(log)
<1>2. /\ worker[w].pc = "loaded"
      /\ worker'[w].pc = "ran" /\ worker'[w].outcome = o
      /\ worker'[w].task = t /\ worker'[w].step = n
      /\ \A v \in Workers : v = w
      /\ result'[w].data = d
      /\ UNCHANGED <<task, sd, settled>>
  BY <1>1, AfterStep, OneWorker DEF SagaEffect, OneWorker, LogInv
<1>3. /\ t \in Tasks /\ task[t].step = n /\ n \in Nat
      /\ task[t].state = "in_progress" /\ task[t].state \notin Terminal
  BY <1>2, DataTypes
  DEF LogInv, QueueInv, CopyAgreesWithRow, Busy, KeyTypeOK, TaskTypeOK, Row, Terminal
<1>4. /\ LogEffect(w) /\ IssuerEffect(w) /\ DataEffect(w, o, d)
      /\ o = "done" => DoneOnlyIf(w)
      /\ minted \in Nat /\ minted' \in Nat /\ minted <= minted'
      /\ minted' \in {minted, minted + 1}
  BY <1>1, KeyNumbers, KeyAssumption DEF SagaEffect, LogInv
<1>5. /\ k \in Nat /\ k >= 1 /\ DOMAIN log = 1 .. k /\ DOMAIN log \subseteq DOMAIN log'
      /\ \A i \in DOMAIN log : log'[i] = log[i]
  BY <1>4, LogKept DEF LogInv, EntriesOK
(* The entry it may add is its own, or a deactivation.                     *)
<1>6. /\ \A e : AddsEntry(w, e) => k + 1 \in DOMAIN log' /\ log'[k + 1].by = t
      /\ \A i \in DOMAIN log' :
            \/ i \in DOMAIN log
            \/ log'[i].kind = "deactivation"
            \/ t \in Rotations /\ log'[i].by = t /\ log'[i].keys = sd[t].keys
  <2>1. ASSUME NEW e, AddsEntry(w, e)
        PROVE  /\ k + 1 \in DOMAIN log' /\ DOMAIN log' = 1 .. k + 1 /\ log'[k + 1] = e
               /\ e.by = t
               /\ \/ e.kind = "deactivation"
                  \/ t \in Rotations /\ e.keys = sd[t].keys
    BY <1>5, <2>1, LogGrows DEF AddsEntry, LogInv, KeyTypeOK
  <2>2. CASE log' = log
    BY <2>1, <2>2
  <2>3. CASE \E e : AddsEntry(w, e)
    <3>1. PICK e : AddsEntry(w, e)
      BY <2>3
    <3>2. \A i \in DOMAIN log' : i \in DOMAIN log \/ i = k + 1
      BY <1>5, <2>1, <3>1
    <3> HIDE DEF k, t
    <3> QED
      BY <2>1, <3>1, <3>2
  <2> QED
    BY <1>4, <2>2, <2>3 DEF LogEffect
(* The keys it may put in force are its own, and they are published.       *)
<1>7. \/ issuer'.keys = issuer.keys
      \/ t \in Rotations /\ n = 4 /\ issuer'.keys = sd[t].keys
  BY <1>4 DEF IssuerEffect, LogInv, KeyTypeOK
<1>8. t \in Rekeying /\ n = 4 => \E i \in DOMAIN log : log[i].keys = sd[t].keys
  BY <1>3 DEF OwnInv, RotationsPublish, HasEntry, LogInv, EntriesOK, Rekeying
<1>9. \A u \in Tasks : HasEntry(u) => \E i \in DOMAIN log' : log'[i].by = u
  BY <1>5 DEF HasEntry
<1>10. Rekeying \subseteq Rotations /\ Rotations \subseteq Tasks
  BY KeyAssumption DEF Rekeying
<1>11. /\ issuer.keys.authorized \in Nat
       /\ \A u \in Tasks : sd[u].keys.authorized \in Nat
       /\ \A i \in DOMAIN log : log[i].keys.authorized \in Nat
  BY KeyNumbers DEF LogInv
<1> HIDE DEF t, n, k
<1>12. KeysAreMinted'
  <2>1. \A u \in Tasks : sd[u].keys.authorized <= minted'
    BY <1>4, <1>11 DEF OwnInv, KeysAreMinted
  <2>2. issuer'.keys.authorized <= minted'
    BY <1>3, <1>4, <1>7, <1>11, <2>1 DEF OwnInv, KeysAreMinted
  <2>3. \A i \in DOMAIN log' :
           log'[i].kind # "deactivation" => log'[i].keys.authorized <= minted'
    BY <1>3, <1>4, <1>5, <1>6, <1>11, <2>1 DEF OwnInv, KeysAreMinted
  <2> QED
    BY <1>2, <2>1, <2>2, <2>3 DEF KeysAreMinted
<1>13. KeyIsOwn'
  <2> SUFFICES ASSUME NEW u \in Rekeying, task[u].step \in {2, 3}
               PROVE  /\ issuer'.keys.authorized # sd[u].keys.authorized
                      /\ \A v \in Tasks \ {u} : sd[v].keys.authorized # sd[u].keys.authorized
                      /\ \A i \in DOMAIN log' :
                            /\ log'[i].kind # "deactivation"
                            /\ log'[i].keys.authorized = sd[u].keys.authorized
                            => log'[i].by = u
    BY <1>2 DEF KeyIsOwn
  <2>1. /\ issuer.keys.authorized # sd[u].keys.authorized
        /\ \A v \in Tasks \ {u} : sd[v].keys.authorized # sd[u].keys.authorized
        /\ \A i \in DOMAIN log :
              /\ log[i].kind # "deactivation"
              /\ log[i].keys.authorized = sd[u].keys.authorized
              => log[i].by = u
    BY DEF OwnInv, KeyIsOwn
  <2>2. issuer'.keys.authorized # sd[u].keys.authorized
    BY <1>3, <1>7, <2>1
  <2>3. \A i \in DOMAIN log' :
           /\ log'[i].kind # "deactivation"
           /\ log'[i].keys.authorized = sd[u].keys.authorized
           => log'[i].by = u
    BY <1>3, <1>5, <1>6, <2>1
  <2> QED
    BY <2>1, <2>2, <2>3
<1>14. MintedIsFresh'
  <2>1. ASSUME o = "done", n = 1, t \in Rotations
        PROVE  /\ d.keys.authorized <= minted'
               /\ IF t \in Rekeying THEN Unused(d.keys.authorized)'
                                    ELSE d.keys.authorized = issuer'.keys.authorized
    <3>1. sd[t].keys = NoKeys
      BY <1>3, <2>1 DEF OwnInv, MintedIsFresh
    <3>2. minted' = minted + 1 /\ UNCHANGED <<issuer, log>>
      BY <1>4, <2>1, <3>1 DEF DoneOnlyIf, t, n
    <3>3. d.keys.authorized = IF t \in Rekeying THEN minted + 1
                                                ELSE issuer.keys.authorized
      BY <1>4, <3>2 DEF DataEffect, t
    <3>4. CASE t \in Rekeying
      <4>1. d.keys.authorized = minted + 1
        BY <3>3, <3>4
      <4>2. /\ issuer.keys.authorized # minted + 1
            /\ \A u \in Tasks : sd[u].keys.authorized # minted + 1
            /\ \A i \in DOMAIN log :
                  log[i].kind # "deactivation" => log[i].keys.authorized # minted + 1
        BY <1>4, <1>11 DEF OwnInv, KeysAreMinted
      <4> QED
        BY <1>2, <1>4, <3>2, <3>4, <4>1, <4>2 DEF Unused
    <3>5. CASE t \notin Rekeying
      BY <1>4, <1>11, <3>2, <3>3, <3>5 DEF OwnInv, KeysAreMinted
    <3> QED
      BY <3>4, <3>5
  <2>2. \A u \in Rotations : task'[u].step = 1 => sd'[u].keys = NoKeys
    BY <1>2 DEF OwnInv, MintedIsFresh
  <2> QED
    BY <1>2, <2>1, <2>2 DEF MintedIsFresh
<1>15. RotationsPublish'
  <2>1. ASSUME o = "done", t \in Rekeying, n = 3
        PROVE  \E i \in DOMAIN log' : log'[i].by = t
    <3>1. ~sd[t].published
      BY <1>3, <1>10, <2>1 DEF LogInv, StepsOK, PublishStep
    <3>2. CASE \E e : AddsEntry(w, e)
      BY <1>6, <3>2
    <3>3. CASE AlreadyRotated(w)
      <4>1. /\ log[k].kind # "deactivation" /\ k \in DOMAIN log
            /\ log[k].keys.authorized = sd[t].keys.authorized
        BY <1>5, <3>3 DEF AlreadyRotated, Mine, Last, t, k
      <4>2. log[k].by = t
        BY <1>3, <2>1, <4>1 DEF OwnInv, KeyIsOwn
      <4> QED
        BY <1>5, <4>1, <4>2
    <3> QED
      BY <1>4, <1>10, <2>1, <3>1, <3>2, <3>3 DEF DoneOnlyIf, PublishStep, t, n
  <2>2. ASSUME o = "done", t \in Rotations, n = 4 PROVE issuer'.keys = sd[t].keys
    BY <1>4, <2>2 DEF DoneOnlyIf, t, n
  <2>3. \A u \in Rekeying : task'[u].step > 3 => \E i \in DOMAIN log' : log'[i].by = u
    BY <1>2, <1>9, <1>10 DEF OwnInv, RotationsPublish
  <2> QED
    BY <1>2, <2>1, <2>2, <2>3 DEF RotationsPublish, HasEntry
<1>16. SettledAreOver'
  BY <1>2 DEF OwnInv, SettledAreOver
<1>17. RowIsInForce'
  <2>1. CASE issuer'.keys = issuer.keys
    BY <1>2, <1>5, <2>1 DEF OwnInv, RowIsInForce, InForceBy
  <2>2. CASE t \in Rotations /\ n = 4 /\ issuer'.keys = sd[t].keys
    <3>1. task'[t].step > 1 /\ issuer'.keys = sd'[t].keys
      BY <1>2, <1>3, <2>2
    <3>2. \A u \in Tasks : t \notin settled[u]
      BY <1>3 DEF OwnInv, SettledAreOver
    <3>3. t \in Rekeying => \E i \in DOMAIN log' : log'[i].keys = issuer'.keys
      BY <1>5, <1>8, <2>2
    <3>4. \A u \in Rotations : task'[u].state = "completed" =>
             task'[u].step = 4 /\ t \in Rotations \ settled'[u]
      BY <1>2, <1>10, <2>2, <3>2 DEF OwnInv, RowIsInForce
    <3> QED
      BY <2>2, <3>1, <3>3, <3>4 DEF RowIsInForce, InForceBy
  <2> QED
    BY <1>7, <2>1, <2>2
<1> QED
  BY <1>12, <1>13, <1>14, <1>15, <1>16, <1>17 DEF OwnInv

(* Writing an outcome leaves the rotations their own keys.                 *)
LEMMA OutcomeKeepsOwn ==
    ASSUME OneWorker, LogInv, QueueInv, OwnInv, NEW w \in Workers, ApplySagaOutcome(w)
    PROVE  OwnInv'
<1> DEFINE t == worker[w].task
           n == worker[w].step
           done == worker[w].outcome = "done"
           key == result[w].data.keys.authorized
<1>1. /\ worker[w].pc = "ran" /\ t \in Tasks /\ n = task[t].step /\ n \in Nat \ {0}
      /\ task[t].state = "in_progress"
      /\ worker'[w].pc = "idle" /\ \A v \in Workers : v = w
      /\ \A u \in Tasks : u # t => task'[u] = task[u] /\ sd'[u] = sd[u]
      /\ \/ /\ done /\ task'[t].step = n + 1 /\ task'[t].state = "in_progress"
            /\ sd'[t] = result[w].data
         \/ /\ UNCHANGED sd /\ task'[t].step = n
            /\ \/ task'[t].state \in {"in_progress", "failed"}
               \/ task'[t].state = "completed" /\ done /\ n = LastStep[t]
      /\ UNCHANGED <<issuer, log, minted, settled>>
  BY AfterOutcome, OneWorker DEF OneWorker, LogInv, KeyTypeOK, TaskTypeOK, Row
<1>2. /\ Rekeying \subseteq Rotations /\ Rotations \subseteq Tasks
      /\ t \in Rotations => LastStep[t] = 4
  BY <1>1, KeyAssumption DEF Rekeying
(* Either the keys stay, or they are the new ones of step 1.               *)
<1>3. \/ sd'[t].keys = sd[t].keys /\ (n # 1 \/ task'[t].step = n \/ t \notin Rotations)
      \/ /\ done /\ n = 1 /\ t \in Rotations /\ task'[t].step = 2
         /\ sd'[t].keys.authorized = key
         /\ key <= minted
         /\ t \in Rekeying => Unused(key)
         /\ t \notin Rekeying => key = issuer.keys.authorized
  BY <1>1 DEF LogInv, ResultsOK, OwnInv, MintedIsFresh
<1>4. /\ done /\ t \in Rekeying /\ n = 3 => HasEntry(t)
      /\ done /\ t \in Rotations /\ n = 4 => issuer.keys = sd[t].keys
  BY <1>1 DEF OwnInv, RotationsPublish
<1>5. t \in Rotations /\ n = 1 => sd[t].keys = NoKeys
  BY <1>1 DEF OwnInv, MintedIsFresh
<1>6. \A u \in Tasks : task[u].step > 1 => task'[u].step > 1 /\ sd'[u].keys = sd[u].keys
  <2> SUFFICES ASSUME NEW u \in Tasks, task[u].step > 1
               PROVE  task'[u].step > 1 /\ sd'[u].keys = sd[u].keys
    OBVIOUS
  <2>1. CASE u # t
    BY <1>1, <2>1
  <2>2. CASE u = t
    BY <1>1, <1>3, <2>2
  <2> QED
    BY <2>1, <2>2
<1> HIDE DEF t, n, done, key
<1>7. KeysAreMinted'
  <2>1. sd'[t].keys.authorized <= minted
    BY <1>1, <1>3 DEF OwnInv, KeysAreMinted
  <2> QED
    BY <1>1, <2>1 DEF OwnInv, KeysAreMinted
<1>8. MintedIsFresh'
  <2> SUFFICES ASSUME NEW u \in Rotations, task'[u].step = 1 PROVE sd'[u].keys = NoKeys
    BY <1>1 DEF MintedIsFresh
  <2>1. CASE u # t
    BY <1>1, <1>2, <2>1 DEF OwnInv, MintedIsFresh
  <2>2. CASE u = t
    BY <1>1, <1>5, <2>2
  <2> QED
    BY <2>1, <2>2
<1>9. KeyIsOwn'
  <2> SUFFICES ASSUME NEW u \in Rekeying, task'[u].step \in {2, 3}
               PROVE  /\ issuer.keys.authorized # sd'[u].keys.authorized
                      /\ \A v \in Tasks \ {u} :
                            sd'[v].keys.authorized # sd'[u].keys.authorized
                      /\ \A i \in DOMAIN log :
                            /\ log[i].kind # "deactivation"
                            /\ log[i].keys.authorized = sd'[u].keys.authorized
                            => log[i].by = u
    BY <1>1 DEF KeyIsOwn
  <2>0. u \in Tasks /\ u \in Rotations
    BY <1>2
  <2>1. CASE u = t /\ sd'[t].keys.authorized = key /\ Unused(key)
    BY <1>1, <2>1 DEF Unused
  <2>2. CASE task[u].step \in {2, 3} /\ sd'[u].keys = sd[u].keys
    <3>1. /\ issuer.keys.authorized # sd[u].keys.authorized
          /\ \A v \in Tasks \ {u} : sd[v].keys.authorized # sd[u].keys.authorized
          /\ \A i \in DOMAIN log :
                /\ log[i].kind # "deactivation"
                /\ log[i].keys.authorized = sd[u].keys.authorized
                => log[i].by = u
      BY <2>2 DEF OwnInv, KeyIsOwn
    <3>2. t # u => sd'[t].keys.authorized # sd[u].keys.authorized
      BY <1>1, <1>3, <2>0, <3>1 DEF Unused
    <3> QED
      BY <1>1, <2>2, <3>1, <3>2
  <2>3. CASE u # t
    BY <1>1, <2>0, <2>2, <2>3
  <2>4. CASE u = t
    <3>1. CASE n = 1
      BY <1>1, <1>3, <2>0, <2>1, <2>4, <3>1
    <3>2. CASE n # 1
      <4>1. task[u].step \in {2, 3} \/ task[u].step = 1
        BY <1>1, <2>4, <3>2
      <4> QED
        BY <1>1, <1>6, <2>0, <2>2, <2>4, <3>2, <4>1
    <3> QED
      BY <3>1, <3>2
  <2> QED
    BY <2>3, <2>4
<1>10. RotationsPublish'
  <2>1. ASSUME NEW u \in Rekeying, task'[u].step > 3 PROVE HasEntry(u)
    <3>1. CASE u # t
      BY <1>1, <1>2, <2>1, <3>1 DEF OwnInv, RotationsPublish
    <3>2. CASE u = t
      <4>1. n > 3 \/ (n = 3 /\ done)
        BY <1>1, <2>1, <3>2
      <4> QED
        BY <1>1, <1>4, <3>2, <4>1, <2>1 DEF OwnInv, RotationsPublish
    <3> QED
      BY <3>1, <3>2
  <2> QED
    BY <1>1, <2>1 DEF RotationsPublish, HasEntry
<1>11. SettledAreOver'
  <2>1. \A u \in Tasks : task[u].state \in Terminal => task'[u] = task[u]
    BY <1>1 DEF Terminal
  <2> QED
    BY <1>1, <2>1 DEF OwnInv, SettledAreOver
<1>12. RowIsInForce'
  <2>1. \A u \in Tasks : InForceBy(u) => InForceBy(u)'
    BY <1>1, <1>6 DEF InForceBy
  <2>2. \/ \E i \in DOMAIN log : log[i].keys = issuer.keys
        \/ \E u \in Rotations \ Rekeying : InForceBy(u)'
    BY <1>2, <2>1 DEF OwnInv, RowIsInForce
  <2>3. ASSUME NEW u \in Rotations, task'[u].state = "completed"
        PROVE  task'[u].step = 4 /\ \E v \in Rotations \ settled[u] : InForceBy(v)'
    <3>1. CASE u # t
      <4>1. task[u].step = 4 /\ task'[u] = task[u]
        BY <1>1, <1>2, <2>3, <3>1 DEF OwnInv, RowIsInForce
      <4>2. PICK v \in Rotations \ settled[u] : InForceBy(v)
        BY <2>3, <4>1 DEF OwnInv, RowIsInForce
      <4> QED
        BY <1>2, <2>1, <4>1, <4>2
    <3>2. CASE u = t
      <4>1. done /\ n = 4 /\ UNCHANGED sd /\ task'[t].step = 4
        BY <1>1, <1>2, <2>3, <3>2
      <4>2. t \notin settled[t]
        BY <1>1 DEF OwnInv, SettledAreOver, Terminal
      <4>3. task'[u].step = 4 /\ issuer' = issuer /\ issuer.keys = sd'[u].keys
        BY <1>1, <1>4, <2>3, <3>2, <4>1
      <4> QED
        BY <2>3, <3>2, <4>2, <4>3 DEF InForceBy
    <3> QED
      BY <3>1, <3>2
  <2> QED
    BY <1>1, <2>2, <2>3 DEF RowIsInForce
<1> QED
  BY <1>7, <1>8, <1>9, <1>10, <1>11, <1>12 DEF OwnInv

(* Requests, claims, crashes and the clock touch no keys.                  *)
LEMMA QuietKeepsOwn == ASSUME LogInv, QueueInv, OwnInv, Quiet PROVE OwnInv'
<1>1. /\ UNCHANGED <<issuer, log, sd, minted>>
      /\ \A u \in Tasks : task'[u].step = task[u].step
      /\ \A u \in Tasks : task'[u].state = "completed" => task[u].state = "completed"
      /\ \A u \in Tasks : task[u].state \in Terminal => task'[u].state \in Terminal
      /\ \A w \in Workers :
            worker'[w].pc = "ran" => worker'[w] = worker[w] /\ result'[w] = result[w]
  BY DEF Quiet, Live, Terminal
<1>2. Rekeying \subseteq Rotations /\ Rotations \subseteq Tasks
  BY KeyAssumption DEF Rekeying
<1>3. KeysAreMinted' /\ KeyIsOwn'
  BY <1>1, <1>2 DEF OwnInv, KeysAreMinted, KeyIsOwn
<1>4. MintedIsFresh'
  <2>1. \A u \in Rotations : task'[u].step = 1 => sd'[u].keys = NoKeys
    BY <1>1, <1>2 DEF OwnInv, MintedIsFresh
  <2>2. \A k : Unused(k) => Unused(k)'
    BY <1>1 DEF Unused
  <2> QED
    BY <1>1, <2>1, <2>2 DEF OwnInv, MintedIsFresh
<1>5. RotationsPublish'
  BY <1>1, <1>2 DEF OwnInv, RotationsPublish, HasEntry
<1>6. SettledAreOver'
  <2> SUFFICES ASSUME NEW u \in Tasks, NEW v \in Tasks, v \in settled'[u]
               PROVE  task'[v].state \in Terminal
    BY DEF SettledAreOver
  <2>1. task[v].state \in Terminal
    BY DEF Quiet, OwnInv, SettledAreOver
  <2> QED
    BY <1>1, <2>1
<1>7. RowIsInForce'
  <2>1. \A u \in Tasks : InForceBy(u) => InForceBy(u)'
    BY <1>1 DEF InForceBy
  <2>2. \A u \in Tasks : task'[u].state = "completed" => settled'[u] = settled[u]
    BY DEF Quiet
  <2>3. \/ \E i \in DOMAIN log' : log'[i].keys = issuer'.keys
        \/ \E u \in Rotations \ Rekeying : InForceBy(u)'
    BY <1>1, <1>2, <2>1 DEF OwnInv, RowIsInForce
  <2>4. ASSUME NEW u \in Rotations, task'[u].state = "completed"
        PROVE  task'[u].step = 4 /\ \E v \in Rotations \ settled'[u] : InForceBy(v)'
    BY <1>1, <1>2, <2>1, <2>2, <2>4 DEF OwnInv, RowIsInForce
  <2> QED
    BY <2>3, <2>4 DEF RowIsInForce
<1> QED
  BY <1>3, <1>4, <1>5, <1>6, <1>7 DEF OwnInv

(* The second inductive invariant, with one dispatch loop and rotations    *)
(* that may overlap.                                                       *)
LEMMA OwnInvHolds == ASSUME OneWorker PROVE KeySpec => []OwnInv
<1>1. KeyInit => OwnInv
  <2> SUFFICES ASSUME KeyInit PROVE OwnInv
    OBVIOUS
  <2>1. /\ \A t \in Tasks : /\ task[t].step = 1 /\ task[t].state = "absent"
                            /\ sd[t].keys = NoKeys /\ settled[t] = {}
        /\ \A w \in Workers : worker[w].pc = "idle"
        /\ issuer.keys = FirstKeys /\ minted = 1
    BY DEF KeyInit, TaskInit, NewRow, IdleWorker, NoData
  <2>2. DOMAIN log = {1} /\ log[1].keys = FirstKeys
    BY DEF KeyInit
  <2>3. KeysAreMinted
    BY <2>1, <2>2 DEF KeysAreMinted, NoKeys, FirstKeys
  <2>4. Rekeying \subseteq Tasks /\ Rotations \subseteq Tasks
    BY KeyAssumption DEF Rekeying
  <2>5. MintedIsFresh /\ KeyIsOwn /\ RotationsPublish /\ SettledAreOver
    BY <2>1, <2>4 DEF MintedIsFresh, KeyIsOwn, RotationsPublish, SettledAreOver
  <2>6. RowIsInForce
    BY <2>1, <2>2, <2>4 DEF RowIsInForce
  <2> QED
    BY <2>3, <2>5, <2>6 DEF OwnInv
<1>2. LogInv /\ QueueInv /\ OwnInv /\ [KeyNext]_keyVars => OwnInv'
  BY OneWorker, SagaStepKeepsOwn, OutcomeKeepsOwn, QuietSteps, QuietKeepsOwn
<1> QED
  BY <1>1, <1>2, LogInvHolds, KeySagasRunOnTheQueue, QueueInvHolds, PTL DEF KeySpec

(* KeySagas!IssuerKeysArePublished: however rotations overlap, are retried *)
(* or crash, the keys of the issuer row are in some published version of   *)
(* its DID document, or those of a rotation that kept the Authorized key.  *)
THEOREM RowKeysArePublished ==
    ASSUME OneWorker PROVE KeySpec => []IssuerKeysArePublished
<1>1. OwnInv => IssuerKeysArePublished
  BY DEF OwnInv, RowIsInForce, InForceBy, IssuerKeysArePublished
<1> QED
  BY <1>1, OwnInvHolds, PTL

(* KeySagas!CompletedRotationIsInForce: a completed rotation of the        *)
(* Authorized key has its entry in the log, and a completed rotation is in *)
(* force until one replaces it that had not ended before it was submitted. *)
THEOREM CompletedRotationsHold ==
    ASSUME OneWorker PROVE KeySpec => []CompletedRotationIsInForce
<1>1. LogInv /\ OwnInv => CompletedRotationIsInForce
  <2> SUFFICES ASSUME LogInv, OwnInv, NEW t \in Rotations, task[t].state = "completed"
               PROVE  /\ t \in Rekeying =>
                            \E i \in DOMAIN log : log[i].by = t /\ log[i].keys = sd[t].keys
                      /\ \E u \in Rotations \ settled[t] : issuer.keys = sd[u].keys
    BY DEF CompletedRotationIsInForce
  <2>1. task[t].step = 4 /\ \E u \in Rotations \ settled[t] : InForceBy(u)
    BY DEF OwnInv, RowIsInForce
  <2>2. t \in Rekeying => HasEntry(t)
    BY <2>1 DEF OwnInv, RotationsPublish
  <2> QED
    BY <2>1, <2>2 DEF InForceBy, HasEntry, LogInv, EntriesOK
<1> QED
  BY <1>1, LogInvHolds, OwnInvHolds, PTL
=============================================================================
