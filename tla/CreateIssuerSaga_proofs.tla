----------------------- MODULE CreateIssuerSaga_proofs -----------------------
(***************************************************************************)
(* Proofs about the create_issuer saga, for any set of creations and any   *)
(* bound on what is minted, with one dispatch loop.                        *)
(***************************************************************************)
EXTENDS CreateIssuerSaga, OperationTasks_proofs

(***************************************************************************)
(* The saga runs on the queue.                                             *)
(***************************************************************************)

(* Whatever a step of the saga does, to the queue it is a step that ran    *)
(* and yields one of the three outcomes.                                   *)
LEMMA CreateStepRuns ==
    ASSUME NEW w \in Workers, RunCreateStep(w)
    PROVE  \E o \in Outcomes : RunStep(w, o)
  BY DEF RunCreateStep, AllocateDid, GenerateKeys, BuildInitialDidlog, PublishDidlog,
         PersistIssuer, CreateStatusListEntry, ProvisionStatusList, ProvisionForIssuer,
         StepFails, Ends, DoneOrLost, Returns, Outcomes

(* Every step of the saga is a step of the queue or leaves it alone.       *)
LEMMA CreateStepIsTaskStep ==
    [CreateNext]_<<taskVars, createVars>> => [TaskNext]_taskVars
<1>1. ASSUME NEW w \in Workers, ApplyCreateOutcome(w) PROVE ApplyOutcome(w)
  BY <1>1 DEF ApplyCreateOutcome, ApplyOutcome
<1>2. ASSUME NEW w \in Workers, CrashInCreate(w) PROVE Crash(w)
  BY <1>2 DEF CrashInCreate
<1> QED
  BY <1>1, <1>2, CreateStepRuns DEF CreateNext, TaskNext

(* The creations run on the queue, so that what is proved of TaskSpec is   *)
(* true of them: the types of the rows, CopyAgreesWithRow, the lifecycle.  *)
THEOREM CreationsRunOnTheQueue == CreateSpec => TaskSpec
<1>1. CreateInit => TaskInit
  BY DEF CreateInit
<1> QED
  BY <1>1, CreateStepIsTaskStep, PTL DEF CreateSpec, TaskSpec

(***************************************************************************)
(* The invariant.  publish_didlog and persist_issuer derive the genesis    *)
(* entry anew; it is the same because what it is derived from is final     *)
(* once the step that fixed it is behind the task.                         *)
(***************************************************************************)
GenesisOf(t) == [did |-> sd[t].did, keys |-> sd[t].keys, now |-> created[t]]

(* A DID belongs to one task.                                              *)
DidsOK ==
    /\ \A t \in Tasks : sd[t].did <= minted.dids
    /\ \A t, u \in Tasks : sd[t].did = sd[u].did /\ sd[t].did # 0 => t = u

(* Whatever is served was published by a task past the first three steps.  *)
RegistryOK ==
    \A i \in DOMAIN registry : registry[i] # NoLog =>
        \E t \in Tasks : /\ sd[t].did = i /\ registry[i] = GenesisOf(t)
                         /\ task[t].step >= 4

Served(t) ==
    /\ sd[t].did # 0 /\ sd[t].keys # 0
    /\ registry[sd[t].did] = GenesisOf(t)

(* What is behind a task has happened.                                     *)
StepsOK ==
    \A t \in Tasks :
        /\ sd[t].published => task[t].step > 4
        /\ task[t].step > 4 => Served(t)
        /\ task[t].step > 5 => HasRow(t)
        /\ task[t].state = "completed" => issuers[t].list # 0

RowsOK ==
    \A t \in Tasks : HasRow(t) =>
        /\ issuers[t].genesis = GenesisOf(t) /\ issuers[t].keys = sd[t].keys
        /\ task[t].step >= 5

EntriesOK ==
    \A t \in Tasks : sd[t].entry # 0 =>
        sd[t].entry \in DOMAIN entryOf /\ entryOf[sd[t].entry] = t

ListsOK ==
    \A t \in Tasks : issuers[t].list # 0 =>
        /\ issuers[t].list \in DOMAIN lists /\ task[t].step = 7
        /\ lists[issuers[t].list] = [issuer |-> t, entry |-> sd[t].entry]
        /\ sd[t].entry # 0

(* What a step that has run wants written is new only in the field that is *)
(* the business of the step, and a DID or an entry in it is its task's.    *)
ResultsOK ==
    \A w \in Workers : worker[w].pc = "ran" =>
        LET t == worker[w].task
            n == worker[w].step
            d == result[w]
        IN  /\ d.did # sd[t].did => n = 1
            /\ d.keys # sd[t].keys => n = 2
            /\ d.published => sd[t].published \/ n = 4
            /\ d.entry # sd[t].entry => n = 6
            /\ d.did <= minted.dids
            /\ d.did # 0 => \A u \in Tasks \ {t} : sd[u].did # d.did
            /\ d.entry # 0 => d.entry \in DOMAIN entryOf /\ entryOf[d.entry] = t
            /\ worker[w].outcome = "done" =>
                  /\ n = 4 => Served(t)
                  /\ n = 5 => HasRow(t)
                  /\ n = 7 => issuers[t].list # 0

CreateInv ==
    /\ CreateTypeOK /\ DidsOK /\ RegistryOK /\ StepsOK /\ RowsOK
    /\ EntriesOK /\ ListsOK /\ ResultsOK

-----------------------------------------------------------------------------
(* What a step of the saga may do to each variable, and what it has done   *)
(* when it ends in "done".                                                 *)
MintedEffect == minted' \in [dids : Ids, keys : Ids] /\ minted.dids <= minted'.dids

RegistryEffect(w) ==
    LET t == worker[w].task IN
    \/ UNCHANGED registry
    \/ /\ worker[w].step = 4 /\ sd[t].did # 0 /\ sd[t].keys # 0
       /\ registry' = [registry EXCEPT ![sd[t].did] = GenesisOf(t)]

EntryEffect(w) ==
    \/ UNCHANGED entryOf
    \/ entryOf' = Append(entryOf, worker[w].task) /\ Len(entryOf) < MaxMinted

Row0(t) == [genesis |-> GenesisOf(t), keys |-> sd[t].keys, list |-> 0]

NewList(t) == [issuer |-> t, entry |-> sd[t].entry]

IssuersEffect(w) ==
    LET t == worker[w].task IN
    \/ UNCHANGED issuers
    \/ /\ worker[w].step = 5 /\ ~HasRow(t) /\ sd[t].did # 0
       /\ issuers' = [issuers EXCEPT ![t] = Row0(t)]
    \/ /\ worker[w].step = 7 /\ issuers[t].list = 0 /\ sd[t].entry # 0
       /\ issuers' = [issuers EXCEPT ![t].list = Len(lists) + 1]
       /\ lists' = Append(lists, NewList(t))

ListsEffect(w) ==
    \/ UNCHANGED lists
    \/ lists' = Append(lists, NewList(worker[w].task)) /\ Len(lists) < MaxMinted

DataEffect(w, d) ==
    LET t == worker[w].task
        n == worker[w].step
    IN  /\ \/ d.did = sd[t].did
           \/ n = 1 /\ d.did = minted.dids + 1 /\ minted'.dids = d.did
        /\ d.keys = sd[t].keys \/ n = 2
        /\ d.published => sd[t].published \/ n = 4
        /\ \/ d.entry = sd[t].entry
           \/ n = 6 /\ d.entry = Len(entryOf) + 1 /\ entryOf' = Append(entryOf, t)

DoneOnlyIf(w) ==
    LET t == worker[w].task
        n == worker[w].step
    IN  /\ n = 4 => \/ sd[t].published
                    \/ /\ sd[t].did # 0 /\ sd[t].keys # 0
                       /\ registry'[sd[t].did] = GenesisOf(t)
        /\ n = 5 => issuers'[t] # NoIssuer
        /\ n = 7 => issuers'[t].list # 0

CreateEffect(w, o, d) ==
    /\ o \in Outcomes /\ d \in Data /\ Returns(w, o, d)
    /\ MintedEffect /\ RegistryEffect(w) /\ EntryEffect(w)
    /\ IssuersEffect(w) /\ ListsEffect(w) /\ DataEffect(w, d)
    /\ o = "done" => DoneOnlyIf(w)

HasEffect(w) == \E o, d : CreateEffect(w, o, d)

(* What the state holds of the task a worker runs is well formed.          *)
LEMMA MineTyped ==
    ASSUME CreateTypeOK, NEW w \in Workers
    PROVE  /\ worker[w] \in WorkerState /\ worker[w].task \in Tasks
           /\ Mine(w) \in Data /\ Mine(w) = sd[worker[w].task]
           /\ minted.dids \in Ids /\ minted.keys \in Ids /\ MaxMinted \in Nat
           /\ issuers[worker[w].task] \in [genesis : Genesis, keys : Ids, list : Ids]
           /\ GenesisOf(worker[w].task) \in Genesis
           /\ BuildLogEntry(w) = GenesisOf(worker[w].task)
           /\ Len(entryOf) \in Nat /\ Len(lists) \in Nat
<1>1. worker[w] \in WorkerState /\ worker[w].task \in Tasks
  BY DEF CreateTypeOK, TaskTypeOK, WorkerState
<1>2. Mine(w) \in Data /\ Mine(w) = sd[worker[w].task]
  BY <1>1 DEF CreateTypeOK, Mine
<1>3. GenesisOf(worker[w].task) \in Genesis
  BY <1>1, <1>2 DEF GenesisOf, Genesis, Data, CreateTypeOK, TaskTypeOK
<1>4. BuildLogEntry(w) = GenesisOf(worker[w].task)
  BY DEF BuildLogEntry, GenesisOf, Mine, EntryNow
<1> QED
  BY <1>1, <1>2, <1>3, <1>4, CreateAssumption DEF CreateTypeOK

(* A step that changes nothing but its outcome.                            *)
LEMMA EndsEffect ==
    ASSUME CreateTypeOK, NEW w \in Workers, NEW o \in Outcomes, Ends(w, o),
           o = "done" => DoneOnlyIf(w)
    PROVE  HasEffect(w)
<1>1. MintedEffect
  BY CreateAssumption DEF Ends, MintedEffect, CreateTypeOK, Ids
<1>2. DataEffect(w, Mine(w))
  BY MineTyped DEF DataEffect
<1>3. CreateEffect(w, o, Mine(w))
  BY <1>1, <1>2, MineTyped
  DEF Ends, CreateEffect, RegistryEffect, EntryEffect, IssuersEffect, ListsEffect
<1> QED
  BY <1>3 DEF HasEffect

(* allocate_did and generate_keys mint and touch nothing else.             *)
LEMMA MintingEffect ==
    ASSUME CreateTypeOK, NEW w \in Workers, AllocateDid(w) \/ GenerateKeys(w)
    PROVE  HasEffect(w)
<1>1. worker[w].step \in {1, 2}
  BY DEF AllocateDid, GenerateKeys, At
<1>2. DoneOnlyIf(w)
  BY <1>1 DEF DoneOnlyIf
<1>3. CASE Ends(w, "done")
  BY <1>2, <1>3, EndsEffect DEF Outcomes
<1>4. CASE /\ AllocateDid(w) /\ minted.dids < MaxMinted
           /\ minted' = [minted EXCEPT !.dids = @ + 1]
           /\ DoneOrLost(w, [Mine(w) EXCEPT !.did = minted.dids + 1])
           /\ UNCHANGED <<registry, entryOf, issuers, lists>>
  <2> DEFINE d == [Mine(w) EXCEPT !.did = minted.dids + 1]
  <2>1. PICK o \in Outcomes : Returns(w, o, d)
    BY <1>4 DEF DoneOrLost
  <2>2. minted.dids + 1 \in Ids /\ minted.dids <= minted.dids + 1
    BY <1>4, MineTyped DEF Ids
  <2>3. /\ d \in Data /\ d.did = minted.dids + 1 /\ d.keys = sd[worker[w].task].keys
        /\ d.published = sd[worker[w].task].published /\ d.entry = sd[worker[w].task].entry
    BY <2>2, MineTyped DEF Data
  <2>4. MintedEffect /\ minted'.dids = minted.dids + 1
    BY <1>4, <2>2 DEF MintedEffect, CreateTypeOK
  <2>5. worker[w].step = 1
    BY <1>4 DEF AllocateDid, At
  <2> HIDE DEF d
  <2>6. CreateEffect(w, o, d)
    BY <1>2, <1>4, <2>1, <2>3, <2>4, <2>5
    DEF CreateEffect, RegistryEffect, EntryEffect, IssuersEffect, ListsEffect, DataEffect
  <2> QED
    BY <2>6 DEF HasEffect
<1>5. CASE /\ GenerateKeys(w) /\ minted.keys < MaxMinted
           /\ minted' = [minted EXCEPT !.keys = @ + 1]
           /\ DoneOrLost(w, [Mine(w) EXCEPT !.keys = minted.keys + 1])
           /\ UNCHANGED <<registry, entryOf, issuers, lists>>
  <2> DEFINE d == [Mine(w) EXCEPT !.keys = minted.keys + 1]
  <2>1. PICK o \in Outcomes : Returns(w, o, d)
    BY <1>5 DEF DoneOrLost
  <2>2. minted.keys + 1 \in Ids
    BY <1>5, MineTyped DEF Ids
  <2>3. /\ d \in Data /\ d.did = sd[worker[w].task].did
        /\ d.published = sd[worker[w].task].published /\ d.entry = sd[worker[w].task].entry
    BY <2>2, MineTyped DEF Data
  <2>4. MintedEffect
    <3>1. minted' \in [dids : Ids, keys : Ids] /\ minted'.dids = minted.dids
      BY <1>5, <2>2 DEF CreateTypeOK
    <3> QED
      BY <3>1, MineTyped DEF MintedEffect, Ids
  <2>5. worker[w].step = 2
    BY <1>5 DEF GenerateKeys, At
  <2> HIDE DEF d
  <2>6. CreateEffect(w, o, d)
    BY <1>2, <1>5, <2>1, <2>3, <2>4, <2>5
    DEF CreateEffect, RegistryEffect, EntryEffect, IssuersEffect, ListsEffect, DataEffect
  <2> QED
    BY <2>6 DEF HasEffect
<1> QED
  BY <1>3, <1>4, <1>5 DEF AllocateDid, GenerateKeys

(* publish_didlog publishes the genesis entry of the task, or has done so. *)
LEMMA PublishEffect ==
    ASSUME CreateTypeOK, NEW w \in Workers, PublishDidlog(w) PROVE HasEffect(w)
<1> DEFINE t == worker[w].task
<1>1. worker[w].step = 4 /\ t \in Tasks
  BY MineTyped DEF PublishDidlog, At
<1>2. CASE Mine(w).published /\ Ends(w, "done")
  <2>1. DoneOnlyIf(w)
    BY <1>1, <1>2, MineTyped DEF DoneOnlyIf
  <2> QED
    BY <1>2, <2>1, EndsEffect DEF Outcomes
<1>3. CASE Ends(w, "terminal")
  BY <1>3, EndsEffect DEF Outcomes
<1>4. CASE /\ ~Mine(w).published /\ ~MissingState(w)
           /\ registry' = [registry EXCEPT ![Mine(w).did] = BuildLogEntry(w)]
           /\ DoneOrLost(w, [Mine(w) EXCEPT !.published = TRUE])
           /\ UNCHANGED <<minted, entryOf, issuers, lists>>
  <2> DEFINE d == [Mine(w) EXCEPT !.published = TRUE]
  <2>1. PICK o \in Outcomes : Returns(w, o, d)
    BY <1>4 DEF DoneOrLost
  <2>2. /\ d \in Data /\ d.did = sd[t].did /\ d.keys = sd[t].keys /\ d.entry = sd[t].entry
    BY MineTyped DEF Data
  <2>3. /\ sd[t].did # 0 /\ sd[t].keys # 0
        /\ registry' = [registry EXCEPT ![sd[t].did] = GenesisOf(t)]
    BY <1>4, MineTyped DEF MissingState
  <2>4. sd[t].did \in 1 .. MaxMinted
    BY <2>3, MineTyped DEF Data, Ids
  <2>5. registry'[sd[t].did] = GenesisOf(t)
    BY <2>3, <2>4 DEF CreateTypeOK
  <2>6. MintedEffect
    BY <1>4, MineTyped DEF MintedEffect, CreateTypeOK, Ids
  <2> HIDE DEF d
  <2>7. RegistryEffect(w) /\ DoneOnlyIf(w)
    BY <1>1, <2>3, <2>5 DEF RegistryEffect, DoneOnlyIf
  <2>8. DataEffect(w, d)
    BY <1>1, <2>2 DEF DataEffect
  <2>9. CreateEffect(w, o, d)
    BY <1>4, <2>1, <2>2, <2>6, <2>7, <2>8
    DEF CreateEffect, EntryEffect, IssuersEffect, ListsEffect
  <2> QED
    BY <2>9 DEF HasEffect
<1> QED
  BY <1>2, <1>3, <1>4 DEF PublishDidlog

(* persist_issuer inserts the row of the task, or finds it.                *)
LEMMA PersistEffect ==
    ASSUME CreateTypeOK, NEW w \in Workers, PersistIssuer(w) PROVE HasEffect(w)
<1> DEFINE t == worker[w].task
<1>1. worker[w].step = 5 /\ t \in Tasks
  BY MineTyped DEF PersistIssuer, At
<1>2. CASE HasRow(t) /\ Ends(w, "done")
  <2>1. DoneOnlyIf(w)
    BY <1>1, <1>2 DEF DoneOnlyIf, Ends, HasRow
  <2> QED
    BY <1>2, <2>1, EndsEffect DEF Outcomes
<1>3. CASE Ends(w, "terminal")
  BY <1>3, EndsEffect DEF Outcomes
<1>4. CASE /\ ~HasRow(t) /\ ~MissingState(w)
           /\ issuers' = [issuers EXCEPT ![t] = [genesis |-> BuildLogEntry(w),
                                                 keys |-> Mine(w).keys, list |-> 0]]
           /\ DoneOrLost(w, Mine(w))
           /\ UNCHANGED <<registry, minted, entryOf, lists>>
  <2>1. PICK o \in Outcomes : Returns(w, o, Mine(w))
    BY <1>4 DEF DoneOrLost
  <2>2. issuers' = [issuers EXCEPT ![t] = Row0(t)] /\ sd[t].did # 0
    BY <1>4, MineTyped DEF Row0, MissingState
  <2>3. issuers'[t] # NoIssuer
    BY <1>1, <2>2 DEF CreateTypeOK, Row0, NoIssuer, GenesisOf, NoLog
  <2>4. MintedEffect
    BY <1>4, MineTyped DEF MintedEffect, CreateTypeOK, Ids
  <2>5. IssuersEffect(w) /\ DoneOnlyIf(w)
    <3>1. DoneOnlyIf(w)
      BY <1>1, <2>3 DEF DoneOnlyIf
    <3>2. ~HasRow(t)
      BY <1>4
    <3> QED
      BY <1>1, <2>2, <3>1, <3>2 DEF IssuersEffect
  <2>6. DataEffect(w, Mine(w))
    BY MineTyped DEF DataEffect
  <2>7. CreateEffect(w, o, Mine(w))
    BY <1>4, <2>1, <2>4, <2>5, <2>6, MineTyped
    DEF CreateEffect, RegistryEffect, EntryEffect, ListsEffect
  <2> QED
    BY <2>7 DEF HasEffect
<1> QED
  BY <1>2, <1>3, <1>4 DEF PersistIssuer

(* create_status_list_entry mints an entry for the task.                   *)
LEMMA EntryStepEffect ==
    ASSUME CreateTypeOK, NEW w \in Workers, CreateStatusListEntry(w) PROVE HasEffect(w)
<1> DEFINE t == worker[w].task
<1>1. worker[w].step = 6 /\ t \in Tasks
  BY MineTyped DEF CreateStatusListEntry, At
<1>2. DoneOnlyIf(w)
  BY <1>1 DEF DoneOnlyIf
<1>3. CASE Ends(w, "done")
  BY <1>2, <1>3, EndsEffect DEF Outcomes
<1>4. CASE /\ Len(entryOf) < MaxMinted /\ entryOf' = Append(entryOf, t)
           /\ DoneOrLost(w, [Mine(w) EXCEPT !.entry = Len(entryOf) + 1])
           /\ UNCHANGED <<registry, minted, issuers, lists>>
  <2> DEFINE d == [Mine(w) EXCEPT !.entry = Len(entryOf) + 1]
  <2>1. PICK o \in Outcomes : Returns(w, o, d)
    BY <1>4 DEF DoneOrLost
  <2>2. Len(entryOf) + 1 \in Ids
    BY <1>4, MineTyped DEF Ids
  <2>3. /\ d \in Data /\ d.did = sd[t].did /\ d.keys = sd[t].keys
        /\ d.published = sd[t].published /\ d.entry = Len(entryOf) + 1
    BY <2>2, MineTyped DEF Data
  <2>4. MintedEffect
    BY <1>4, MineTyped DEF MintedEffect, CreateTypeOK, Ids
  <2> HIDE DEF d
  <2>5. CreateEffect(w, o, d)
    BY <1>1, <1>2, <1>4, <2>1, <2>3, <2>4
    DEF CreateEffect, RegistryEffect, EntryEffect, IssuersEffect, ListsEffect, DataEffect
  <2> QED
    BY <2>5 DEF HasEffect
<1> QED
  BY <1>3, <1>4 DEF CreateStatusListEntry

(* provision_status_list inserts the list and points the row at it; one of *)
(* the two statements may be all that happens.                             *)
LEMMA ProvisionEffect ==
    ASSUME CreateTypeOK, NEW w \in Workers, ProvisionStatusList(w) PROVE HasEffect(w)
<1> DEFINE t == worker[w].task
<1>1. worker[w].step = 7 /\ t \in Tasks
  BY MineTyped DEF ProvisionStatusList, At
<1>2. CASE issuers[t].list # 0 /\ Ends(w, "done")
  <2>1. DoneOnlyIf(w)
    BY <1>1, <1>2 DEF DoneOnlyIf, Ends
  <2> QED
    BY <1>2, <2>1, EndsEffect DEF Outcomes
<1>3. CASE Ends(w, "terminal")
  BY <1>3, EndsEffect DEF Outcomes
<1>4. CASE /\ issuers[t].list = 0 /\ Mine(w).entry # 0 /\ Len(lists) < MaxMinted
           /\ ProvisionForIssuer(w)
           /\ UNCHANGED <<registry, minted, entryOf>>
  <2>1. MintedEffect
    BY <1>4, MineTyped DEF MintedEffect, CreateTypeOK, Ids
  <2>2. lists' = Append(lists, NewList(t)) /\ sd[t].entry # 0
    BY <1>4, MineTyped DEF ProvisionForIssuer, NewList
  <2>3. CASE /\ issuers' = [issuers EXCEPT ![t].list = Len(lists) + 1]
             /\ DoneOrLost(w, Mine(w))
    <3>1. PICK o \in Outcomes : Returns(w, o, Mine(w))
      BY <2>3 DEF DoneOrLost
    <3>2. issuers'[t].list # 0
      BY <1>1, <2>3, MineTyped DEF CreateTypeOK
    <3>3. CreateEffect(w, o, Mine(w))
      BY <1>1, <1>4, <2>1, <2>2, <2>3, <3>1, <3>2, MineTyped
      DEF CreateEffect, RegistryEffect, EntryEffect, IssuersEffect, ListsEffect,
          DataEffect,
          DoneOnlyIf
    <3> QED
      BY <3>3 DEF HasEffect
  <2>4. CASE Returns(w, "retry", Mine(w)) /\ UNCHANGED issuers
    <3>1. CreateEffect(w, "retry", Mine(w))
      BY <1>1, <1>4, <2>1, <2>2, <2>4, MineTyped
      DEF CreateEffect, RegistryEffect, EntryEffect, IssuersEffect, ListsEffect,
          DataEffect,
          Outcomes
    <3> QED
      BY <3>1 DEF HasEffect
  <2> QED
    BY <1>4, <2>3, <2>4 DEF ProvisionForIssuer
<1> QED
  BY <1>2, <1>3, <1>4 DEF ProvisionStatusList

(* Every step has one of the effects above.                                *)
LEMMA CreateStepHasEffect ==
    ASSUME CreateTypeOK, NEW w \in Workers, RunCreateStep(w) PROVE HasEffect(w)
<1>1. CASE BuildInitialDidlog(w)
  <2>1. DoneOnlyIf(w)
    BY <1>1 DEF DoneOnlyIf, BuildInitialDidlog, At
  <2> QED
    BY <1>1, <2>1, EndsEffect DEF BuildInitialDidlog, Outcomes
<1>2. CASE StepFails(w)
  BY <1>2, EndsEffect DEF StepFails, Outcomes
<1> QED
  BY <1>1, <1>2, MintingEffect, PublishEffect, PersistEffect, EntryStepEffect,
     ProvisionEffect DEF RunCreateStep

-----------------------------------------------------------------------------
(* Appending leaves the elements of a sequence where they are.             *)
LEMMA SeqGrows ==
    ASSUME NEW S, NEW q \in Seq(S), NEW e \in S
    PROVE  /\ Append(q, e) \in Seq(S) /\ Len(q) \in Nat
           /\ Len(Append(q, e)) = Len(q) + 1
           /\ DOMAIN q = 1 .. Len(q) /\ DOMAIN Append(q, e) = 1 .. Len(q) + 1
           /\ DOMAIN q \subseteq DOMAIN Append(q, e)
           /\ \A i \in DOMAIN q : Append(q, e)[i] = q[i]
           /\ Append(q, e)[Len(q) + 1] = e /\ Len(q) + 1 \in DOMAIN Append(q, e)
  OBVIOUS

(* The entries minted and the lists inserted stay what they are.           *)
LEMMA SequencesKept ==
    ASSUME CreateTypeOK, NEW w \in Workers, EntryEffect(w), ListsEffect(w)
    PROVE  /\ entryOf' \in Seq(Tasks) /\ Len(entryOf') <= MaxMinted
           /\ DOMAIN entryOf \subseteq DOMAIN entryOf'
           /\ \A i \in DOMAIN entryOf : entryOf'[i] = entryOf[i]
           /\ lists' \in Seq([issuer : Tasks, entry : Ids]) /\ Len(lists') <= MaxMinted
           /\ DOMAIN lists \subseteq DOMAIN lists'
           /\ \A i \in DOMAIN lists : lists'[i] = lists[i]
<1>1. worker[w].task \in Tasks /\ NewList(worker[w].task) \in [issuer : Tasks, entry : Ids]
  BY MineTyped DEF NewList, Data
<1>2. /\ entryOf' \in Seq(Tasks) /\ Len(entryOf') <= MaxMinted
      /\ DOMAIN entryOf \subseteq DOMAIN entryOf'
      /\ \A i \in DOMAIN entryOf : entryOf'[i] = entryOf[i]
  <2>1. CASE UNCHANGED entryOf
    BY <2>1 DEF CreateTypeOK
  <2>2. CASE entryOf' = Append(entryOf, worker[w].task) /\ Len(entryOf) < MaxMinted
    BY <1>1, <2>2, SeqGrows, CreateAssumption DEF CreateTypeOK
  <2> QED
    BY <2>1, <2>2 DEF EntryEffect
<1>3. /\ lists' \in Seq([issuer : Tasks, entry : Ids]) /\ Len(lists') <= MaxMinted
      /\ DOMAIN lists \subseteq DOMAIN lists'
      /\ \A i \in DOMAIN lists : lists'[i] = lists[i]
  <2>1. CASE UNCHANGED lists
    BY <2>1 DEF CreateTypeOK
  <2>2. CASE /\ lists' = Append(lists, NewList(worker[w].task))
             /\ Len(lists) < MaxMinted
    BY <1>1, <2>2, SeqGrows, CreateAssumption DEF CreateTypeOK
  <2> QED
    BY <2>1, <2>2 DEF ListsEffect
<1> QED
  BY <1>2, <1>3

(* What is served of a task stays served: a PUT replaces the log of the    *)
(* task that makes it, by the same log.                                    *)
LEMMA RegistryKept ==
    ASSUME CreateTypeOK, DidsOK, RegistryOK, NEW w \in Workers, RegistryEffect(w)
    PROVE  /\ registry' \in [1 .. MaxMinted -> Genesis]
           /\ \A i \in 1 .. MaxMinted : registry[i] # NoLog => registry'[i] = registry[i]
           /\ \A i \in 1 .. MaxMinted : registry'[i] # registry[i] =>
                 /\ i = sd[worker[w].task].did /\ worker[w].step = 4
                 /\ registry'[i] = GenesisOf(worker[w].task)
<1> DEFINE t == worker[w].task
<1>1. CASE UNCHANGED registry
  BY <1>1 DEF CreateTypeOK
<1>2. CASE /\ worker[w].step = 4 /\ sd[t].did # 0
           /\ registry' = [registry EXCEPT ![sd[t].did] = GenesisOf(t)]
  <2>1. t \in Tasks /\ GenesisOf(t) \in Genesis
    BY MineTyped
  <2>2. /\ registry' \in [1 .. MaxMinted -> Genesis]
        /\ \A i \in 1 .. MaxMinted :
              registry'[i] = IF i = sd[t].did THEN GenesisOf(t) ELSE registry[i]
    BY <1>2, <2>1 DEF CreateTypeOK
  <2>3. ASSUME NEW i \in 1 .. MaxMinted, registry[i] # NoLog, i = sd[t].did
        PROVE  registry[i] = GenesisOf(t)
    <3>1. PICK u \in Tasks : sd[u].did = i /\ registry[i] = GenesisOf(u)
      BY <2>3 DEF RegistryOK, CreateTypeOK
    <3>2. u = t
      BY <1>2, <2>1, <2>3, <3>1 DEF DidsOK
    <3> QED
      BY <3>1, <3>2
  <2> QED
    BY <1>2, <2>2, <2>3
<1> QED
  BY <1>1, <1>2 DEF RegistryEffect

(* A row once inserted keeps its keys and DID, and a list its pointer.     *)
LEMMA IssuersKept ==
    ASSUME CreateTypeOK, NEW w \in Workers, IssuersEffect(w), ListsEffect(w)
    PROVE  /\ issuers' \in [Tasks -> [genesis : Genesis, keys : Ids, list : Ids]]
           /\ \A u \in Tasks : u # worker[w].task => issuers'[u] = issuers[u]
           /\ LET t == worker[w].task
              IN  \/ issuers'[t] = issuers[t]
                  \/ /\ worker[w].step = 5 /\ issuers'[t] = Row0(t)
                     /\ issuers[t] = NoIssuer /\ sd[t].did # 0
                  \/ /\ worker[w].step = 7 /\ issuers[t].list = 0 /\ sd[t].entry # 0
                     /\ issuers'[t].genesis = issuers[t].genesis
                     /\ issuers'[t].keys = issuers[t].keys
                     /\ issuers'[t].list # 0 /\ issuers'[t].list \in DOMAIN lists'
                     /\ lists'[issuers'[t].list] = NewList(t)
<1> DEFINE t == worker[w].task
           Rows == [genesis : Genesis, keys : Ids, list : Ids]
<1>1. t \in Tasks /\ issuers[t] \in Rows /\ sd[t] \in Data /\ GenesisOf(t) \in Genesis
  BY MineTyped
<1>2. CASE UNCHANGED issuers
  BY <1>2 DEF CreateTypeOK
<1>3. CASE /\ worker[w].step = 5 /\ ~HasRow(t) /\ sd[t].did # 0
           /\ issuers' = [issuers EXCEPT ![t] = Row0(t)]
  <2>1. Row0(t) \in Rows
    BY <1>1, MineTyped DEF Row0, Data, Ids
  <2> QED
    BY <1>1, <1>3, <2>1 DEF CreateTypeOK, HasRow
<1>4. CASE /\ worker[w].step = 7 /\ issuers[t].list = 0 /\ sd[t].entry # 0
           /\ issuers' = [issuers EXCEPT ![t].list = Len(lists) + 1]
           /\ lists' = Append(lists, NewList(t))
  <2>1. NewList(t) \in [issuer : Tasks, entry : Ids]
    BY <1>1 DEF NewList, Data
  <2>2. /\ Len(lists) + 1 \in DOMAIN lists' /\ lists'[Len(lists) + 1] = NewList(t)
        /\ Len(lists) \in Nat /\ Len(lists') = Len(lists) + 1
    BY <1>4, <2>1, SeqGrows DEF CreateTypeOK
  <2>3. Len(lists') <= MaxMinted
    <3>1. CASE UNCHANGED lists
      BY <3>1 DEF CreateTypeOK
    <3>2. CASE Len(lists) < MaxMinted
      BY <2>2, <3>2, CreateAssumption
    <3> QED
      BY <3>1, <3>2 DEF ListsEffect
  <2>4. Len(lists) + 1 \in Ids /\ Len(lists) + 1 # 0
    BY <2>2, <2>3, CreateAssumption DEF Ids
  <2>5. /\ [issuers[t] EXCEPT !.list = Len(lists) + 1] \in Rows
        /\ issuers' = [issuers EXCEPT ![t] = [issuers[t] EXCEPT !.list = Len(lists) + 1]]
    BY <1>1, <1>4, <2>4
  <2>6. issuers' \in [Tasks -> Rows] /\ \A u \in Tasks : u # t => issuers'[u] = issuers[u]
    BY <2>5 DEF CreateTypeOK
  <2>7. /\ issuers'[t].genesis = issuers[t].genesis /\ issuers'[t].keys = issuers[t].keys
        /\ issuers'[t].list = Len(lists) + 1
    BY <1>1, <2>5 DEF CreateTypeOK
  <2> QED
    BY <1>4, <2>2, <2>4, <2>6, <2>7
<1> QED
  BY <1>2, <1>3, <1>4 DEF IssuersEffect

(* A step of the saga keeps the invariant.                                 *)
LEMMA CreateStepKeeps ==
    ASSUME OneWorker, CreateInv, QueueInv, TaskTypeOK',
           NEW w \in Workers, RunCreateStep(w)
    PROVE  CreateInv'
<1> DEFINE t == worker[w].task
           n == worker[w].step
<1>1. PICK o \in Outcomes, d \in Data : CreateEffect(w, o, d)
  BY CreateStepHasEffect DEF CreateInv, HasEffect, CreateEffect
<1>2. /\ worker[w].pc = "loaded"
      /\ worker'[w].pc = "ran" /\ worker'[w].outcome = o
      /\ worker'[w].task = t /\ worker'[w].step = n
      /\ result'[w] = d /\ result' \in [Workers -> Data]
      /\ \A v \in Workers : v = w
      /\ UNCHANGED <<task, created, sd>>
  BY <1>1, OneWorker
  DEF CreateEffect, Returns, RunStep, CreateInv, CreateTypeOK, TaskTypeOK, WorkerState,
      OneWorker
<1>3. /\ t \in Tasks /\ n \in Nat /\ task[t].step = n /\ task[t].state = "in_progress"
      /\ \A u \in Tasks : sd[u] \in Data /\ task[u].step \in Nat
  BY <1>2 DEF CreateInv, CreateTypeOK, TaskTypeOK, WorkerState, QueueInv,
              CopyAgreesWithRow, Busy, Row
<1>4. \A u \in Tasks : sd[u].did \in Nat /\ (sd[u].did # 0 => sd[u].did \in 1 .. MaxMinted)
  BY <1>3, CreateAssumption DEF Data, Ids
<1>5. /\ registry' \in [1 .. MaxMinted -> Genesis]
      /\ \A i \in 1 .. MaxMinted : registry[i] # NoLog => registry'[i] = registry[i]
      /\ \A i \in 1 .. MaxMinted : registry'[i] # registry[i] =>
            i = sd[t].did /\ n = 4 /\ registry'[i] = GenesisOf(t)
  BY <1>1, RegistryKept DEF CreateInv, CreateEffect
<1>6. /\ entryOf' \in Seq(Tasks) /\ Len(entryOf') <= MaxMinted
      /\ DOMAIN entryOf \subseteq DOMAIN entryOf'
      /\ \A i \in DOMAIN entryOf : entryOf'[i] = entryOf[i]
      /\ lists' \in Seq([issuer : Tasks, entry : Ids]) /\ Len(lists') <= MaxMinted
      /\ DOMAIN lists \subseteq DOMAIN lists'
      /\ \A i \in DOMAIN lists : lists'[i] = lists[i]
  BY <1>1, SequencesKept DEF CreateInv, CreateEffect
<1>7. /\ issuers' \in [Tasks -> [genesis : Genesis, keys : Ids, list : Ids]]
      /\ \A u \in Tasks : u # t => issuers'[u] = issuers[u]
      /\ \/ issuers'[t] = issuers[t]
         \/ /\ n = 5 /\ issuers'[t] = Row0(t) /\ issuers[t] = NoIssuer /\ sd[t].did # 0
         \/ /\ n = 7 /\ issuers[t].list = 0 /\ sd[t].entry # 0
            /\ issuers'[t].genesis = issuers[t].genesis
            /\ issuers'[t].keys = issuers[t].keys
            /\ issuers'[t].list # 0 /\ issuers'[t].list \in DOMAIN lists'
            /\ lists'[issuers'[t].list] = NewList(t)
  BY <1>1, IssuersKept DEF CreateInv, CreateEffect
<1>8. MintedEffect /\ DataEffect(w, d) /\ (o = "done" => DoneOnlyIf(w))
  BY <1>1 DEF CreateEffect
<1>9. \A u \in Tasks : Served(u) =>
         sd[u].did # 0 /\ sd[u].keys # 0 /\ registry'[sd[u].did] = GenesisOf(u)
  BY <1>4, <1>5 DEF Served, GenesisOf, NoLog
<1>10. \A u \in Tasks : issuers[u] # NoIssuer => issuers'[u] # NoIssuer
  BY <1>7 DEF NoIssuer
<1>11. minted.dids \in Nat /\ minted'.dids \in Nat /\ minted.dids <= minted'.dids
  BY <1>8, CreateAssumption DEF MintedEffect, CreateInv, CreateTypeOK, Ids
<1> HIDE DEF t, n
<1>12. CreateTypeOK'
  BY <1>2, <1>5, <1>6, <1>7, <1>8 DEF CreateTypeOK, CreateInv, MintedEffect
<1>13. DidsOK'
  BY <1>2, <1>4, <1>11 DEF DidsOK, CreateInv
<1>14. RegistryOK'
  <2> SUFFICES ASSUME NEW i \in 1 .. MaxMinted, registry'[i] # NoLog
               PROVE  \E u \in Tasks : /\ sd[u].did = i /\ registry'[i] = GenesisOf(u)
                                       /\ task[u].step >= 4
    BY <1>2, <1>5 DEF RegistryOK, GenesisOf
  <2>1. CASE registry'[i] = registry[i]
    BY <2>1 DEF CreateInv, RegistryOK, CreateTypeOK
  <2>2. CASE registry'[i] # registry[i]
    BY <1>3, <1>5, <2>2
  <2> QED
    BY <2>1, <2>2
<1>15. StepsOK'
  <2>1. ASSUME NEW u \in Tasks
        PROVE  /\ sd[u].published => task[u].step > 4
               /\ task[u].step > 4 =>
                     sd[u].did # 0 /\ sd[u].keys # 0 /\ registry'[sd[u].did] = GenesisOf(u)
               /\ task[u].step > 5 => issuers'[u] # NoIssuer
    BY <1>9, <1>10 DEF CreateInv, StepsOK, HasRow
  <2>2. ASSUME NEW u \in Tasks, task[u].state = "completed" PROVE issuers'[u].list # 0
    BY <1>3, <1>7, <2>2 DEF CreateInv, StepsOK
  <2> QED
    BY <1>2, <2>1, <2>2 DEF StepsOK, Served, HasRow, GenesisOf
<1>16. RowsOK'
  <2> SUFFICES ASSUME NEW u \in Tasks, issuers'[u] # NoIssuer
               PROVE  /\ issuers'[u].genesis = GenesisOf(u)
                      /\ issuers'[u].keys = sd[u].keys /\ task[u].step >= 5
    BY <1>2 DEF RowsOK, HasRow, GenesisOf
  <2>1. CASE issuers'[u] = issuers[u]
    BY <2>1 DEF CreateInv, RowsOK, HasRow
  <2>2. CASE u = t /\ n = 5 /\ issuers'[t] = Row0(t)
    BY <1>3, <2>2 DEF Row0
  <2>3. CASE /\ u = t /\ n = 7 /\ issuers'[t].genesis = issuers[t].genesis
             /\ issuers'[t].keys = issuers[t].keys
    <3>1. HasRow(t)
      BY <1>3, <2>3 DEF CreateInv, StepsOK
    <3> QED
      BY <1>3, <2>3, <3>1 DEF CreateInv, RowsOK
  <2> QED
    BY <1>7, <2>1, <2>2, <2>3
<1>17. EntriesOK'
  BY <1>2, <1>6 DEF CreateInv, EntriesOK
<1>18. ListsOK'
  <2> SUFFICES ASSUME NEW u \in Tasks, issuers'[u].list # 0
               PROVE  /\ issuers'[u].list \in DOMAIN lists' /\ task[u].step = 7
                      /\ lists'[issuers'[u].list] = NewList(u) /\ sd[u].entry # 0
    BY <1>2 DEF ListsOK, NewList
  <2>1. CASE issuers'[u] = issuers[u]
    BY <1>6, <2>1 DEF CreateInv, ListsOK, NewList
  <2>2. CASE issuers'[u] # issuers[u]
    <3>1. u = t /\ n = 7
      BY <1>7, <2>2 DEF Row0
    <3> QED
      BY <1>3, <1>7, <2>2, <3>1
  <2> QED
    BY <2>1, <2>2
<1>19. ResultsOK'
  <2>1. /\ d.did # sd[t].did => n = 1
        /\ d.keys # sd[t].keys => n = 2
        /\ d.published => sd[t].published \/ n = 4
        /\ d.entry # sd[t].entry => n = 6
    BY <1>8 DEF DataEffect, t, n
  <2>2. /\ d.did <= minted'.dids
        /\ d.did # 0 => \A u \in Tasks \ {t} : sd[u].did # d.did
    <3>1. CASE d.did = sd[t].did
      BY <1>3, <1>4, <1>11, <3>1 DEF CreateInv, DidsOK
    <3>2. CASE d.did = minted.dids + 1 /\ minted'.dids = d.did
      <4>1. \A u \in Tasks : sd[u].did <= minted.dids
        BY DEF CreateInv, DidsOK
      <4> QED
        BY <1>4, <1>11, <3>2, <4>1
    <3> QED
      BY <1>8, <3>1, <3>2 DEF DataEffect, t
  <2>3. d.entry # 0 => d.entry \in DOMAIN entryOf' /\ entryOf'[d.entry] = t
    <3>1. CASE d.entry = sd[t].entry
      BY <1>3, <1>6, <3>1 DEF CreateInv, EntriesOK
    <3>2. CASE d.entry = Len(entryOf) + 1 /\ entryOf' = Append(entryOf, t)
      BY <1>3, <3>2, SeqGrows DEF CreateInv, CreateTypeOK
    <3> QED
      BY <1>8, <3>1, <3>2 DEF DataEffect, t
  <2>4. o = "done" =>
           /\ n = 4 => sd[t].did # 0 /\ sd[t].keys # 0 /\ registry'[sd[t].did] = GenesisOf(t)
           /\ n = 5 => issuers'[t] # NoIssuer
           /\ n = 7 => issuers'[t].list # 0
    <3>1. n = 4 => ~sd[t].published
      BY <1>3 DEF CreateInv, StepsOK
    <3> QED
      BY <1>8, <3>1 DEF DoneOnlyIf, t, n
  <2> QED
    BY <1>2, <2>1, <2>2, <2>3, <2>4 DEF ResultsOK, Served, HasRow, GenesisOf
<1> QED
  BY <1>12, <1>13, <1>14, <1>15, <1>16, <1>17, <1>18, <1>19 DEF CreateInv

(* NoData is state data, the empty one.                                    *)
LEMMA NoDataTyped == NoData \in Data
  BY CreateAssumption DEF NoData, Data, Ids

(* What the write of an outcome changes: the row, and with "done" at a     *)
(* step that is not the last the state data.                               *)
LEMMA AfterOutcome ==
    ASSUME CreateInv, QueueInv, NEW w \in Workers, ApplyCreateOutcome(w)
    PROVE  LET t == worker[w].task IN
           /\ worker[w].pc = "ran" /\ worker'[w].pc = "idle" /\ t \in Tasks
           /\ task[t].state = "in_progress" /\ worker[w].step = task[t].step
           /\ \A u \in Tasks : u # t => task'[u] = task[u] /\ sd'[u] = sd[u]
           /\ \/ /\ worker[w].outcome = "done" /\ worker[w].step < 7
                 /\ task'[t].step = worker[w].step + 1
                 /\ task'[t].state = "in_progress" /\ sd'[t] = result[w]
              \/ /\ sd'[t] = sd[t] /\ task'[t].step = worker[w].step
                 /\ \/ task'[t].state \in {"in_progress", "failed"}
                    \/ /\ task'[t].state = "completed"
                       /\ worker[w].outcome = "done" /\ worker[w].step = 7
           /\ sd' \in [Tasks -> Data] /\ result' \in [Workers -> Data]
           /\ UNCHANGED <<registry, minted, entryOf, issuers, lists, created>>
<1> DEFINE t == worker[w].task
<1>1. /\ worker \in [Workers -> WorkerState] /\ worker[w] \in WorkerState /\ t \in Tasks
      /\ task \in [Tasks -> Row] /\ task[t] \in Row
      /\ result[w] \in Data /\ sd \in [Tasks -> Data] /\ LastStep[t] = 7
  BY CreateAssumption DEF CreateInv, CreateTypeOK, TaskTypeOK, WorkerState
<1>2. PICK row : Writes(w, row)
  BY DEF ApplyCreateOutcome, AdvanceStep, TryComplete, ScheduleRetry, TryFail,
         SetTerminalState
<1>3. /\ worker[w].pc = "ran" /\ worker'[w].pc = "idle" /\ UNCHANGED created
      /\ \A u \in Tasks : u # t => task'[u] = task[u]
  BY <1>1, <1>2 DEF Writes, WorkerState
<1>4. task[t].state = "in_progress" /\ worker[w].step = task[t].step
  BY <1>1, <1>3 DEF QueueInv, CopyAgreesWithRow, Busy
<1>5. /\ result' \in [Workers -> Data]
      /\ UNCHANGED <<registry, minted, entryOf, issuers, lists>>
  BY NoDataTyped DEF ApplyCreateOutcome, CreateInv, CreateTypeOK
<1>6. CASE AdvanceStep(w) /\ sd' = [sd EXCEPT ![t] = Merge(w)]
  <2>1. /\ worker[w].outcome = "done" /\ worker[w].step < 7
        /\ task'[t].step = worker[w].step + 1 /\ task'[t].state = "in_progress"
    BY <1>1, <1>4, <1>6 DEF AdvanceStep, Writes, Row
  <2>2. /\ sd' \in [Tasks -> Data] /\ sd'[t] = result[w]
        /\ \A u \in Tasks : u # t => sd'[u] = sd[u]
    BY <1>1, <1>6 DEF Merge
  <2> QED
    BY <1>1, <1>3, <1>4, <1>5, <2>1, <2>2
<1>7. CASE (TryComplete(w) \/ ScheduleRetry(w) \/ TryFail(w)) /\ UNCHANGED sd
  <2>1. /\ task'[t].step = worker[w].step
        /\ \/ task'[t].state \in {"in_progress", "failed"}
           \/ /\ task'[t].state = "completed"
              /\ worker[w].outcome = "done" /\ worker[w].step = 7
    <3>1. CASE TryComplete(w)
      BY <1>1, <1>4, <3>1 DEF TryComplete, SetTerminalState, Writes, Row
    <3>2. CASE ScheduleRetry(w)
      BY <1>1, <1>4, <3>2 DEF ScheduleRetry, Writes, Row
    <3>3. CASE TryFail(w)
      BY <1>1, <1>4, <3>3 DEF TryFail, SetTerminalState, Writes, Row
    <3> QED
      BY <1>7, <3>1, <3>2, <3>3
  <2> QED
    BY <1>1, <1>3, <1>4, <1>5, <1>7, <2>1
<1> QED
  BY <1>6, <1>7 DEF ApplyCreateOutcome

(* Writing an outcome keeps the invariant.                                 *)
LEMMA OutcomeKeeps ==
    ASSUME OneWorker, CreateInv, QueueInv, TaskTypeOK',
           NEW w \in Workers, ApplyCreateOutcome(w)
    PROVE  CreateInv'
<1> DEFINE t == worker[w].task
           n == worker[w].step
           done == worker[w].outcome = "done"
           d == result[w]
<1>1. /\ worker[w].pc = "ran" /\ t \in Tasks /\ n \in Nat /\ task[t].step = n
      /\ \A v \in Workers : worker'[v].pc # "ran"
      /\ \A u \in Tasks : u # t => task'[u] = task[u] /\ sd'[u] = sd[u]
      /\ \/ done /\ n < 7 /\ task'[t].step = n + 1
            /\ task'[t].state = "in_progress" /\ sd'[t] = d
         \/ /\ sd'[t] = sd[t] /\ task'[t].step = n
            /\ \/ task'[t].state \in {"in_progress", "failed"}
               \/ task'[t].state = "completed" /\ done /\ n = 7
      /\ sd' \in [Tasks -> Data] /\ result' \in [Workers -> Data]
      /\ UNCHANGED <<registry, minted, entryOf, issuers, lists, created>>
  BY AfterOutcome, OneWorker
  DEF OneWorker, CreateInv, CreateTypeOK, TaskTypeOK, WorkerState
<1>2. /\ d.did # sd[t].did => n = 1
      /\ d.keys # sd[t].keys => n = 2
      /\ d.published => sd[t].published \/ n = 4
      /\ d.entry # sd[t].entry => n = 6
      /\ d.did <= minted.dids
      /\ d.did # 0 => \A u \in Tasks \ {t} : sd[u].did # d.did
      /\ d.entry # 0 => d.entry \in DOMAIN entryOf /\ entryOf[d.entry] = t
      /\ done => /\ n = 4 => Served(t)
                 /\ n = 5 => HasRow(t)
                 /\ n = 7 => issuers[t].list # 0
  BY <1>1 DEF CreateInv, ResultsOK
<1>3. \A u \in Tasks : task[u].step \in Nat
  BY DEF CreateInv, CreateTypeOK, TaskTypeOK, Row
<1> HIDE DEF t, n, done, d
<1>4. /\ n >= 2 => sd'[t].did = sd[t].did
      /\ n >= 3 => sd'[t].keys = sd[t].keys
      /\ n >= 7 => sd'[t].entry = sd[t].entry
      /\ n <= task'[t].step /\ task'[t].step <= n + 1 /\ task'[t].step \in Nat
      /\ task'[t].step = n + 1 => done
  BY <1>1, <1>2
<1>5. \A u \in Tasks : task[u].step >= 4 =>
         /\ task'[u].step >= task[u].step
         /\ sd'[u].did = sd[u].did /\ sd'[u].keys = sd[u].keys
  BY <1>1, <1>3, <1>4
<1>6. CreateTypeOK'
  BY <1>1 DEF CreateInv, CreateTypeOK
<1>7. DidsOK'
  <2>1. \A u \in Tasks : sd'[u].did <= minted.dids
    BY <1>1, <1>2 DEF CreateInv, DidsOK
  <2>2. ASSUME NEW u \in Tasks, u # t, sd'[u].did = sd'[t].did, sd'[t].did # 0
        PROVE  FALSE
    BY <1>1, <1>2, <2>2 DEF CreateInv, DidsOK
  <2>3. ASSUME NEW u \in Tasks, NEW v \in Tasks, sd'[u].did = sd'[v].did, sd'[u].did # 0
        PROVE  u = v
    BY <1>1, <2>2, <2>3 DEF CreateInv, DidsOK
  <2> QED
    BY <1>1, <2>1, <2>3 DEF DidsOK
<1>8. RegistryOK'
  <2> SUFFICES ASSUME NEW i \in DOMAIN registry, registry[i] # NoLog
               PROVE  \E u \in Tasks :
                         /\ sd'[u].did = i /\ task'[u].step >= 4
                         /\ registry[i] = [did |-> sd'[u].did, keys |-> sd'[u].keys,
                                           now |-> created[u]]
    BY <1>1 DEF RegistryOK, GenesisOf
  <2>1. PICK u \in Tasks : /\ sd[u].did = i /\ registry[i] = GenesisOf(u)
                           /\ task[u].step >= 4
    BY DEF CreateInv, RegistryOK
  <2>2. task'[u].step >= 4
    BY <1>1, <1>3, <1>4, <2>1
  <2> QED
    BY <1>5, <2>1, <2>2 DEF GenesisOf
<1>9. StepsOK'
  <2> SUFFICES ASSUME NEW u \in Tasks
               PROVE  /\ sd'[u].published => task'[u].step > 4
                      /\ task'[u].step > 4 => Served(u)'
                      /\ task'[u].step > 5 => HasRow(u)
                      /\ task'[u].state = "completed" => issuers[u].list # 0
    BY <1>1 DEF StepsOK, HasRow
  <2>1. CASE u # t
    BY <1>1, <2>1 DEF CreateInv, StepsOK, Served, GenesisOf
  <2>2. CASE u = t
    <3>1. sd'[t].published => task'[t].step > 4
      BY <1>1, <1>2 DEF CreateInv, StepsOK
    <3>2. task'[t].step > 4 => Served(t)
      BY <1>1, <1>2, <1>4 DEF CreateInv, StepsOK
    <3>3. task'[t].step > 4 => sd'[t].did = sd[t].did /\ sd'[t].keys = sd[t].keys
      BY <1>1, <1>4
    <3>4. task'[t].step > 5 => HasRow(t)
      BY <1>1, <1>2, <1>4 DEF CreateInv, StepsOK
    <3>5. task'[t].state = "completed" => issuers[t].list # 0
      BY <1>1, <1>2
    <3>6. task'[u].step > 4 => Served(u)'
      BY <1>1, <2>2, <3>2, <3>3 DEF Served, GenesisOf
    <3> QED
      BY <2>2, <3>1, <3>4, <3>5, <3>6
  <2> QED
    BY <2>1, <2>2
<1>10. RowsOK'
  <2> SUFFICES ASSUME NEW u \in Tasks, HasRow(u)
               PROVE  /\ issuers[u].genesis = [did |-> sd'[u].did, keys |-> sd'[u].keys,
                                               now |-> created[u]]
                      /\ issuers[u].keys = sd'[u].keys /\ task'[u].step >= 5
    BY <1>1 DEF RowsOK, HasRow, GenesisOf
  <2>1. /\ issuers[u].genesis = GenesisOf(u) /\ issuers[u].keys = sd[u].keys
        /\ task[u].step >= 5
    BY DEF CreateInv, RowsOK
  <2>2. task'[u].step >= 5 /\ task[u].step >= 4
    BY <1>1, <1>3, <1>4, <2>1
  <2> QED
    BY <1>5, <2>1, <2>2 DEF GenesisOf
<1>11. EntriesOK'
  BY <1>1, <1>2 DEF CreateInv, EntriesOK
<1>12. ListsOK'
  <2> SUFFICES ASSUME NEW u \in Tasks, issuers[u].list # 0
               PROVE  /\ issuers[u].list \in DOMAIN lists /\ task'[u].step = 7
                      /\ lists[issuers[u].list] = [issuer |-> u, entry |-> sd'[u].entry]
                      /\ sd'[u].entry # 0
    BY <1>1 DEF ListsOK
  <2>1. /\ issuers[u].list \in DOMAIN lists /\ task[u].step = 7
        /\ lists[issuers[u].list] = [issuer |-> u, entry |-> sd[u].entry]
        /\ sd[u].entry # 0
    BY DEF CreateInv, ListsOK
  <2>2. task'[u].step = 7 /\ sd'[u].entry = sd[u].entry
    BY <1>1, <1>4, <2>1
  <2> QED
    BY <2>1, <2>2
<1>13. ResultsOK'
  BY <1>1 DEF ResultsOK
<1> QED
  BY <1>6, <1>7, <1>8, <1>9, <1>10, <1>11, <1>12, <1>13 DEF CreateInv

(***************************************************************************)
(* The other steps.                                                        *)
(***************************************************************************)

(* Requests, claims, crashes and the clock do not touch what the saga      *)
(* wrote, and a task gets its time of creation before its first step.      *)
Quiet ==
    /\ UNCHANGED <<registry, minted, entryOf, issuers, lists, sd>>
    /\ \A u \in Tasks : /\ task'[u].step = task[u].step
                        /\ created'[u] = created[u] \/ task[u].step = 1
                        /\ task'[u].state = "completed" => task[u].state = "completed"
    /\ \A w \in Workers : worker'[w].pc = "ran" =>
          worker'[w] = worker[w] /\ result'[w] = result[w]
    /\ result' \in [Workers -> Data]

(* Every step that is neither a step of the saga nor the write of its      *)
(* outcome is quiet.                                                       *)
LEMMA QuietSteps ==
    ASSUME CreateInv, QueueInv, [CreateNext]_<<taskVars, createVars>>,
           \A w \in Workers : ~RunCreateStep(w) /\ ~ApplyCreateOutcome(w)
    PROVE  Quiet
<1>1. /\ task \in [Tasks -> Row] /\ worker \in [Workers -> WorkerState]
      /\ created \in [Tasks -> Nat] /\ result \in [Workers -> Data]
  BY DEF CreateInv, CreateTypeOK, TaskTypeOK
<1>2. ASSUME NEW t \in Tasks, Submit(t), UNCHANGED createVars PROVE Quiet
  <2>1. /\ task[t].step = 1 /\ task'[t].step = 1 /\ task'[t].state = "pending"
        /\ \A u \in Tasks : u # t => task'[u] = task[u] /\ created'[u] = created[u]
        /\ UNCHANGED worker
    BY <1>1, <1>2 DEF Submit, NewRow, QueueInv, AbsentIsNew
  <2> QED
    BY <1>1, <1>2, <2>1 DEF Quiet, createVars
<1>3. ASSUME NEW t \in Tasks, TimerPasses(t) \/ Age(t), UNCHANGED createVars PROVE Quiet
  <2>1. /\ UNCHANGED <<worker, created>>
        /\ \A u \in Tasks : task'[u].step = task[u].step /\ task'[u].state = task[u].state
    BY <1>1, <1>3 DEF TimerPasses, Age, Row
  <2> QED
    BY <1>1, <1>3, <2>1 DEF Quiet, createVars
<1>4. ASSUME NEW w \in Workers, SetAcquired(w), UNCHANGED createVars PROVE Quiet
  <2> DEFINE t == worker[w].task
  <2>1. t \in Tasks /\ task[t] \in Row /\ task[t].state \in Live
    BY <1>1, <1>4 DEF SetAcquired, WorkerState, QueueInv, ClaimedIsLive
  <2>2. /\ task'[t].state = "in_progress" /\ task'[t].step = task[t].step
        /\ \A u \in Tasks : u # t => task'[u] = task[u]
    BY <1>1, <1>4, <2>1 DEF SetAcquired, TryAcquire, Row
  <2>3. /\ \A v \in Workers : worker'[v].pc = "ran" => worker'[v] = worker[v]
        /\ UNCHANGED created
    BY <1>1, <1>4 DEF SetAcquired, WorkerState
  <2> QED
    BY <1>1, <1>4, <2>1, <2>2, <2>3 DEF Quiet, createVars
<1>5. ASSUME NEW w \in Workers,
             Load(w) \/ LoadFails(w) \/ \E t \in Tasks : FindNextAcquirable(w, t),
             UNCHANGED createVars
      PROVE  Quiet
  <2>1. /\ UNCHANGED <<task, created>>
        /\ \A v \in Workers : worker'[v].pc = "ran" => worker'[v] = worker[v]
    BY <1>1, <1>5 DEF Load, LoadFails, FindNextAcquirable, WorkerState
  <2> QED
    BY <1>1, <1>5, <2>1 DEF Quiet, createVars
<1>6. ASSUME NEW w \in Workers, CrashInCreate(w) PROVE Quiet
  <2>1. /\ UNCHANGED <<task, created, registry, minted, entryOf, issuers, lists, sd>>
        /\ result' \in [Workers -> Data]
        /\ worker'[w].pc = "idle"
        /\ \A v \in Workers : v # w => worker'[v] = worker[v] /\ result'[v] = result[v]
    BY <1>1, <1>6, NoDataTyped DEF CrashInCreate, Crash, WorkerState
  <2> QED
    BY <2>1 DEF Quiet
<1>7. CASE UNCHANGED <<taskVars, createVars>>
  BY <1>1, <1>7 DEF Quiet, taskVars, createVars
<1> QED
  BY <1>2, <1>3, <1>4, <1>5, <1>6, <1>7 DEF CreateNext, Claim

(* A quiet step keeps the invariant.                                       *)
LEMMA QuietKeeps == ASSUME CreateInv, QueueInv, TaskTypeOK', Quiet PROVE CreateInv'
<1>1. /\ UNCHANGED <<registry, minted, entryOf, issuers, lists, sd>>
      /\ \A u \in Tasks : task'[u].step = task[u].step
      /\ \A u \in Tasks : task[u].step >= 4 => created'[u] = created[u]
      /\ \A u \in Tasks : task'[u].state = "completed" => task[u].state = "completed"
      /\ \A w \in Workers : worker'[w].pc = "ran" =>
            worker'[w] = worker[w] /\ result'[w] = result[w]
  BY DEF Quiet
<1>2. \A u \in Tasks : task[u].step \in Nat
  BY DEF CreateInv, CreateTypeOK, TaskTypeOK, Row
<1>3. CreateTypeOK' /\ DidsOK' /\ EntriesOK' /\ ListsOK'
  <2>1. CreateTypeOK'
    BY <1>1 DEF CreateInv, CreateTypeOK, Quiet
  <2>2. DidsOK' /\ EntriesOK'
    BY <1>1 DEF CreateInv, DidsOK, EntriesOK
  <2>3. ListsOK'
    BY <1>1 DEF CreateInv, ListsOK
  <2> QED
    BY <2>1, <2>2, <2>3
<1>4. RegistryOK'
  BY <1>1 DEF CreateInv, RegistryOK, GenesisOf
<1>5. StepsOK'
  <2> SUFFICES ASSUME NEW u \in Tasks
               PROVE  /\ sd[u].published => task[u].step > 4
                      /\ task[u].step > 4 => Served(u)'
                      /\ task[u].step > 5 => HasRow(u)
                      /\ task'[u].state = "completed" => issuers[u].list # 0
    BY <1>1 DEF StepsOK, HasRow
  <2>1. ASSUME task[u].step > 4 PROVE Served(u)'
    <3>1. Served(u) /\ created'[u] = created[u]
      BY <1>1, <1>2, <2>1 DEF CreateInv, StepsOK
    <3> QED
      BY <1>1, <3>1 DEF Served, GenesisOf
  <2> QED
    BY <1>1, <2>1 DEF CreateInv, StepsOK
<1>6. RowsOK'
  <2> SUFFICES ASSUME NEW u \in Tasks, HasRow(u)
               PROVE  /\ issuers[u].genesis = GenesisOf(u)' /\ issuers[u].keys = sd[u].keys
                      /\ task[u].step >= 5
    BY <1>1 DEF RowsOK, HasRow
  <2>1. /\ issuers[u].genesis = GenesisOf(u) /\ issuers[u].keys = sd[u].keys
        /\ task[u].step >= 5
    BY DEF CreateInv, RowsOK
  <2>2. created'[u] = created[u]
    BY <1>1, <1>2, <2>1
  <2> QED
    BY <1>1, <2>1, <2>2 DEF GenesisOf
<1>7. ResultsOK'
  <2> SUFFICES ASSUME NEW w \in Workers, worker'[w].pc = "ran"
               PROVE  LET t == worker[w].task
                          n == worker[w].step
                          d == result[w]
                      IN  /\ d.did # sd[t].did => n = 1
                          /\ d.keys # sd[t].keys => n = 2
                          /\ d.published => sd[t].published \/ n = 4
                          /\ d.entry # sd[t].entry => n = 6
                          /\ d.did <= minted.dids
                          /\ d.did # 0 => \A u \in Tasks \ {t} : sd[u].did # d.did
                          /\ d.entry # 0 =>
                                d.entry \in DOMAIN entryOf /\ entryOf[d.entry] = t
                          /\ worker[w].outcome = "done" =>
                                /\ n = 4 => /\ sd[t].did # 0 /\ sd[t].keys # 0
                                            /\ registry[sd[t].did] =
                                                 [did |-> sd[t].did, keys |-> sd[t].keys,
                                                  now |-> created'[t]]
                                /\ n = 5 => HasRow(t)
                                /\ n = 7 => issuers[t].list # 0
    BY <1>1 DEF ResultsOK, Served, HasRow, GenesisOf
  <2> QED
    <3>1. worker[w].pc = "ran" /\ worker[w].task \in Tasks
      BY <1>1 DEF CreateInv, CreateTypeOK, TaskTypeOK, WorkerState
    <3>2. task[worker[w].task].step = worker[w].step
      BY <3>1 DEF QueueInv, CopyAgreesWithRow, Busy
    <3>3. worker[w].step = 4 => created'[worker[w].task] = created[worker[w].task]
      BY <1>1, <3>1, <3>2
    <3> QED
      BY <3>1, <3>3 DEF CreateInv, ResultsOK, Served, GenesisOf
<1> QED
  BY <1>3, <1>4, <1>5, <1>6, <1>7 DEF CreateInv

(* The inductive invariant.                                                *)
LEMMA CreateInvHolds == ASSUME OneWorker PROVE CreateSpec => []CreateInv
<1>1. CreateInit /\ TaskTypeOK => CreateInv
  <2> SUFFICES ASSUME CreateInit, TaskTypeOK PROVE CreateInv
    OBVIOUS
  <2> USE CreateAssumption
  <2>1. NoLog \in Genesis /\ NoIssuer \in [genesis : Genesis, keys : Ids, list : Ids]
    BY DEF NoLog, NoIssuer, Genesis, Ids
  <2>2. CreateTypeOK
    BY <2>1, NoDataTyped DEF CreateInit, CreateTypeOK, Ids
  <2>3. \A t \in Tasks : /\ sd[t] = NoData /\ issuers[t] = NoIssuer
                         /\ task[t].step = 1 /\ task[t].state = "absent"
    BY DEF CreateInit, TaskInit, NewRow
  <2>4. /\ \A i \in DOMAIN registry : registry[i] = NoLog
        /\ \A w \in Workers : worker[w].pc = "idle"
        /\ minted.dids = 0
    BY DEF CreateInit, TaskInit, IdleWorker
  <2>5. DidsOK /\ RegistryOK /\ ResultsOK
    BY <2>3, <2>4 DEF DidsOK, RegistryOK, ResultsOK, NoData
  <2>6. StepsOK /\ RowsOK /\ EntriesOK /\ ListsOK
    BY <2>3 DEF StepsOK, RowsOK, EntriesOK, ListsOK, HasRow, NoData, NoIssuer
  <2> QED
    BY <2>2, <2>5, <2>6 DEF CreateInv
<1>2. /\ CreateInv /\ QueueInv /\ TaskTypeOK' /\ [CreateNext]_<<taskVars, createVars>>
      => CreateInv'
  BY OneWorker, CreateStepKeeps, OutcomeKeeps, QuietSteps, QuietKeeps
<1> QED
  BY <1>1, <1>2, CreationsRunOnTheQueue, TaskTypes, QueueInvHolds, OneWorker, PTL
  DEF CreateSpec

(* The DID and the keys of an issuer row are those of the log served under *)
(* that DID, however often and however late publish_didlog and             *)
(* persist_issuer were run (IssuerRowMatchesLog).                          *)
THEOREM RowsMatchTheLog == ASSUME OneWorker PROVE CreateSpec => []IssuerRowMatchesLog
<1>1. CreateInv => IssuerRowMatchesLog
  <2> SUFFICES ASSUME CreateInv, NEW t \in Tasks, HasRow(t)
               PROVE  /\ registry[issuers[t].genesis.did] = issuers[t].genesis
                      /\ issuers[t].keys = issuers[t].genesis.keys
    BY DEF IssuerRowMatchesLog
  <2>1. task[t].step \in Nat
    BY DEF CreateInv, CreateTypeOK, TaskTypeOK, Row
  <2>2. /\ issuers[t].genesis = GenesisOf(t) /\ issuers[t].keys = sd[t].keys
        /\ Served(t)
    BY <2>1 DEF CreateInv, RowsOK, StepsOK
  <2> QED
    BY <2>2 DEF Served, GenesisOf
<1> QED
  BY <1>1, CreateInvHolds, OneWorker, PTL

(* A completed creation left a row and a status list of its own, which     *)
(* carries the registry entry recorded for the task (CompletedIsUsable).   *)
THEOREM CompletedIssuersAreUsable ==
    ASSUME OneWorker PROVE CreateSpec => []CompletedIsUsable
<1>1. CreateInv => CompletedIsUsable
  <2> SUFFICES ASSUME CreateInv, NEW t \in Tasks, task[t].state = "completed"
               PROVE  /\ HasRow(t)
                      /\ issuers[t].list \in DOMAIN lists
                      /\ lists[issuers[t].list] = [issuer |-> t, entry |-> sd[t].entry]
                      /\ entryOf[sd[t].entry] = t
    BY DEF CompletedIsUsable
  <2>1. issuers[t].list # 0
    BY DEF CreateInv, StepsOK
  <2>2. /\ issuers[t].list \in DOMAIN lists /\ task[t].step = 7 /\ sd[t].entry # 0
        /\ lists[issuers[t].list] = [issuer |-> t, entry |-> sd[t].entry]
    BY <2>1 DEF CreateInv, ListsOK
  <2> QED
    BY <2>2 DEF CreateInv, StepsOK, EntriesOK
<1> QED
  BY <1>1, CreateInvHolds, OneWorker, PTL

(* What a wallet could resolve is still there.                             *)
ResolvedKept == \A d \in DOMAIN registry : registry[d] # NoLog => registry'[d] = registry[d]

(* The genesis entry of a DID that can be resolved never changes, also     *)
(* when publish_didlog is repeated (GenesisIsStable).                      *)
THEOREM GenesisEntriesAreFinal == ASSUME OneWorker PROVE CreateSpec => GenesisIsStable
<1>1. CreateInv /\ QueueInv /\ [CreateNext]_<<taskVars, createVars>> => ResolvedKept
  <2> SUFFICES ASSUME CreateInv, QueueInv, [CreateNext]_<<taskVars, createVars>>
               PROVE  ResolvedKept
    OBVIOUS
  <2>1. ASSUME NEW w \in Workers, RunCreateStep(w) PROVE ResolvedKept
    <3>1. RegistryEffect(w)
      BY <2>1, CreateStepHasEffect DEF CreateInv, HasEffect, CreateEffect
    <3> QED
      BY <3>1, RegistryKept DEF CreateInv, CreateTypeOK, ResolvedKept
  <2>2. ASSUME NEW w \in Workers, ApplyCreateOutcome(w) PROVE UNCHANGED registry
    BY <2>2 DEF ApplyCreateOutcome
  <2>3. Quiet => UNCHANGED registry
    BY DEF Quiet
  <2> QED
    BY <2>1, <2>2, <2>3, QuietSteps DEF ResolvedKept
<1> QED
  BY <1>1, CreateInvHolds, CreationsRunOnTheQueue, QueueInvHolds, OneWorker, PTL
  DEF CreateSpec, GenesisIsStable, ResolvedKept
=============================================================================
