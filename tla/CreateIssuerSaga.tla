-------------------------- MODULE CreateIssuerSaga --------------------------
(***************************************************************************)
(* The create_issuer saga: seven steps that allocate a DID, generate keys, *)
(* publish the genesis entry of the DID log, write the issuer row and      *)
(* provision its status list.  The tasks run on the queue of               *)
(* OperationTasks, so every step may be repeated: its answer may be lost,  *)
(* its worker may die before the outcome is written, and the next claim    *)
(* starts from the state_data of the row.                                  *)
(*                                                                         *)
(* The registries are external.  Allocating a DID or a status-list entry   *)
(* mints a new one at each call; a PUT replaces the DID's log.  DIDs, key  *)
(* triples and entries are numbered in the order they are minted; 0 is     *)
(* none.  An issuer's id is allocated with its task, so it is the task.    *)
(***************************************************************************)
EXTENDS OperationTasks, Sequences

CONSTANT MaxMinted   \* bound of the model on DIDs, key triples, entries, list rows

ASSUME CreateAssumption ==
    /\ \A t \in Tasks : LastStep[t] = 7
    /\ MaxMinted \in Nat

VARIABLES
    registry,  \* registry[d]: the log served for DID d
    minted,    \* how many DIDs, key triples and entries exist
    entryOf,   \* history: the task each status-list entry was minted for
    issuers,   \* the issuer rows
    lists,     \* the status_lists rows, oldest first
    sd,        \* state_data of the tasks
    result     \* what the step a worker has run wants merged into it

createVars == <<registry, minted, entryOf, issuers, lists, sd, result>>

-----------------------------------------------------------------------------

Ids      == 0 .. MaxMinted
Genesis  == [did : Ids, keys : Ids, now : Nat]
NoLog    == [did |-> 0, keys |-> 0, now |-> 0]
Data     == [did : Ids, keys : Ids, published : BOOLEAN, entry : Ids]
NoData   == [did |-> 0, keys |-> 0, published |-> FALSE, entry |-> 0]
NoIssuer == [genesis |-> NoLog, keys |-> 0, list |-> 0]

CreateTypeOK ==
    /\ TaskTypeOK
    /\ registry \in [1 .. MaxMinted -> Genesis]
    /\ minted \in [dids : Ids, keys : Ids]
    /\ entryOf \in Seq(Tasks) /\ Len(entryOf) <= MaxMinted
    /\ issuers \in [Tasks -> [genesis : Genesis, keys : Ids, list : Ids]]
    /\ lists \in Seq([issuer : Tasks, entry : Ids]) /\ Len(lists) <= MaxMinted
    /\ sd \in [Tasks -> Data]
    /\ result \in [Workers -> Data]

CreateInit ==
    /\ TaskInit
    /\ registry = [d \in 1 .. MaxMinted |-> NoLog]
    /\ minted = [dids |-> 0, keys |-> 0]
    /\ entryOf = <<>>
    /\ issuers = [t \in Tasks |-> NoIssuer]
    /\ lists = <<>>
    /\ sd = [t \in Tasks |-> NoData]
    /\ result = [w \in Workers |-> NoData]

-----------------------------------------------------------------------------
(* Returns(w, o, d): the step ends with outcome o, and d is the state data *)
(* a done outcome will write.                                              *)

Returns(w, o, d) ==
    /\ RunStep(w, o)
    /\ result' = [result EXCEPT ![w] = d]
    /\ UNCHANGED sd

At(w, n) == worker[w].pc = "loaded" /\ worker[w].step = n
Mine(w)  == sd[worker[w].task]

(* Nothing but the outcome.                                                *)
Ends(w, o) ==
    Returns(w, o, Mine(w)) /\ UNCHANGED <<registry, minted, entryOf, issuers, lists>>

(* A step fails before it had an effect.                                   *)
StepFails(w) == \E o \in {"retry", "terminal"} : Ends(w, o)

(* The effect has happened: the step is done with d, or the answer got     *)
(* lost and the step ends in an error.                                     *)
DoneOrLost(w, d) == \E o \in Outcomes : Returns(w, o, d)

-----------------------------------------------------------------------------
(* The steps, in order.                                                    *)

AllocateDid(w) ==
    /\ At(w, 1)
    /\ \/ Mine(w).did # 0 /\ Ends(w, "done")
       \/ /\ Mine(w).did = 0 /\ minted.dids < MaxMinted
          /\ minted' = [minted EXCEPT !.dids = @ + 1]
          /\ DoneOrLost(w, [Mine(w) EXCEPT !.did = minted.dids + 1])
          /\ UNCHANGED <<registry, entryOf, issuers, lists>>

KeysMissing(w) == Mine(w).keys = 0

(* A partial run leaves orphans in the engine; the retry starts afresh.    *)
GenerateKeys(w) ==
    /\ At(w, 2)
    /\ \/ ~KeysMissing(w) /\ Ends(w, "done")
       \/ /\ KeysMissing(w) /\ minted.keys < MaxMinted
          /\ minted' = [minted EXCEPT !.keys = @ + 1]
          /\ DoneOrLost(w, [Mine(w) EXCEPT !.keys = minted.keys + 1])
          /\ UNCHANGED <<registry, entryOf, issuers, lists>>

(* Mutant: the time of the run, which is another once a day has passed.    *)
EntryNowOfRun(w) ==
    created[worker[w].task] + (IF worker[w].task \in aged THEN 1 ELSE 0)

(* entry_now: the dispatch loop pins it to task.created_at.                *)
EntryNow(w) == created[worker[w].task]

(* build_log_entry is a function of the URL, the keys and the time; the    *)
(* DID with its SCID is a hash of all three.                               *)
BuildLogEntry(w) == [did |-> Mine(w).did, keys |-> Mine(w).keys, now |-> EntryNow(w)]

MissingState(w) == Mine(w).did = 0 \/ Mine(w).keys = 0

BuildInitialDidlog(w) ==
    /\ At(w, 3)
    /\ Ends(w, IF MissingState(w) THEN "terminal" ELSE "done")

PublishDidlog(w) ==
    /\ At(w, 4)
    /\ \/ Mine(w).published /\ Ends(w, "done")
       \/ ~Mine(w).published /\ MissingState(w) /\ Ends(w, "terminal")
       \/ /\ ~Mine(w).published /\ ~MissingState(w)
          /\ registry' = [registry EXCEPT ![Mine(w).did] = BuildLogEntry(w)]
          /\ DoneOrLost(w, [Mine(w) EXCEPT !.published = TRUE])
          /\ UNCHANGED <<minted, entryOf, issuers, lists>>

HasRow(t) == issuers[t] # NoIssuer

PersistIssuer(w) ==
    LET t == worker[w].task IN
    /\ At(w, 5)
    /\ \/ HasRow(t) /\ Ends(w, "done")
       \/ ~HasRow(t) /\ MissingState(w) /\ Ends(w, "terminal")
       \/ /\ ~HasRow(t) /\ ~MissingState(w)
          /\ issuers' = [issuers EXCEPT ![t] = [genesis |-> BuildLogEntry(w),
                                                keys |-> Mine(w).keys, list |-> 0]]
          /\ DoneOrLost(w, Mine(w))
          /\ UNCHANGED <<registry, minted, entryOf, lists>>

CreateStatusListEntry(w) ==
    /\ At(w, 6)
    /\ \/ Mine(w).entry # 0 /\ Ends(w, "done")
       \/ /\ Mine(w).entry = 0 /\ Len(entryOf) < MaxMinted
          /\ entryOf' = Append(entryOf, worker[w].task)
          /\ DoneOrLost(w, [Mine(w) EXCEPT !.entry = Len(entryOf) + 1])
          /\ UNCHANGED <<registry, minted, issuers, lists>>

(* Mutant: the pointer is moved before the row it names is there.          *)
PointFirst(w) ==
    \/ /\ issuers' = [issuers EXCEPT ![worker[w].task].list = Len(lists) + 1]
       /\ lists' = Append(lists, [issuer |-> worker[w].task, entry |-> Mine(w).entry])
       /\ DoneOrLost(w, Mine(w))
    \/ /\ issuers' = [issuers EXCEPT ![worker[w].task].list = Len(lists) + 1]
       /\ Returns(w, "retry", Mine(w))
       /\ UNCHANGED lists

(* provision_for_issuer: two statements on a bare connection, INSERT of    *)
(* the row and then the UPDATE of the pointer.  The second may fail.       *)
ProvisionForIssuer(w) ==
    /\ lists' = Append(lists, [issuer |-> worker[w].task, entry |-> Mine(w).entry])
    /\ \/ /\ issuers' = [issuers EXCEPT ![worker[w].task].list = Len(lists) + 1]
          /\ DoneOrLost(w, Mine(w))
       \/ Returns(w, "retry", Mine(w)) /\ UNCHANGED issuers

ProvisionStatusList(w) ==
    LET t == worker[w].task IN
    /\ At(w, 7)
    /\ \/ issuers[t].list # 0 /\ Ends(w, "done")
       \/ issuers[t].list = 0 /\ Mine(w).entry = 0 /\ Ends(w, "terminal")
       \/ /\ issuers[t].list = 0 /\ Mine(w).entry # 0 /\ Len(lists) < MaxMinted
          /\ ProvisionForIssuer(w)
          /\ UNCHANGED <<registry, minted, entryOf>>

RunCreateStep(w) ==
    \/ AllocateDid(w) \/ GenerateKeys(w) \/ BuildInitialDidlog(w) \/ PublishDidlog(w)
    \/ PersistIssuer(w) \/ CreateStatusListEntry(w) \/ ProvisionStatusList(w)
    \/ At(w, worker[w].step) /\ StepFails(w)

-----------------------------------------------------------------------------

(* advance_step merges the patch into state_data as it moves the step on,  *)
(* in one UPDATE; the other outcomes drop it.                              *)
Merge(w) == result[w]

ApplyCreateOutcome(w) ==
    /\ \/ AdvanceStep(w) /\ sd' = [sd EXCEPT ![worker[w].task] = Merge(w)]
       \/ (TryComplete(w) \/ ScheduleRetry(w) \/ TryFail(w)) /\ UNCHANGED sd
    /\ result' = [result EXCEPT ![w] = NoData]
    /\ UNCHANGED <<registry, minted, entryOf, issuers, lists>>

CrashInCreate(w) ==
    /\ Crash(w)
    /\ result' = [result EXCEPT ![w] = NoData]
    /\ UNCHANGED <<registry, minted, entryOf, issuers, lists, sd>>

CreateNext ==
    \/ \E t \in Tasks : (Submit(t) \/ TimerPasses(t) \/ Age(t)) /\ UNCHANGED createVars
    \/ \E w \in Workers :
          \/ (Claim(w) \/ Load(w) \/ LoadFails(w)) /\ UNCHANGED createVars
          \/ RunCreateStep(w) \/ ApplyCreateOutcome(w) \/ CrashInCreate(w)

CreateSpec == CreateInit /\ [][CreateNext]_<<taskVars, createVars>>

-----------------------------------------------------------------------------
(* Properties.                                                             *)

(* The DID and the keys of an issuer row are those of the log published    *)
(* under that DID, although publish_didlog and persist_issuer derive the   *)
(* entry separately, in runs that may be hours apart ("re-runs produce     *)
(* byte-identical SCID/entryHash").                                        *)
IssuerRowMatchesLog ==
    \A t \in Tasks : HasRow(t) =>
        /\ registry[issuers[t].genesis.did] = issuers[t].genesis
        /\ issuers[t].keys = issuers[t].genesis.keys

(* Once a wallet can resolve a DID, its genesis entry never changes, also  *)
(* when publish_didlog is repeated after a lost answer: the SCID is a hash *)
(* of that entry.                                                          *)
GenesisIsStable ==
    [][\A d \in DOMAIN registry :
          registry[d] # NoLog => registry'[d] = registry[d]]_registry

(* A completed creation leaves an issuer that can issue: a row and a list  *)
(* of its own that carries the entry recorded for it.                      *)
CompletedIsUsable ==
    \A t \in Tasks : task[t].state = "completed" =>
        /\ HasRow(t)
        /\ issuers[t].list \in DOMAIN lists
        /\ lists[issuers[t].list] = [issuer |-> t, entry |-> sd[t].entry]
        /\ entryOf[sd[t].entry] = t
=============================================================================
