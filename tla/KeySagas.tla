------------------------------ MODULE KeySagas ------------------------------
(***************************************************************************)
(* The two sagas that change an existing issuer, rotate_keys and           *)
(* deactivate_issuer, on one issuer row and its DID log at the identifier  *)
(* registry.  The tasks run on the queue of OperationTasks: a saga step    *)
(* can be retried, can crash before its outcome is written, and the worker *)
(* may turn to the other task between any two steps.                       *)
(*                                                                         *)
(* There is one dispatch loop, so nobody else writes the issuer row or the *)
(* log between the load of a step and its end: a step reads both directly. *)
(* A PUT replaces the whole log by the fetched one plus a new entry; its   *)
(* answer may be lost.  The registry is external and stores what it gets.  *)
(***************************************************************************)
EXTENDS OperationTasks, Sequences, SequencesExt

CONSTANTS
    Rotations,   \* rotate_keys tasks; the others are deactivate_issuer tasks
    Rotates,     \* Rotates[t]: the roles in the input of rotation t
    Submitters,  \* submit requests that may run at the same time
    MaxKeys,     \* bound of the model on generated keys
    MaxLog       \* bound of the model on the length of the log

ASSUME KeyAssumption ==
    /\ Rotations \subseteq Tasks
    /\ Rotates \in [Rotations -> (SUBSET {"authorized", "other"}) \ {{}}]
    /\ \A t \in Tasks : LastStep[t] = IF t \in Rotations THEN 4 ELSE 3
    /\ Submitters \in Nat /\ MaxKeys \in Nat \ {0} /\ MaxLog \in Nat \ {0}
    /\ "create_issuer" \notin Tasks  \* task ids are told apart from the first saga

VARIABLES
    issuer,      \* the issuer row: state and the keys it signs with
    log,         \* the DID log as the registry serves it
    sd,          \* state_data of the tasks
    result,      \* what the step a worker has run wants written
    error,       \* error_code of the failed tasks
    minted,      \* keys generated so far; key 1 is the issuer's first
    submitting,  \* submit requests between their check and their INSERT
    settled      \* history: the tasks that had ended when a task was submitted

sagaVars   == <<issuer, log, sd, result, error, minted>>
submitVars == <<submitting, settled>>
keyVars    == <<taskVars, sagaVars, submitVars>>

-----------------------------------------------------------------------------

(* The Authorized key signs log entries; the Authentication and Assertion  *)
(* keys are in the document and travel together here as "other".           *)
Keys    == [authorized : 0 .. MaxKeys, other : 0 .. MaxKeys]
NoKeys  == [authorized |-> 0, other |-> 0]
Entry   == [kind : {"genesis", "rotation", "deactivation"}, keys : Keys,
            signer : 0 .. MaxKeys, by : Tasks \union {"create_issuer"}]
Codes   == {"none", "already_rotated", "already_deactivated", "other"}
Data    == [keys : Keys, published : BOOLEAN]
NoData  == [keys |-> NoKeys, published |-> FALSE]
NoResult == [data |-> NoData, code |-> "none"]

KeyTypeOK ==
    /\ TaskTypeOK
    /\ issuer \in [state : {"active", "deactivated"}, keys : Keys]
    /\ log \in Seq(Entry) /\ Len(log) <= MaxLog
    /\ sd \in [Tasks -> Data]
    /\ result \in [Workers -> [data : Data, code : Codes]]
    /\ error \in [Tasks -> Codes]
    /\ minted \in 1 .. MaxKeys
    /\ submitting \subseteq Tasks
    /\ settled \in [Tasks -> SUBSET Tasks]

FirstKeys == [authorized |-> 1, other |-> 1]

KeyInit ==
    /\ TaskInit
    /\ issuer = [state |-> "active", keys |-> FirstKeys]
    /\ log = <<[kind |-> "genesis", keys |-> FirstKeys, signer |-> 1, by |-> "create_issuer"]>>
    /\ sd = [t \in Tasks |-> NoData]
    /\ result = [w \in Workers |-> NoResult]
    /\ error = [t \in Tasks |-> "none"]
    /\ minted = 1
    /\ submitting = {}
    /\ settled = [t \in Tasks |-> {}]

-----------------------------------------------------------------------------
(* POST rotate-keys and POST deactivate.                                   *)

SameType(t) == IF t \in Rotations THEN Rotations ELSE Tasks \ Rotations

(* find_latest_by_type_and_issuer: only the newest task of the type counts *)
(* (ORDER BY created_at DESC LIMIT 1), also when an older one is live.     *)
InFlight(t) ==
    \E u \in SameType(t) \intersect Submitted :
        /\ \A v \in SameType(t) \intersect Submitted : created[v] <= created[u]
        /\ task[u].state \in Live

(* The handler looks at the issuer and at the latest task of its type ...  *)
SubmitCheck(t) ==
    /\ task[t].state = "absent" /\ t \notin submitting
    /\ Cardinality(submitting) < Submitters
    /\ issuer.state = "active"
    /\ ~InFlight(t)
    /\ submitting' = submitting \union {t}
    /\ UNCHANGED <<taskVars, sagaVars, settled>>

(* ... and inserts in a statement of its own.                              *)
SubmitInsert(t) ==
    /\ t \in submitting
    /\ Submit(t)
    /\ submitting' = submitting \ {t}
    /\ settled' = [settled EXCEPT ![t] = {u \in Tasks : task[u].state \in Terminal}]
    /\ UNCHANGED sagaVars

-----------------------------------------------------------------------------
(* Steps.  Returns(w, o, code, d): the step ends with outcome o and, if    *)
(* done, with d as the state data to write.                                *)

Returns(w, o, code, d) ==
    /\ RunStep(w, o)
    /\ result' = [result EXCEPT ![w] = [data |-> d, code |-> code]]
    /\ UNCHANGED <<sd, error, submitVars>>

(* A step whose only effect is the outcome.                                *)
Ends(w, o, code, d) == Returns(w, o, code, d) /\ UNCHANGED <<issuer, log, minted>>

At(w, rotation, n) ==
    /\ worker[w].pc = "loaded" /\ worker[w].step = n
    /\ (worker[w].task \in Rotations) = rotation

Mine(w)      == sd[worker[w].task]
Published(w) == [Mine(w) EXCEPT !.published = TRUE]

(* The registry, the engine or the database fails before any effect.       *)
StepFails(w) ==
    \E o \in {"retry", "terminal"} : Ends(w, o, "other", Mine(w))

(* Mutant: the answer is taken for a success although the PUT failed.      *)
PutEntryUnchecked(w, entry) ==
    /\ Len(log) < MaxLog
    /\ \/ log' = Append(log, entry)
       \/ UNCHANGED log
    /\ Returns(w, "done", "none", Published(w))
    /\ UNCHANGED <<issuer, minted>>

(* PUT of the fetched log plus one entry.  A retryable error may hide that *)
(* the entry has arrived.                                                  *)
PutEntry(w, entry) ==
    /\ Len(log) < MaxLog
    /\ log' = Append(log, entry)
    /\ \/ Returns(w, "done", "none", Published(w))
       \/ Returns(w, "retry", "other", Mine(w))
    /\ UNCHANGED <<issuer, minted>>

GenerateNewKeys(w) ==
    LET roles == Rotates[worker[w].task]
        Key(role) == IF role \in roles THEN minted + 1 ELSE issuer.keys[role]
        new == [authorized |-> Key("authorized"), other |-> Key("other")]
    IN  /\ At(w, TRUE, 1)
        /\ \/ /\ Mine(w).keys # NoKeys
              /\ Ends(w, "done", "none", Mine(w))
           \/ /\ Mine(w).keys = NoKeys
              /\ minted < MaxKeys
              /\ minted' = minted + 1
              /\ Returns(w, "done", "none", [Mine(w) EXCEPT !.keys = new])
              /\ UNCHANGED <<issuer, log>>

(* What both chained builders ask of the issuer before they look at the    *)
(* log (ChainedBuildError); the rest of their errors are StepFails.        *)
Chainable == issuer.state = "active"

(* sign_and_append_proof: the key of the issuer row signs, whatever the    *)
(* tail of the log says.                                                   *)
Signer == issuer.keys.authorized

(* Mutant: a rotation never recognises its own entry.                      *)
AlreadyRotatedNever(w) == FALSE

(* build_rotation_entry: the early returns.  The outcome depends on the    *)
(* tail's updateKeys, which a deactivation entry does not carry.           *)
AlreadyRotated(w) ==
    Last(log).kind # "deactivation" /\ Last(log).keys.authorized = Mine(w).keys.authorized

BuildRotationDidlog(w) ==
    /\ At(w, TRUE, 2)
    /\ \/ ~Chainable /\ Ends(w, "terminal", "other", Mine(w))
       \/ /\ Chainable /\ AlreadyRotated(w)
          /\ Ends(w, "terminal", "already_rotated", Mine(w))
       \/ /\ Chainable /\ ~AlreadyRotated(w)
          /\ Ends(w, "done", "none", Mine(w))

(* Mutant: the entry is built from the issuer's keys instead of the new    *)
(* ones.                                                                   *)
RotationEntryOldKeys(w) == [kind |-> "rotation", keys |-> issuer.keys,
                            signer |-> Signer, by |-> worker[w].task]

(* Mutant: the incoming key signs its own introduction.                    *)
RotationEntryNewSigner(w) == [kind |-> "rotation", keys |-> Mine(w).keys,
                              signer |-> Mine(w).keys.authorized, by |-> worker[w].task]

(* The outgoing key of the issuer row signs the new entry.                 *)
RotationEntry(w) == [kind |-> "rotation", keys |-> Mine(w).keys,
                     signer |-> Signer, by |-> worker[w].task]

PublishRotation(w) ==
    /\ At(w, TRUE, 3)
    /\ \/ Mine(w).published /\ Ends(w, "done", "none", Mine(w))
       \/ /\ ~Mine(w).published /\ ~Chainable
          /\ Ends(w, "terminal", "other", Mine(w))
       \/ /\ ~Mine(w).published /\ Chainable
          /\ IF AlreadyRotated(w) THEN Ends(w, "done", "none", Published(w))
                                  ELSE PutEntry(w, RotationEntry(w))

(* Mutant: the UPDATE is not conditional on the state.                     *)
SwappableAlways == TRUE

Swappable == issuer.state = "active"

(* swap_key_triple: UPDATE ... WHERE state = 'active', then the look at    *)
(* the row that tells "already swapped" from "not found".  The commit may  *)
(* be reported as an error.                                                *)
SwapKeys(w) ==
    /\ At(w, TRUE, 4)
    /\ \/ /\ Swappable
          /\ issuer' = [issuer EXCEPT !.keys = Mine(w).keys]
          /\ Returns(w, "done", "none", Mine(w)) \/ Returns(w, "retry", "other", Mine(w))
          /\ UNCHANGED <<log, minted>>
       \/ ~Swappable /\ Ends(w, "terminal", "other", Mine(w))

AlreadyDeactivated == Last(log).kind = "deactivation"

BuildDeactivationDidlog(w) ==
    /\ At(w, FALSE, 1)
    /\ \/ ~Chainable /\ Ends(w, "terminal", "other", Mine(w))
       \/ /\ Chainable /\ AlreadyDeactivated
          /\ Ends(w, "terminal", "already_deactivated", Mine(w))
       \/ /\ Chainable /\ ~AlreadyDeactivated
          /\ Ends(w, "done", "none", Mine(w))

DeactivationEntry(w) == [kind |-> "deactivation", keys |-> Last(log).keys,
                         signer |-> Signer, by |-> worker[w].task]

PublishDeactivation(w) ==
    /\ At(w, FALSE, 2)
    /\ \/ Mine(w).published /\ Ends(w, "done", "none", Mine(w))
       \/ /\ ~Mine(w).published /\ ~Chainable
          /\ Ends(w, "terminal", "other", Mine(w))
       \/ /\ ~Mine(w).published /\ Chainable
          /\ IF AlreadyDeactivated THEN Ends(w, "done", "none", Published(w))
                                   ELSE PutEntry(w, DeactivationEntry(w))

(* try_deactivate accepts an issuer that is already deactivated.  What the *)
(* transaction does to the offers is in CredentialIssuance.                *)
MarkDeactivated(w) ==
    /\ At(w, FALSE, 3)
    /\ issuer' = [issuer EXCEPT !.state = "deactivated"]
    /\ Returns(w, "done", "none", Mine(w)) \/ Returns(w, "retry", "other", Mine(w))
    /\ UNCHANGED <<log, minted>>

RunSagaStep(w) ==
    \/ GenerateNewKeys(w) \/ BuildRotationDidlog(w) \/ PublishRotation(w) \/ SwapKeys(w)
    \/ BuildDeactivationDidlog(w) \/ PublishDeactivation(w) \/ MarkDeactivated(w)
    \/ StepFails(w)

-----------------------------------------------------------------------------
(* Writing the outcome: only advance_step merges the step's data.          *)

ApplySagaOutcome(w) ==
    LET t == worker[w].task IN
    /\ \/ /\ AdvanceStep(w)
          /\ sd' = [sd EXCEPT ![t] = result[w].data]
          /\ UNCHANGED error
       \/ /\ TryComplete(w) \/ ScheduleRetry(w)
          /\ UNCHANGED <<sd, error>>
       \/ /\ TryFail(w)
          /\ error' = [error EXCEPT ![t] = result[w].code]
          /\ UNCHANGED sd
    /\ result' = [result EXCEPT ![w] = NoResult]
    /\ UNCHANGED <<issuer, log, minted, submitVars>>

CrashInSaga(w) ==
    /\ Crash(w)
    /\ result' = [result EXCEPT ![w] = NoResult]
    /\ UNCHANGED <<issuer, log, sd, error, minted, submitVars>>

KeyNext ==
    \/ \E t \in Tasks :
          \/ SubmitCheck(t) \/ SubmitInsert(t)
          \/ (TimerPasses(t) \/ Age(t)) /\ UNCHANGED <<sagaVars, submitVars>>
    \/ \E w \in Workers :
          \/ (Claim(w) \/ Load(w) \/ LoadFails(w)) /\ UNCHANGED <<sagaVars, submitVars>>
          \/ RunSagaStep(w) \/ ApplySagaOutcome(w) \/ CrashInSaga(w)

KeySpec == KeyInit /\ [][KeyNext]_keyVars

Quietly(A) == A /\ UNCHANGED <<sagaVars, submitVars>>

(* TaskFairness, for a loop whose steps are those of the two sagas.        *)
KeyFairness ==
    /\ \A w \in Workers :
          /\ WF_keyVars(Quietly(\E t \in Tasks : FindNextAcquirable(w, t)))
          /\ SF_keyVars(Quietly(SetAcquired(w)))
          /\ SF_keyVars(Quietly(Load(w)))
          /\ SF_keyVars(RunSagaStep(w)) /\ SF_keyVars(ApplySagaOutcome(w))
    /\ \A t \in Tasks :
          WF_keyVars(Quietly(TimerPasses(t))) /\ WF_keyVars(Quietly(Age(t)))

KeyFairSpec == KeySpec /\ KeyFairness

-----------------------------------------------------------------------------
(* Properties.                                                             *)

Deactivations == Tasks \ Rotations

(* The rotations that bring a new Authorized key.  build_rotation_entry    *)
(* takes any tail with the key it already has for the entry of a rotation  *)
(* that keeps it, so one of those may complete without a publish (README,  *)
(* known divergences).                                                     *)
Rekeying == {t \in Rotations : "authorized" \in Rotates[t]}

(* The keys the issuer row signs with are together in some published       *)
(* version of its DID document, unless they are those of a rotation that   *)
(* left the Authorized key alone: the row is swapped after the publish,    *)
(* never because of a publish that did not happen, and never to a mixture  *)
(* of two rotations that the check-then-insert of the handler let overlap. *)
IssuerKeysArePublished ==
    \/ \E i \in DOMAIN log : log[i].keys = issuer.keys
    \/ \E t \in Rotations \ Rekeying : issuer.keys = sd[t].keys

(* A rotation that a poller sees completed has been published, and its     *)
(* keys are the issuer's unless another rotation replaced them that was    *)
(* submitted later or was in flight beside it: one that had ended before   *)
(* it was submitted never comes back, whatever is repeated or late.        *)
CompletedRotationIsInForce ==
    \A t \in Rotations : task[t].state = "completed" =>
        /\ t \in Rekeying =>
              \E i \in DOMAIN log : log[i].by = t /\ log[i].keys = sd[t].keys
        /\ \/ issuer.keys = sd[t].keys
           \/ \E u \in Rotations \ settled[t] : issuer.keys = sd[u].keys

(* The issuer row says deactivated only when the log is closed.            *)
DeactivatedMeansClosed ==
    issuer.state = "deactivated" => \E i \in DOMAIN log : log[i].kind = "deactivation"

(* A deactivated issuer keeps its state and its keys for good, whatever    *)
(* rotation was under way when it was deactivated.                         *)
DeactivatedIsFrozen ==
    [][issuer.state = "deactivated" => issuer' = issuer]_issuer

(* A PUT whose answer is lost, or whose worker dies before recording it,   *)
(* is repeated; the task finds its own entry at the tail and does not add  *)
(* it again: "Saga-resume after a crash between a successful PUT and the   *)
(* state-patch write is handled by inspecting the registry's tail itself". *)
NoRepeatedTail ==
    \A i \in 2 .. Len(log) : log[i].by # log[i - 1].by

(* Every entry is signed by an Authorized key that an earlier entry made   *)
(* public, also when the tasks alternate or a rotation was published and   *)
(* never swapped in.                                                       *)
EntriesSignedByPublishedKey ==
    \A i \in 2 .. Len(log) : \E j \in 1 .. i - 1 : log[i].signer = log[j].keys.authorized

(* The next two do not hold (README, known divergences); no run has them.  *)

(* "A rotation rotates one, two, or all three of the issuer's keys": none  *)
(* is turned away as already rotated.  One without the Authorized key is.  *)
RotationsAreNotRefused ==
    \A t \in Rotations : error[t] # "already_rotated"

(* "saga should not have reached build_deactivation_didlog" with a log     *)
(* that is already closed.  It does, after a failed mark_deactivated.      *)
DeactivationsAreNotRefused ==
    \A t \in Deactivations : error[t] # "already_deactivated"
=============================================================================
