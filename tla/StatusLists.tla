----------------------------- MODULE StatusLists -----------------------------
(***************************************************************************)
(* Issued credentials, the status list each is bound to, the three         *)
(* lifecycle requests of api_management/issued_credentials.rs (suspend,    *)
(* unsuspend, revoke), and the publisher of worker/status_list_publisher.rs *)
(* that brings dirty lists to the status registry.                         *)
(*                                                                         *)
(* A lifecycle request is one READ COMMITTED transaction, split where it   *)
(* takes a row lock: the credential is read without a lock, written under  *)
(* its row lock, and the bitstring is read and written under the list's    *)
(* row lock.  What a transaction wrote becomes visible at its commit.      *)
(***************************************************************************)
EXTENDS Naturals

CONSTANTS
    Credentials,  \* credentials that may be issued
    Lists,        \* status lists, numbered in the order of their created_at
    Capacity,     \* slots of a list (SWIYU_STATUS_LIST_CAPACITY)
    Requests,     \* lifecycle requests, each sent at some time or never
    Publishers    \* publish loops (the code starts one per process)

ASSUME StatusAssumption ==
    /\ Lists \subseteq Nat /\ Lists # {}
    /\ Credentials # {}
    /\ Capacity \in Nat \ {0}

VARIABLES
    cred,       \* issued_credentials
    bits,       \* status_lists.bitstring, one value per slot
    allocated,  \* status_lists.allocated_count
    committed,  \* status_lists.committed_version
    published,  \* status_lists.published_version
    timer,      \* status_lists.next_publish_attempt_at
    req,        \* the lifecycle requests
    pub,        \* the publish loops
    registry    \* the list as the status registry serves it

listVars   == <<bits, allocated, committed>>
statusVars == <<cred, bits, allocated, committed, published, timer, req, pub,
                registry>>

-----------------------------------------------------------------------------

Slots   == 0 .. Capacity - 1
States  == {"active", "suspended", "revoked"}
Values  == {"valid", "suspended", "revoked"}
Ops     == {"suspend", "unsuspend", "revoke"}
Timers  == {"null", "future", "passed"}
Bits    == [Slots -> Values]

(* try_suspend, try_unsuspend, try_revoke: where each may start, where it  *)
(* ends, and the StatusValue its handler writes to the list.               *)
AllowedFrom(op) == CASE op = "suspend"   -> {"active"}
                     [] op = "unsuspend" -> {"suspended"}
                     [] op = "revoke"    -> {"active", "suspended"}

NewState(op) == CASE op = "suspend"   -> "suspended"
                  [] op = "unsuspend" -> "active"
                  [] op = "revoke"    -> "revoked"

BitValue(op) == CASE op = "suspend"   -> "suspended"
                  [] op = "unsuspend" -> "valid"
                  [] op = "revoke"    -> "revoked"

CredentialRow == [state : {"none"} \union States, list : Lists, index : Slots]
InProgress == {"found", "stated", "locked"}
Request == [pc : {"idle", "done"} \union InProgress,
            cred : Credentials, op : Ops, copy : Bits]
Round   == [pc : {"idle", "acquired", "acked", "failed"},
            list : Lists, copy : Bits, target : Nat]

StatusTypeOK ==
    /\ cred \in [Credentials -> CredentialRow]
    /\ bits \in [Lists -> Bits]
    /\ allocated \in [Lists -> 0 .. Capacity]
    /\ committed \in [Lists -> Nat] /\ published \in [Lists -> Nat]
    /\ timer \in [Lists -> Timers]
    /\ req \in [Requests -> Request]
    /\ pub \in [Publishers -> Round]
    /\ registry \in [Lists -> Bits]

AllValid == [i \in Slots |-> "valid"]
SomeList == CHOOSE l \in Lists : TRUE

IdleRequest == [pc |-> "idle", cred |-> CHOOSE c \in Credentials : TRUE,
                op |-> "suspend", copy |-> AllValid]
DoneRequest == [IdleRequest EXCEPT !.pc = "done"]
IdleRound   == [pc |-> "idle", list |-> SomeList, copy |-> AllValid, target |-> 0]

(* A provisioned list: bitstring of zeroes, version 0, registry entry      *)
(* allocated (its empty content counts as all valid).                      *)
StatusInit ==
    /\ cred = [c \in Credentials |-> [state |-> "none", list |-> SomeList, index |-> 0]]
    /\ bits = [l \in Lists |-> AllValid]
    /\ allocated = [l \in Lists |-> 0]
    /\ committed = [l \in Lists |-> 0] /\ published = [l \in Lists |-> 0]
    /\ timer = [l \in Lists |-> "null"]
    /\ req = [r \in Requests |-> IdleRequest]
    /\ pub = [p \in Publishers |-> IdleRound]
    /\ registry = [l \in Lists |-> AllValid]

-----------------------------------------------------------------------------
(* Row locks, held until the end of the transaction.                       *)

CredentialLocked(c) == \E r \in Requests : req[r].pc \in {"stated", "locked"} /\ req[r].cred = c

ListLocked(l) == \E r \in Requests : req[r].pc = "locked" /\ cred[req[r].cred].list = l

(* Mutant: the index is the count after the allocation.                    *)
AllocateIndexOneBased(c, l) ==
    /\ cred[c].state = "none"
    /\ ~ListLocked(l)
    /\ allocated[l] < Capacity
    /\ cred' = [cred EXCEPT ![c] = [state |-> "active", list |-> l,
                                    index |-> allocated[l] + 1]]
    /\ allocated' = [allocated EXCEPT ![l] = allocated[l] + 1]
    /\ committed' = [committed EXCEPT ![l] = committed[l] + 1]
    /\ UNCHANGED <<bits, published, timer, req, pub, registry>>

(* The issuance transaction, seen from here: it takes the next index of    *)
(* the list and inserts the credential (see CredentialIssuance).           *)
AllocateIndex(c, l) ==
    /\ cred[c].state = "none"
    /\ ~ListLocked(l)
    /\ allocated[l] < Capacity
    /\ cred' = [cred EXCEPT ![c] = [state |-> "active", list |-> l, index |-> allocated[l]]]
    /\ allocated' = [allocated EXCEPT ![l] = allocated[l] + 1]
    /\ committed' = [committed EXCEPT ![l] = committed[l] + 1]
    /\ UNCHANGED <<bits, published, timer, req, pub, registry>>

-----------------------------------------------------------------------------
(* run_lifecycle_op.                                                       *)

(* find (no FOR UPDATE) and the transition check on the copy.  A request   *)
(* the check refuses answers 409 and changes nothing.                      *)
Find(r, c, op) ==
    /\ req[r].pc = "idle"
    /\ cred[c].state \in AllowedFrom(op)
    /\ req' = [req EXCEPT ![r].pc = "found", ![r].cred = c, ![r].op = op]
    /\ UNCHANGED <<cred, bits, allocated, committed, published, timer, pub, registry>>

(* set_state: UPDATE ... WHERE id and tenant match; blocks on the row.     *)
SetState(r) ==
    /\ req[r].pc = "found"
    /\ ~CredentialLocked(req[r].cred)
    /\ req' = [req EXCEPT ![r].pc = "stated"]
    /\ UNCHANGED <<cred, bits, allocated, committed, published, timer, pub, registry>>

(* Mutant: the bitstring is read without FOR UPDATE.                       *)
ReadBitstringUnlocked(r) ==
    LET l == cred[req[r].cred].list IN
    /\ req[r].pc = "stated"
    /\ req' = [req EXCEPT ![r].pc = "locked", ![r].copy = bits[l]]
    /\ UNCHANGED <<cred, bits, allocated, committed, published, timer, pub, registry>>

(* write_bit, first half: SELECT bitstring ... FOR UPDATE.                 *)
ReadBitstring(r) ==
    LET l == cred[req[r].cred].list IN
    /\ req[r].pc = "stated"
    /\ ~ListLocked(l)
    /\ req' = [req EXCEPT ![r].pc = "locked", ![r].copy = bits[l]]
    /\ UNCHANGED <<cred, bits, allocated, committed, published, timer, pub, registry>>

(* write_bit, second half, and COMMIT.                                     *)
WriteBitAndCommit(r) ==
    LET c == req[r].cred
        l == cred[c].list
    IN  /\ req[r].pc = "locked"
        /\ cred' = [cred EXCEPT ![c].state = NewState(req[r].op)]
        /\ bits' = [bits EXCEPT ![l] =
                       [req[r].copy EXCEPT ![cred[c].index] = BitValue(req[r].op)]]
        /\ committed' = [committed EXCEPT ![l] = committed[l] + 1]
        /\ req' = [req EXCEPT ![r] = DoneRequest]
        /\ UNCHANGED <<allocated, published, timer, pub, registry>>

(* An error or a crash at any point rolls the transaction back.            *)
Rollback(r) ==
    /\ req[r].pc \in InProgress
    /\ req' = [req EXCEPT ![r] = DoneRequest]
    /\ UNCHANGED <<cred, bits, allocated, committed, published, timer, pub, registry>>

-----------------------------------------------------------------------------
(* The publisher.                                                          *)

Dirty(l) == committed[l] > published[l]

(* ORDER BY next_publish_attempt_at NULLS FIRST, created_at; two passed    *)
(* timers are left unordered.                                              *)
OrderedBefore(k, l) == timer[k] = "null" /\ (timer[l] # "null" \/ k < l)

(* Mutant: only rows without a next_publish_attempt_at are picked up.      *)
AcquireNullTimersOnly(p, l) ==
    /\ pub[p].pc = "idle"
    /\ Dirty(l) /\ timer[l] = "null" /\ ~ListLocked(l)
    /\ timer' = [timer EXCEPT ![l] = "future"]
    /\ pub' = [pub EXCEPT ![p] = [pc |-> "acquired", list |-> l, copy |-> bits[l],
                                  target |-> committed[l]]]
    /\ UNCHANGED <<cred, bits, allocated, committed, published, req, registry>>

(* UPDATE ... (SELECT ... FOR UPDATE SKIP LOCKED) RETURNING: the lease is  *)
(* stamped and the row, bitstring included, is copied.                     *)
AcquireNextDirty(p, l) ==
    LET Candidates == {k \in Lists : Dirty(k) /\ timer[k] # "future" /\ ~ListLocked(k)}
    IN  /\ pub[p].pc = "idle"
        /\ l \in Candidates
        /\ \A k \in Candidates : ~OrderedBefore(k, l)
        /\ timer' = [timer EXCEPT ![l] = "future"]
        /\ pub' = [pub EXCEPT ![p] = [pc |-> "acquired", list |-> l, copy |-> bits[l],
                                      target |-> committed[l]]]
        /\ UNCHANGED <<cred, bits, allocated, committed, published, req, registry>>

(* The PUT takes effect at the registry.  The answer may still be lost.    *)
UpdateStatusListEntry(p) ==
    /\ pub[p].pc = "acquired"
    /\ registry' = [registry EXCEPT ![pub[p].list] = pub[p].copy]
    /\ \E pc \in {"acked", "failed"} : pub' = [pub EXCEPT ![p].pc = pc]
    /\ UNCHANGED <<cred, bits, allocated, committed, published, timer, req>>

(* Building the token, getting an access token or the PUT fails.           *)
RoundFails(p) ==
    /\ pub[p].pc = "acquired"
    /\ pub' = [pub EXCEPT ![p].pc = "failed"]
    /\ UNCHANGED <<cred, bits, allocated, committed, published, timer, req, registry>>

(* Mutant: the version current at the end of the round is recorded.        *)
RecordCurrentVersion(p) ==
    LET l == pub[p].list IN
    /\ pub[p].pc = "acked"
    /\ ~ListLocked(l)
    /\ published' = [published EXCEPT ![l] = committed[l]]
    /\ timer' = [timer EXCEPT ![l] = "null"]
    /\ pub' = [pub EXCEPT ![p] = IdleRound]
    /\ UNCHANGED <<cred, bits, allocated, committed, req, registry>>

(* record_publish_success: conditional on published_version < target.      *)
RecordPublishSuccess(p) ==
    LET l == pub[p].list
        won == published[l] < pub[p].target
    IN  /\ pub[p].pc = "acked"
        /\ ~ListLocked(l)
        /\ published' = IF won THEN [published EXCEPT ![l] = pub[p].target] ELSE published
        /\ timer' = IF won THEN [timer EXCEPT ![l] = "null"] ELSE timer
        /\ pub' = [pub EXCEPT ![p] = IdleRound]
        /\ UNCHANGED <<cred, bits, allocated, committed, req, registry>>

(* record_publish_failure: a backoff or the flat long retry.               *)
RecordPublishFailure(p) ==
    /\ pub[p].pc = "failed"
    /\ ~ListLocked(pub[p].list)
    /\ timer' = [timer EXCEPT ![pub[p].list] = "future"]
    /\ pub' = [pub EXCEPT ![p] = IdleRound]
    /\ UNCHANGED <<cred, bits, allocated, committed, published, req, registry>>

(* The process dies, or the outcome cannot be recorded: the lease stays.   *)
PublisherStops(p) ==
    /\ pub[p].pc # "idle"
    /\ pub' = [pub EXCEPT ![p] = IdleRound]
    /\ UNCHANGED <<cred, bits, allocated, committed, published, timer, req, registry>>

TimerPasses(l) ==
    /\ timer[l] = "future"
    /\ timer' = [timer EXCEPT ![l] = "passed"]
    /\ UNCHANGED <<cred, bits, allocated, committed, published, req, pub, registry>>

-----------------------------------------------------------------------------

LifecycleOp(r) ==
    \/ \E c \in Credentials, op \in Ops : Find(r, c, op)
    \/ SetState(r) \/ ReadBitstring(r) \/ WriteBitAndCommit(r) \/ Rollback(r)

PublishStep(p) ==
    \/ \E l \in Lists : AcquireNextDirty(p, l)
    \/ UpdateStatusListEntry(p) \/ RoundFails(p)
    \/ RecordPublishSuccess(p) \/ RecordPublishFailure(p) \/ PublisherStops(p)

StatusNext ==
    \/ \E c \in Credentials, l \in Lists : AllocateIndex(c, l)
    \/ \E r \in Requests : LifecycleOp(r)
    \/ \E p \in Publishers : PublishStep(p)
    \/ \E l \in Lists : TimerPasses(l)

StatusSpec == StatusInit /\ [][StatusNext]_statusVars

(* Transactions end, timers run out and the loop polls.  The registry does *)
(* not refuse every PUT for ever, and the process does not die each time   *)
(* between the answer and its record (strong fairness).                    *)
StatusFairness ==
    /\ \A r \in Requests : WF_statusVars(SetState(r) \/ ReadBitstring(r)
                                         \/ WriteBitAndCommit(r) \/ Rollback(r))
    /\ \A l \in Lists : WF_statusVars(TimerPasses(l))
    /\ \A p \in Publishers :
          /\ WF_statusVars(\E l \in Lists : AcquireNextDirty(p, l))
          /\ SF_statusVars(UpdateStatusListEntry(p) /\ pub'[p].pc = "acked")
          /\ SF_statusVars(RecordPublishSuccess(p))
          /\ WF_statusVars(RecordPublishFailure(p))

StatusFairSpec == StatusSpec /\ StatusFairness

-----------------------------------------------------------------------------
(* Properties.                                                             *)

StatusOf(state) == CASE state = "active"    -> "valid"
                     [] state = "suspended" -> "suspended"
                     [] state = "revoked"   -> "revoked"

(* The bit a verifier will see always says what the credential row says,   *)
(* although the row and the list are two tables and the requests of other  *)
(* credentials rewrite the same bitstring (run_lifecycle_op, write_bit).   *)
BitMatchesState ==
    \A c \in Credentials : cred[c].state # "none" =>
        bits[cred[c].list][cred[c].index] = StatusOf(cred[c].state)

(* allocate_index hands every credential a slot of its own.                *)
SlotsAreDistinct ==
    \A c, d \in Credentials :
        /\ cred[c].state # "none" /\ cred[d].state # "none"
        /\ cred[c].list = cred[d].list /\ cred[c].index = cred[d].index
        => c = d

(* What BitMatchesState rests on: slots at or above allocated_count are    *)
(* untouched, a request works on an issued credential, and while it holds  *)
(* the list's row lock nobody else does and its copy is the bitstring.     *)
FreeSlotsAreValid ==
    /\ \A c \in Credentials :
          cred[c].state # "none" => cred[c].index < allocated[cred[c].list]
    /\ \A l \in Lists, i \in Slots : i >= allocated[l] => bits[l][i] = "valid"

LockedListIsMine ==
    /\ \A r \in Requests : req[r].pc \in InProgress => cred[req[r].cred].state # "none"
    /\ \A r \in Requests :
          req[r].pc = "locked" => req[r].copy = bits[cred[req[r].cred].list]
    /\ \A r, q \in Requests :
          /\ req[r].pc = "locked" /\ req[q].pc = "locked"
          /\ cred[req[r].cred].list = cred[req[q].cred].list
          => r = q

StatusInv == SlotsAreDistinct /\ FreeSlotsAreValid /\ LockedListIsMine /\ BitMatchesState

(* A list the database calls clean is what the registry serves: a write    *)
(* that lands between the snapshot and the end of a round keeps the list   *)
(* dirty, and a lost answer or a crash never marks it clean.               *)
CleanMeansPublished ==
    \A l \in Lists : ~Dirty(l) => registry[l] = bits[l]

(* revoke: "Terminal -- revocation cannot be undone".                      *)
RevocationIsFinal ==
    [][\A c \in Credentials : cred[c].state = "revoked" => cred'[c] = cred[c]]_statusVars

(* What the database says of a credential reaches the verifiers: after the *)
(* last change every dirty list is brought to the registry, across failed  *)
(* rounds, lost answers and crashes, and although the other lists are      *)
(* served first as often as they get dirty (NULLS FIRST).                  *)
DirtyListsArePublished ==
    \A l \in Lists : []<>(registry[l] = bits[l])
=============================================================================
