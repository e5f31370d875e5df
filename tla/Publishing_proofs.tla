-------------------------- MODULE Publishing_proofs --------------------------
(***************************************************************************)
(* Proofs about what is published to the registries: the status lists, for *)
(* any number of credentials, lists, concurrent requests and publishers,   *)
(* any capacity and any bound; and the token provider whose tokens the     *)
(* calls to the registries present, for any number of callers, replicas    *)
(* and imports.  The two components share no state.                        *)
(***************************************************************************)
EXTENDS StatusLists, TokenProvider, TLAPS

-----------------------------------------------------------------------------
(* The status lists.                                                       *)

(* An operation leads to a state and writes a value.                       *)
LEMMA OpTypes ==
    ASSUME NEW op \in Ops
    PROVE  NewState(op) \in States /\ BitValue(op) \in Values
  BY DEF Ops, NewState, BitValue, States, Values

(* Each handler of the lifecycle requests passes the StatusValue that      *)
(* belongs to the state it moves the credential to.                        *)
LEMMA OpWritesItsValue ==
    ASSUME NEW op \in Ops PROVE BitValue(op) = StatusOf(NewState(op))
  BY DEF Ops, NewState, BitValue, StatusOf

(* The records the lists, requests and rounds start with are well formed.  *)
LEMMA IdleTypes == /\ AllValid \in Bits /\ SomeList \in Lists
                   /\ IdleRequest \in Request /\ DoneRequest \in Request
                   /\ IdleRound \in Round
<1>1. AllValid \in Bits /\ SomeList \in Lists
  BY StatusAssumption DEF AllValid, Bits, Values, SomeList
<1>2. (CHOOSE c \in Credentials : TRUE) \in Credentials
  BY StatusAssumption
<1> QED
  BY <1>1, <1>2 DEF IdleRequest, DoneRequest, IdleRound, Request, Round, Ops

(* The tables, the requests' copies and the publishers' snapshots keep     *)
(* their types; in particular no index is handed out beyond the capacity.  *)
THEOREM StatusTypes == StatusSpec => []StatusTypeOK
<1>1. StatusInit => StatusTypeOK
  <2>1. 0 \in Slots /\ 0 \in 0 .. Capacity
    BY StatusAssumption DEF Slots
  <2> QED
    BY <2>1, IdleTypes DEF StatusInit, StatusTypeOK, CredentialRow, Timers
<1>2. StatusTypeOK /\ [StatusNext]_statusVars => StatusTypeOK'
  <2> SUFFICES ASSUME StatusTypeOK, [StatusNext]_statusVars PROVE StatusTypeOK'
    OBVIOUS
  <2>1. ASSUME NEW c \in Credentials, NEW l \in Lists, AllocateIndex(c, l)
        PROVE  StatusTypeOK'
    <3>1. allocated[l] \in Slots /\ allocated[l] + 1 \in 0 .. Capacity
      BY <2>1, StatusAssumption DEF StatusTypeOK, AllocateIndex, Slots
    <3>2. [state |-> "active", list |-> l, index |-> allocated[l]] \in CredentialRow
      BY <3>1 DEF CredentialRow, States
    <3> QED
      BY <2>1, <3>1, <3>2 DEF StatusTypeOK, AllocateIndex
  <2>2. ASSUME NEW r \in Requests, NEW c \in Credentials, NEW op \in Ops,
               Find(r, c, op)
        PROVE  StatusTypeOK'
    <3> DEFINE row == [req[r] EXCEPT !.pc = "found", !.cred = c, !.op = op]
    <3>1. row \in Request
      BY DEF StatusTypeOK, Request, InProgress
    <3>2. /\ req' = [req EXCEPT ![r] = row]
          /\ UNCHANGED <<cred, bits, allocated, committed, published, timer, pub, registry>>
      BY <2>2 DEF Find, StatusTypeOK
    <3> QED
      BY <3>1, <3>2 DEF StatusTypeOK
  <2>3. ASSUME NEW r \in Requests, SetState(r) PROVE StatusTypeOK'
    BY <2>3 DEF StatusTypeOK, SetState, Request, InProgress
  <2>4. ASSUME NEW r \in Requests, ReadBitstring(r) PROVE StatusTypeOK'
    <3>1. bits[cred[req[r].cred].list] \in Bits
      BY DEF StatusTypeOK, Request, InProgress, CredentialRow
    <3> DEFINE row == [req[r] EXCEPT !.pc = "locked",
                                     !.copy = bits[cred[req[r].cred].list]]
    <3>2. row \in Request
      BY <3>1 DEF StatusTypeOK, Request, InProgress
    <3>3. /\ req' = [req EXCEPT ![r] = row]
          /\ UNCHANGED <<cred, bits, allocated, committed, published, timer, pub, registry>>
      BY <2>4 DEF ReadBitstring, StatusTypeOK
    <3> QED
      BY <3>2, <3>3 DEF StatusTypeOK
  <2>5. ASSUME NEW r \in Requests, WriteBitAndCommit(r) PROVE StatusTypeOK'
    <3> DEFINE c == req[r].cred
               l == cred[c].list
               new == [req[r].copy EXCEPT ![cred[c].index] = BitValue(req[r].op)]
    <3>1. /\ c \in Credentials /\ req[r].op \in Ops /\ l \in Lists
          /\ req[r].copy \in Bits /\ cred[c] \in CredentialRow
      BY DEF StatusTypeOK, Request, InProgress, CredentialRow
    <3>2. new \in Bits
      BY <3>1, OpTypes DEF Bits
    <3>3. [cred[c] EXCEPT !.state = NewState(req[r].op)] \in CredentialRow
      BY <3>1, OpTypes DEF CredentialRow
    <3>4. /\ cred' = [cred EXCEPT ![c] = [cred[c] EXCEPT !.state = NewState(req[r].op)]]
          /\ bits' = [bits EXCEPT ![l] = new]
          /\ committed' = [committed EXCEPT ![l] = committed[l] + 1]
          /\ req' = [req EXCEPT ![r] = DoneRequest]
          /\ UNCHANGED <<allocated, published, timer, pub, registry>>
      BY <2>5 DEF WriteBitAndCommit
    <3> HIDE DEF c, l, new
    <3> QED
      BY <3>1, <3>2, <3>3, <3>4, IdleTypes DEF StatusTypeOK
  <2>6. ASSUME NEW r \in Requests, Rollback(r) PROVE StatusTypeOK'
    BY <2>6, IdleTypes DEF StatusTypeOK, Rollback
  <2>7. ASSUME NEW p \in Publishers, NEW l \in Lists, AcquireNextDirty(p, l)
        PROVE  StatusTypeOK'
    <3>1. [pc |-> "acquired", list |-> l, copy |-> bits[l], target |-> committed[l]]
             \in Round
      BY DEF StatusTypeOK, Round
    <3> QED
      BY <2>7, <3>1 DEF StatusTypeOK, AcquireNextDirty, Timers
  <2>8. ASSUME NEW p \in Publishers, UpdateStatusListEntry(p) PROVE StatusTypeOK'
    <3>1. pub[p] \in Round /\ pub[p].list \in Lists /\ pub[p].copy \in Bits
      BY DEF StatusTypeOK, Round
    <3>2. PICK pc \in {"acked", "failed"} :
             pub' = [pub EXCEPT ![p] = [pub[p] EXCEPT !.pc = pc]]
      BY <2>8 DEF UpdateStatusListEntry, StatusTypeOK
    <3>3. [pub[p] EXCEPT !.pc = pc] \in Round
      BY <3>1 DEF Round
    <3> QED
      BY <2>8, <3>1, <3>2, <3>3 DEF StatusTypeOK, UpdateStatusListEntry
  <2>9. ASSUME NEW p \in Publishers, RoundFails(p) PROVE StatusTypeOK'
    BY <2>9 DEF StatusTypeOK, RoundFails, Round
  <2>10. ASSUME NEW p \in Publishers,
                RecordPublishSuccess(p) \/ RecordPublishFailure(p) \/ PublisherStops(p)
         PROVE  StatusTypeOK'
    BY <2>10, IdleTypes
    DEF StatusTypeOK, RecordPublishSuccess, RecordPublishFailure, PublisherStops,
        Round, Timers
  <2>11. ASSUME NEW l \in Lists, TimerPasses(l) PROVE StatusTypeOK'
    BY <2>11 DEF StatusTypeOK, TimerPasses, Timers
  <2>12. CASE UNCHANGED statusVars
    BY <2>12 DEF StatusTypeOK, statusVars
  <2> QED
    BY <2>1, <2>2, <2>3, <2>4, <2>5, <2>6, <2>7, <2>8, <2>9, <2>10, <2>11, <2>12
    DEF StatusNext, LifecycleOp, PublishStep
<1> QED
  BY <1>1, <1>2, PTL DEF StatusSpec

(***************************************************************************)
(* BitMatchesState is not inductive: WriteBitAndCommit writes back a whole *)
(* bitstring, so its proof needs that the copy is still the bitstring      *)
(* (LockedListIsMine), that no two credentials share a slot                *)
(* (SlotsAreDistinct), and a new credential's slot must be free and valid  *)
(* (FreeSlotsAreValid).                                                    *)
(***************************************************************************)
(* The inductive invariant of the bitstrings.                              *)
LEMMA StatusInvHolds == StatusSpec => []StatusInv
<1> USE DEF StatusInv, SlotsAreDistinct, FreeSlotsAreValid, LockedListIsMine,
            BitMatchesState
<1>1. StatusInit => StatusInv
  <2> SUFFICES ASSUME StatusInit PROVE StatusInv
    OBVIOUS
  <2>1. /\ \A c \in Credentials : cred[c].state = "none"
        /\ \A r \in Requests : req[r].pc = "idle"
        /\ \A l \in Lists, i \in Slots : bits[l][i] = "valid"
    BY DEF StatusInit, IdleRequest, AllValid
  <2> QED
    BY <2>1 DEF InProgress
<1>2. StatusInv /\ StatusTypeOK /\ [StatusNext]_statusVars => StatusInv'
  <2> SUFFICES ASSUME StatusInv, StatusTypeOK, [StatusNext]_statusVars
               PROVE  StatusInv'
    OBVIOUS
  <2>1. ASSUME NEW c \in Credentials, NEW l \in Lists, AllocateIndex(c, l)
        PROVE  StatusInv'
    <3>1. /\ cred[c].state = "none" /\ ~ListLocked(l)
          /\ cred' = [cred EXCEPT ![c] = [state |-> "active", list |-> l,
                                          index |-> allocated[l]]]
          /\ allocated' = [allocated EXCEPT ![l] = allocated[l] + 1]
          /\ UNCHANGED <<bits, req>>
          /\ allocated[l] \in Nat /\ allocated[l] \in Slots
      BY <2>1, StatusAssumption DEF AllocateIndex, StatusTypeOK, Slots
    <3>2. \A d \in Credentials : d # c => cred'[d] = cred[d]
      BY <3>1 DEF StatusTypeOK
    <3>3. /\ cred'[c].state = "active" /\ cred'[c].list = l
          /\ cred'[c].index = allocated[l]
      BY <3>1 DEF StatusTypeOK
    <3>4. \A r \in Requests : req[r].pc \in InProgress => req[r].cred # c
      BY <3>1
    <3>5. \A k \in Lists : allocated'[k] >= allocated[k] /\ allocated[k] \in Nat
      BY <3>1 DEF StatusTypeOK
    <3>6. \A d \in Credentials : d # c /\ cred[d].state # "none" =>
             cred[d].index < allocated[cred[d].list] /\ cred[d].list \in Lists
             /\ cred[d].index \in Nat
      BY StatusAssumption DEF StatusTypeOK, CredentialRow, Slots
    <3>7. SlotsAreDistinct'
      BY <3>1, <3>2, <3>3, <3>6
    <3>8. FreeSlotsAreValid'
      <4>1. \A d \in Credentials :
               cred'[d].state # "none" => cred'[d].index < allocated'[cred'[d].list]
        BY <3>1, <3>2, <3>3, <3>5, <3>6 DEF StatusTypeOK
      <4>2. \A k \in Lists, i \in Slots : i >= allocated'[k] => bits'[k][i] = "valid"
        BY <3>1, <3>5 DEF Slots
      <4> QED
        BY <4>1, <4>2
    <3>9. LockedListIsMine'
      BY <3>1, <3>2, <3>4 DEF StatusTypeOK, Request, InProgress
    <3>10. BitMatchesState'
      <4>1. bits'[l][allocated[l]] = "valid" /\ StatusOf("active") = "valid"
        BY <3>1 DEF StatusOf
      <4> QED
        BY <3>1, <3>2, <3>3, <4>1
    <3> QED
      BY <3>7, <3>8, <3>9, <3>10
  <2>2. ASSUME NEW r \in Requests, NEW c \in Credentials, NEW op \in Ops,
               Find(r, c, op)
        PROVE  StatusInv'
    <3>1. cred[c].state # "none"
      BY <2>2 DEF Find, AllowedFrom, Ops
    <3>2. /\ req'[r].pc = "found" /\ req'[r].cred = c
          /\ \A q \in Requests : q # r => req'[q] = req[q]
      BY <2>2 DEF Find, StatusTypeOK, Request, InProgress
    <3>3. UNCHANGED <<cred, bits, allocated>>
      BY <2>2 DEF Find
    <3>4. LockedListIsMine'
      BY <3>1, <3>2, <3>3
    <3>5. SlotsAreDistinct' /\ FreeSlotsAreValid' /\ BitMatchesState'
      BY <3>3
    <3> QED
      BY <3>4, <3>5
  <2>3. ASSUME NEW r \in Requests, SetState(r) PROVE StatusInv'
    BY <2>3 DEF SetState, StatusTypeOK, Request, InProgress
  <2>4. ASSUME NEW r \in Requests, ReadBitstring(r) PROVE StatusInv'
    <3> DEFINE l == cred[req[r].cred].list
    <3>1. /\ req'[r].pc = "locked" /\ req'[r].copy = bits[l]
          /\ req'[r].cred = req[r].cred /\ req'[r].op = req[r].op
          /\ \A q \in Requests : q # r => req'[q] = req[q]
      BY <2>4 DEF ReadBitstring, StatusTypeOK, Request, InProgress
    <3>2. /\ req[r].pc = "stated" /\ ~ListLocked(l)
          /\ UNCHANGED <<cred, bits, allocated>>
      BY <2>4 DEF ReadBitstring
    <3>3. \A q \in Requests : req[q].pc = "locked" => cred[req[q].cred].list # l
      BY <3>2 DEF ListLocked
    <3>4. LockedListIsMine'
      <4>1. \A q \in Requests : req'[q].cred = req[q].cred
        BY <3>1
      <4>2. \A q \in Requests :
               req'[q].pc = "locked" => req'[q].copy = bits[cred[req[q].cred].list]
        BY <3>1
      <4>3. \A q \in Requests : req'[q].pc \in InProgress => cred[req[q].cred].state # "none"
        BY <3>1, <3>2 DEF InProgress
      <4>4. \A p, q \in Requests :
               /\ req'[p].pc = "locked" /\ req'[q].pc = "locked"
               /\ cred[req[p].cred].list = cred[req[q].cred].list
               => p = q
        BY <3>1, <3>3
      <4> QED
        BY <3>2, <4>1, <4>2, <4>3, <4>4
    <3>5. SlotsAreDistinct' /\ FreeSlotsAreValid' /\ BitMatchesState'
      BY <3>2
    <3> QED
      BY <3>4, <3>5
  <2>5. ASSUME NEW r \in Requests, WriteBitAndCommit(r) PROVE StatusInv'
    <3> DEFINE c == req[r].cred
               l == cred[c].list
               op == req[r].op
               new == [bits[l] EXCEPT ![cred[c].index] = BitValue(op)]
    <3>1. /\ c \in Credentials /\ op \in Ops /\ l \in Lists
          /\ cred[c].index \in Slots /\ cred[c].state # "none"
          /\ cred[c] \in CredentialRow /\ req[r].pc = "locked"
      BY <2>5 DEF WriteBitAndCommit, StatusTypeOK, Request, InProgress, CredentialRow
    <3>2. /\ cred' = [cred EXCEPT ![c] = [cred[c] EXCEPT !.state = NewState(op)]]
          /\ bits' = [bits EXCEPT ![l] = new]
          /\ req' = [req EXCEPT ![r] = DoneRequest]
          /\ UNCHANGED allocated
      BY <2>5 DEF WriteBitAndCommit
    <3>3. NewState(op) \in States /\ BitValue(op) = StatusOf(NewState(op))
      BY <3>1, OpTypes, OpWritesItsValue
    <3> HIDE DEF c, l, op, new
    <3>4. /\ \A d \in Credentials : cred'[d].list = cred[d].list
                                   /\ cred'[d].index = cred[d].index
          /\ \A d \in Credentials : cred'[d].state = "none" <=> cred[d].state = "none"
          /\ \A d \in Credentials : d # c => cred'[d].state = cred[d].state
          /\ cred'[c].state = NewState(op)
      BY <3>1, <3>2, <3>3 DEF StatusTypeOK, CredentialRow, States
    <3>5. /\ \A k \in Lists : k # l => bits'[k] = bits[k]
          /\ \A i \in Slots : i # cred[c].index => bits'[l][i] = bits[l][i]
          /\ bits'[l][cred[c].index] = BitValue(op)
      BY <3>1, <3>2 DEF StatusTypeOK, Bits, new
    <3>6. /\ \A q \in Requests : q # r => req'[q] = req[q]
          /\ req'[r].pc = "done"
      BY <3>2 DEF StatusTypeOK, DoneRequest, IdleRequest
    <3>7. SlotsAreDistinct'
      BY <3>4
    <3>8. FreeSlotsAreValid'
      <4>1. cred[c].index < allocated[l] /\ cred[c].index \in Nat /\ allocated[l] \in Nat
        BY <3>1 DEF l, StatusTypeOK, Slots
      <4>2. \A k \in Lists, i \in Slots : i >= allocated'[k] => bits'[k][i] = "valid"
        BY <3>1, <3>2, <3>5, <4>1 DEF Slots
      <4> QED
        BY <3>2, <3>4, <4>2
    <3>9. LockedListIsMine'
      <4>1. \A q \in Requests : q # r /\ req[q].pc = "locked" =>
               cred[req[q].cred].list # l /\ cred[req[q].cred].list \in Lists
        BY <3>1 DEF l, c, StatusTypeOK, Request, InProgress, CredentialRow
      <4>2. \A q \in Requests : req[q].cred \in Credentials
        BY DEF StatusTypeOK, Request, InProgress
      <4> QED
        BY <3>4, <3>5, <3>6, <4>1, <4>2 DEF InProgress
    <3>10. BitMatchesState'
      <4> SUFFICES ASSUME NEW d \in Credentials, cred'[d].state # "none"
                   PROVE  bits'[cred[d].list][cred[d].index] = StatusOf(cred'[d].state)
        BY <3>4
      <4>1. CASE d = c
        BY <3>3, <3>4, <3>5, <4>1 DEF l
      <4>2. CASE d # c
        <5>1. cred[d].state # "none" /\ cred[d].list \in Lists /\ cred[d].index \in Slots
          BY <3>4 DEF StatusTypeOK, CredentialRow
        <5>2. cred[d].list # l \/ cred[d].index # cred[c].index
          BY <3>1, <4>2, <5>1 DEF l
        <5>3. bits'[cred[d].list][cred[d].index] = bits[cred[d].list][cred[d].index]
          BY <3>5, <5>1, <5>2
        <5> QED
          BY <3>4, <4>2, <5>1, <5>3
      <4> QED
        BY <4>1, <4>2
    <3> QED
      BY <3>7, <3>8, <3>9, <3>10
  <2>6. ASSUME NEW r \in Requests, Rollback(r) PROVE StatusInv'
    BY <2>6 DEF Rollback, StatusTypeOK, InProgress, DoneRequest, IdleRequest
  <2>7. ASSUME UNCHANGED <<cred, bits, allocated, req>> PROVE StatusInv'
    BY <2>7
  <2> QED
    BY <2>1, <2>2, <2>3, <2>4, <2>5, <2>6, <2>7
    DEF StatusNext, LifecycleOp, PublishStep, AcquireNextDirty, RoundFails,
        UpdateStatusListEntry, RecordPublishSuccess, RecordPublishFailure,
        PublisherStops, TimerPasses, statusVars
<1> QED
  BY <1>1, <1>2, StatusTypes, PTL DEF StatusSpec

(* However many lifecycle requests, issuances and publish rounds run at    *)
(* once, the slot of every issued credential carries the value of its row  *)
(* (run_lifecycle_op and write_bit under the list's row lock).             *)
THEOREM BitsFollowStates == StatusSpec => []BitMatchesState
  BY StatusInvHolds, PTL DEF StatusInv

(***************************************************************************)
(* The publisher.  The binary starts one publish loop, and what a clean    *)
(* list says of the registry holds for one: the PUT of a second publisher  *)
(* whose lease has run out would put an old snapshot over a newer one.     *)
(***************************************************************************)
OnePublisher == \A p, q \in Publishers : p = q

(* A round under way: its list is dirty until its end, its snapshot is the *)
(* bitstring unless a commit came after it, and an acknowledged PUT is     *)
(* what the registry serves.                                               *)
RoundOK(p) ==
    LET l == pub[p].list IN
    pub[p].pc # "idle" =>
        /\ published[l] < pub[p].target /\ pub[p].target <= committed[l]
        /\ pub[p].target = committed[l] => pub[p].copy = bits[l]
        /\ pub[p].pc = "acked" => registry[l] = pub[p].copy

PublishInv ==
    /\ \A l \in Lists : published[l] <= committed[l]
    /\ \A p \in Publishers : RoundOK(p)
    /\ CleanMeansPublished

(* A commit to a list, bitstring or allocation: the list is dirty, and a   *)
(* snapshot taken before is behind.                                        *)
LEMMA CommitPreserves ==
    ASSUME StatusTypeOK, PublishInv, NEW l \in Lists, NEW new,
           bits' = [bits EXCEPT ![l] = new],
           committed' = [committed EXCEPT ![l] = committed[l] + 1],
           UNCHANGED <<published, pub, registry>>
    PROVE  PublishInv'
<1>1. /\ committed'[l] = committed[l] + 1
      /\ \A k \in Lists : k # l => committed'[k] = committed[k] /\ bits'[k] = bits[k]
      /\ \A k \in Lists : committed[k] \in Nat /\ published[k] \in Nat
  BY DEF StatusTypeOK
<1>2. \A p \in Publishers : pub[p].list \in Lists /\ pub[p].target \in Nat
  BY DEF StatusTypeOK, Round
<1>3. \A k \in Lists : published'[k] <= committed'[k]
  BY <1>1 DEF PublishInv
<1>4. \A p \in Publishers : RoundOK(p)'
  BY <1>1, <1>2 DEF PublishInv, RoundOK
<1>5. CleanMeansPublished'
  BY <1>1 DEF PublishInv, CleanMeansPublished, Dirty
<1> QED
  BY <1>3, <1>4, <1>5 DEF PublishInv

(* The publisher takes a snapshot of a dirty list.                         *)
LEMMA AcquirePreserves ==
    ASSUME StatusTypeOK, PublishInv, NEW p \in Publishers, NEW l \in Lists,
           AcquireNextDirty(p, l)
    PROVE  PublishInv'
<1>1. /\ pub'[p].pc = "acquired" /\ pub'[p].list = l /\ pub'[p].copy = bits[l]
      /\ pub'[p].target = committed[l]
      /\ \A q \in Publishers : q # p => pub'[q] = pub[q]
      /\ Dirty(l) /\ UNCHANGED <<bits, committed, published, registry>>
  BY DEF AcquireNextDirty, StatusTypeOK
<1>2. committed[l] \in Nat /\ published[l] \in Nat
  BY DEF StatusTypeOK
<1>3. \A q \in Publishers : RoundOK(q)'
  BY <1>1, <1>2 DEF PublishInv, RoundOK, Dirty
<1> QED
  BY <1>1, <1>3 DEF PublishInv, CleanMeansPublished, Dirty

(* The PUT: the list stays dirty, since this is the only round.            *)
LEMMA PutPreserves ==
    ASSUME OnePublisher, StatusTypeOK, PublishInv, NEW p \in Publishers,
           UpdateStatusListEntry(p)
    PROVE  PublishInv'
<1> DEFINE l == pub[p].list
<1>1. /\ l \in Lists /\ pub[p].target \in Nat /\ pub[p].pc = "acquired"
      /\ committed[l] \in Nat /\ published[l] \in Nat
      /\ published[l] < pub[p].target /\ pub[p].target <= committed[l]
      /\ pub[p].target = committed[l] => pub[p].copy = bits[l]
  BY DEF UpdateStatusListEntry, PublishInv, RoundOK, StatusTypeOK, Round
<1>2. /\ registry'[l] = pub[p].copy
      /\ \A k \in Lists : k # l => registry'[k] = registry[k]
      /\ pub'[p].list = l /\ pub'[p].copy = pub[p].copy /\ pub'[p].target = pub[p].target
      /\ UNCHANGED <<bits, committed, published>>
  BY <1>1 DEF UpdateStatusListEntry, StatusTypeOK, Round
<1> HIDE DEF l
<1>3. \A q \in Publishers : q = p
  BY DEF OnePublisher
<1>4. \A q \in Publishers : RoundOK(q)'
  BY <1>1, <1>2, <1>3 DEF RoundOK
<1>5. CleanMeansPublished'
  BY <1>1, <1>2 DEF PublishInv, CleanMeansPublished, Dirty
<1> QED
  BY <1>2, <1>4, <1>5 DEF PublishInv

(* The end of a successful round.                                          *)
LEMMA RecordPreserves ==
    ASSUME OnePublisher, StatusTypeOK, PublishInv, NEW p \in Publishers,
           RecordPublishSuccess(p)
    PROVE  PublishInv'
<1> DEFINE l == pub[p].list
           n == pub[p].target
<1>1. /\ l \in Lists /\ n \in Nat /\ pub[p].pc = "acked"
      /\ committed[l] \in Nat /\ published[l] \in Nat
      /\ published[l] < n /\ n <= committed[l]
      /\ n = committed[l] => registry[l] = bits[l]
  BY DEF RecordPublishSuccess, PublishInv, RoundOK, StatusTypeOK, Round
<1>2. /\ published'[l] = n
      /\ \A k \in Lists : k # l => published'[k] = published[k]
      /\ pub'[p].pc = "idle"
      /\ UNCHANGED <<bits, committed, registry>>
  BY <1>1 DEF RecordPublishSuccess, StatusTypeOK, IdleRound
<1> HIDE DEF l, n
<1>3. \A q \in Publishers : q = p
  BY DEF OnePublisher
<1>4. \A q \in Publishers : RoundOK(q)'
  BY <1>2, <1>3 DEF RoundOK
<1>5. CleanMeansPublished'
  BY <1>1, <1>2 DEF PublishInv, CleanMeansPublished, Dirty
<1>6. \A k \in Lists : published'[k] <= committed'[k]
  BY <1>1, <1>2 DEF PublishInv
<1> QED
  BY <1>4, <1>5, <1>6 DEF PublishInv

(* StatusLists!CleanMeansPublished: with the one publish loop the binary   *)
(* starts, a list the database calls clean is what the registry serves,    *)
(* across commits during a round, failed rounds, lost answers and crashes. *)
THEOREM CleanListsArePublished ==
    ASSUME OnePublisher PROVE StatusSpec => []CleanMeansPublished
<1>1. StatusInit => PublishInv
  <2> SUFFICES ASSUME StatusInit PROVE PublishInv
    OBVIOUS
  <2>1. /\ \A p \in Publishers : pub[p].pc = "idle"
        /\ \A l \in Lists : /\ registry[l] = bits[l]
                            /\ committed[l] = 0 /\ published[l] = 0
    BY DEF StatusInit, IdleRound
  <2> QED
    BY <2>1 DEF PublishInv, RoundOK, CleanMeansPublished
<1>2. StatusTypeOK /\ PublishInv /\ [StatusNext]_statusVars => PublishInv'
  <2> SUFFICES ASSUME StatusTypeOK, PublishInv, [StatusNext]_statusVars PROVE PublishInv'
    OBVIOUS
  <2>1. ASSUME NEW c \in Credentials, NEW l \in Lists, AllocateIndex(c, l) PROVE PublishInv'
    <3>1. bits' = [bits EXCEPT ![l] = bits[l]]
      BY <2>1 DEF AllocateIndex, StatusTypeOK
    <3> QED
      BY <2>1, <3>1, CommitPreserves DEF AllocateIndex
  <2>2. ASSUME NEW r \in Requests, WriteBitAndCommit(r) PROVE PublishInv'
    <3>1. cred[req[r].cred].list \in Lists
      BY DEF StatusTypeOK, Request, InProgress, CredentialRow
    <3> QED
      BY <2>2, <3>1, CommitPreserves DEF WriteBitAndCommit
  <2>3. ASSUME UNCHANGED <<bits, committed, published, pub, registry>> PROVE PublishInv'
    BY <2>3 DEF PublishInv, RoundOK, CleanMeansPublished, Dirty
  <2>4. ASSUME NEW p \in Publishers,
               RoundFails(p) \/ RecordPublishFailure(p) \/ PublisherStops(p)
        PROVE  PublishInv'
    <3>1. /\ UNCHANGED <<bits, committed, published, registry>>
          /\ \A q \in Publishers : q # p => pub'[q] = pub[q]
          /\ \/ pub'[p].pc = "idle"
             \/ /\ pub'[p].pc = "failed" /\ pub[p].pc # "idle"
                /\ pub'[p].list = pub[p].list /\ pub'[p].copy = pub[p].copy
                /\ pub'[p].target = pub[p].target
      BY <2>4
      DEF RoundFails, RecordPublishFailure, PublisherStops, StatusTypeOK, Round, IdleRound
    <3>2. \A q \in Publishers : RoundOK(q)'
      BY <3>1 DEF PublishInv, RoundOK
    <3> QED
      BY <3>1, <3>2 DEF PublishInv, CleanMeansPublished, Dirty
  <2> QED
    BY <2>1, <2>2, <2>3, <2>4, AcquirePreserves, PutPreserves, RecordPreserves
    DEF StatusNext, LifecycleOp, PublishStep, Find, SetState, ReadBitstring, Rollback,
        TimerPasses, statusVars
<1>3. PublishInv => CleanMeansPublished
  BY DEF PublishInv
<1> QED
  BY <1>1, <1>2, <1>3, StatusTypes, PTL DEF StatusSpec

-----------------------------------------------------------------------------
(* RevocationIsFinal fails when two lifecycle requests for one credential  *)
(* overlap, each having read its state before the other committed.  That   *)
(* is the only way: one request per credential at a time is enough.        *)

OneRequestPerCredential ==
    \A r, q \in Requests :
        /\ req[r].pc \in InProgress /\ req[q].pc \in InProgress
        /\ req[r].cred = req[q].cred
        => r = q

(* What find saw still allows the operation.                               *)
StillAllowed ==
    \A r \in Requests :
        req[r].pc \in InProgress => cred[req[r].cred].state \in AllowedFrom(req[r].op)

(* No operation starts from a state without a credential, or from revoked. *)
LEMMA AllowedStates ==
    ASSUME NEW op \in Ops PROVE "none" \notin AllowedFrom(op) /\ "revoked" \notin AllowedFrom(op)
  BY DEF Ops, AllowedFrom

LEMMA StillAllowedStep ==
    ASSUME StatusTypeOK, StillAllowed, OneRequestPerCredential, [StatusNext]_statusVars
    PROVE  StillAllowed'
<1>0. \A r \in Requests : req[r].cred \in Credentials /\ req[r].op \in Ops
  BY DEF StatusTypeOK, Request, InProgress
<1>1. ASSUME NEW c \in Credentials, NEW l \in Lists, AllocateIndex(c, l) PROVE StillAllowed'
  <2>1. /\ req' = req /\ cred[c].state = "none"
        /\ \A d \in Credentials : d # c => cred'[d] = cred[d]
    BY <1>1 DEF AllocateIndex, StatusTypeOK
  <2>2. \A r \in Requests : req[r].pc \in InProgress => req[r].cred # c
    BY <1>0, <2>1, AllowedStates DEF StillAllowed
  <2> QED
    BY <1>0, <2>1, <2>2 DEF StillAllowed
<1>2. ASSUME NEW r \in Requests, NEW c \in Credentials, NEW op \in Ops, Find(r, c, op)
      PROVE  StillAllowed'
  <2>1. /\ req'[r].cred = c /\ req'[r].op = op
        /\ \A q \in Requests : q # r => req'[q] = req[q]
    BY <1>2 DEF Find, StatusTypeOK, Request, InProgress
  <2>2. cred' = cred /\ cred[c].state \in AllowedFrom(op)
    BY <1>2 DEF Find
  <2> QED
    BY <2>1, <2>2 DEF StillAllowed
<1>3. ASSUME NEW r \in Requests, SetState(r) \/ ReadBitstring(r) PROVE StillAllowed'
  <2>1. /\ req[r].pc \in InProgress /\ req'[r].cred = req[r].cred /\ req'[r].op = req[r].op
        /\ \A q \in Requests : q # r => req'[q] = req[q]
    BY <1>3 DEF SetState, ReadBitstring, StatusTypeOK, Request, InProgress
  <2>2. cred' = cred
    BY <1>3 DEF SetState, ReadBitstring
  <2> QED
    BY <2>1, <2>2 DEF StillAllowed
<1>4. ASSUME NEW r \in Requests, WriteBitAndCommit(r) PROVE StillAllowed'
  <2>1. /\ req[r].pc = "locked" /\ req'[r].pc = "done"
        /\ \A q \in Requests : q # r => req'[q] = req[q]
        /\ \A d \in Credentials : d # req[r].cred => cred'[d] = cred[d]
    BY <1>4 DEF WriteBitAndCommit, DoneRequest, IdleRequest, StatusTypeOK
  <2>2. \A q \in Requests : q # r /\ req[q].pc \in InProgress => req[q].cred # req[r].cred
    BY <2>1 DEF OneRequestPerCredential, InProgress
  <2> QED
    BY <1>0, <2>1, <2>2 DEF StillAllowed, InProgress
<1>5. ASSUME NEW r \in Requests, Rollback(r) PROVE StillAllowed'
  <2>1. /\ req'[r].pc = "done" /\ cred' = cred
        /\ \A q \in Requests : q # r => req'[q] = req[q]
    BY <1>5 DEF Rollback, DoneRequest, IdleRequest, StatusTypeOK
  <2> QED
    BY <2>1 DEF StillAllowed, InProgress
<1>6. ASSUME UNCHANGED <<cred, req>> PROVE StillAllowed'
  BY <1>6 DEF StillAllowed
<1> QED
  BY <1>1, <1>2, <1>3, <1>4, <1>5, <1>6
  DEF StatusNext, LifecycleOp, PublishStep, AcquireNextDirty, RoundFails,
      UpdateStatusListEntry, RecordPublishSuccess, RecordPublishFailure,
      PublisherStops, TimerPasses, statusVars

(* StatusLists!RevocationIsFinal, as revoke documents it ("Terminal --     *)
(* revocation cannot be undone"), of runs in which no two requests work on *)
(* one credential at the same time.                                        *)
THEOREM RevocationHoldsWithoutOverlap ==
    StatusSpec /\ []OneRequestPerCredential => RevocationIsFinal
<1> DEFINE Kept == \A c \in Credentials : cred[c].state = "revoked" => cred'[c] = cred[c]
<1>1. StatusInit => StillAllowed
  BY DEF StatusInit, StillAllowed, IdleRequest, InProgress
<1>2. StatusTypeOK /\ StillAllowed /\ OneRequestPerCredential /\ [StatusNext]_statusVars
         => StillAllowed'
  BY StillAllowedStep
<1>3. StatusTypeOK /\ StillAllowed /\ [StatusNext]_statusVars => [Kept]_statusVars
  <2> SUFFICES ASSUME StatusTypeOK, StillAllowed, [StatusNext]_statusVars,
                      NEW c \in Credentials, cred[c].state = "revoked"
               PROVE  cred'[c] = cred[c]
    OBVIOUS
  <2>1. ASSUME NEW d \in Credentials, NEW l \in Lists, AllocateIndex(d, l)
        PROVE  cred'[c] = cred[c]
    BY <2>1 DEF AllocateIndex, StatusTypeOK
  <2>2. ASSUME NEW r \in Requests, WriteBitAndCommit(r) PROVE cred'[c] = cred[c]
    <3>1. req[r].op \in Ops /\ req[r].pc \in InProgress
      BY <2>2 DEF WriteBitAndCommit, StatusTypeOK, Request, InProgress
    <3>2. req[r].cred # c
      BY <3>1, AllowedStates DEF StillAllowed
    <3> QED
      BY <2>2, <3>2 DEF WriteBitAndCommit, StatusTypeOK
  <2>3. ASSUME UNCHANGED cred PROVE cred'[c] = cred[c]
    BY <2>3
  <2> QED
    BY <2>1, <2>2, <2>3
    DEF StatusNext, LifecycleOp, PublishStep, Find, SetState, ReadBitstring, Rollback,
        AcquireNextDirty, RoundFails, UpdateStatusListEntry, RecordPublishSuccess,
        RecordPublishFailure, PublisherStops, TimerPasses, statusVars
<1> QED
  BY <1>1, <1>2, <1>3, StatusTypes, PTL DEF StatusSpec, RevocationIsFinal

-----------------------------------------------------------------------------
(* The token provider.                                                     *)

(* Cache, callers, tenant row and the server's tokens keep their types.    *)
THEOREM TokenTypes == TokenSpec => []TokenTypeOK
<1>1. TokenInit => TokenTypeOK
  <2> SUFFICES ASSUME TokenInit PROVE TokenTypeOK
    OBVIOUS
  <2>1. 0 \in Tokens /\ 1 \in Tokens
    BY TokenAssumption DEF Tokens
  <2>2. Idle \in CallerState
    BY <2>1 DEF Idle, CallerState
  <2>3. lost \in BOOLEAN /\ seeding \subseteq Seeds
    BY Zenon DEF TokenInit
  <2> QED
    BY <2>1, <2>2, <2>3 DEF TokenInit, TokenTypeOK
<1>2. TokenTypeOK /\ [TokenNext]_tokenVars => TokenTypeOK'
  <2> SUFFICES ASSUME TokenTypeOK, [TokenNext]_tokenVars PROVE TokenTypeOK'
    OBVIOUS
  <2> USE TokenAssumption DEF TokenTypeOK
  <2>0. Idle \in CallerState
    BY DEF Idle, CallerState, Tokens
  <2>1. ASSUME NEW c \in Callers, Get(c) PROVE TokenTypeOK'
    BY <2>1 DEF Get, CallerState, Tokens
  <2>2. ASSUME NEW c \in Callers, TakeRefreshLock(c) PROVE TokenTypeOK'
    BY <2>2 DEF TakeRefreshLock, Goes, CallerState
  <2>3. ASSUME NEW c \in Callers, ReadCredentials(c) PROVE TokenTypeOK'
    BY <2>0, <2>3 DEF ReadCredentials, CallerState
  <2>4. ASSUME NEW c \in Callers, Grant(c) PROVE TokenTypeOK'
    <3>1. made + 1 \in Tokens
      BY <2>4 DEF Grant, Tokens
    <3>2. caller' \in [Callers -> CallerState]
      BY <2>0, <2>4, <3>1 DEF Grant, Returns, CallerState
    <3>3. lost' \in BOOLEAN
      BY <2>4, Zenon DEF Grant
    <3> QED
      BY <2>4, <3>1, <3>2, <3>3 DEF Grant
  <2>5. ASSUME NEW c \in Callers, GrantFails(c) \/ CommitFails(c) \/ CallEnds(c)
        PROVE  TokenTypeOK'
    BY <2>0, <2>5 DEF GrantFails, CommitFails, CallEnds, Returns
  <2>6. ASSUME NEW c \in Callers, CommitRefresh(c) \/ StoreToken(c) PROVE TokenTypeOK'
    BY <2>6 DEF CommitRefresh, StoreToken, Goes, CallerState
  <2>7. ASSUME NEW c \in Callers, Unauthorized(c) PROVE TokenTypeOK'
    <3>1. CASE RetryLeft(c)
      <4>1. caller[c].tries + 1 \in 0 .. 2
        BY <3>1 DEF RetryLeft, CallerState
      <4> QED
        BY <2>7, <3>1, <4>1 DEF Unauthorized, CallerState
    <3>2. CASE ~RetryLeft(c)
      BY <2>0, <2>7, <3>2 DEF Unauthorized, Returns
    <3> QED
      BY <3>1, <3>2
  <2>8. ASSUME NEW r \in Replicas, Expires(r) \/ Restart(r) PROVE TokenTypeOK'
    <3>1. lost' \in BOOLEAN
      BY <2>8, Zenon DEF Expires, Restart
    <3>2. caller' \in [Callers -> CallerState]
      BY <2>0, <2>8 DEF Expires, Restart
    <3> QED
      BY <2>8, <3>1, <3>2 DEF Expires, Restart
  <2>9. ASSUME ImportToken, seeding' \subseteq Seeds PROVE TokenTypeOK'
    <3>1. made + 1 \in Tokens
      BY <2>9 DEF ImportToken, Tokens
    <3> QED
      BY <2>9, <3>1 DEF ImportToken
  <2>10. ASSUME NEW i \in Seeds, SeedCheck(i) PROVE TokenTypeOK'
    BY <2>10 DEF SeedCheck
  <2>11. CASE UNCHANGED tokenVars
    BY <2>11 DEF tokenVars
  <2> QED
    BY <2>1, <2>2, <2>3, <2>4, <2>5, <2>6, <2>7, <2>8, <2>9, <2>10, <2>11
    DEF TokenNext, ProviderStep, ImportOauthRefreshToken, SeedWrite
<1> QED
  BY <1>1, <1>2, PTL DEF TokenSpec

(***************************************************************************)
(* PresentedTokenIsAlive speaks of the moment before a grant.  Inductive   *)
(* is the whole passage of a token through the row: alive when stored,     *)
(* used up by the grant of the row's owner, replaced by the owner's new    *)
(* one, which is alive until it is stored.                                 *)
(***************************************************************************)
RowInv == OneRowOwner /\ GrantedIsAlive /\ StoredIsAlive /\ PresentedTokenIsAlive

(* The inductive invariant of the rows.                                    *)
LEMMA RowInvHolds == TokenSpec => []RowInv
<1>1. TokenInit => RowInv
  BY DEF TokenInit, RowInv, OneRowOwner, GrantedIsAlive, StoredIsAlive,
         PresentedTokenIsAlive, Idle
<1>2. RowInv /\ TokenTypeOK /\ [TokenNext]_tokenVars => RowInv'
  <2> SUFFICES ASSUME RowInv, TokenTypeOK, [TokenNext]_tokenVars PROVE RowInv'
    OBVIOUS
  <2> USE DEF RowInv, OneRowOwner, GrantedIsAlive, StoredIsAlive, PresentedTokenIsAlive
  <2>0. caller \in [Callers -> CallerState] /\ made \in Nat
    BY DEF TokenTypeOK, Tokens
  <2>1. ASSUME NEW c \in Callers, Get(c) PROVE RowInv'
    BY <2>0, <2>1 DEF Get
  <2>2. ASSUME NEW c \in Callers, TakeRefreshLock(c) PROVE RowInv'
    BY <2>0, <2>2 DEF TakeRefreshLock, Goes, CallerState
  <2>3. ASSUME NEW c \in Callers, ReadCredentials(c) PROVE RowInv'
    BY <2>0, <2>3 DEF ReadCredentials, RowFree, Idle, CallerState
  <2>4. ASSUME NEW c \in Callers, Grant(c) PROVE RowInv'
    BY <2>0, <2>4 DEF Grant, Returns, Idle, CallerState
  <2>5. ASSUME NEW c \in Callers, GrantFails(c) \/ CommitFails(c) \/ CallEnds(c)
        PROVE  RowInv'
    BY <2>0, <2>5 DEF GrantFails, CommitFails, CallEnds, Returns, Idle
  <2>6. ASSUME NEW c \in Callers, CommitRefresh(c) \/ StoreToken(c) PROVE RowInv'
    BY <2>0, <2>6 DEF CommitRefresh, StoreToken, Goes, CallerState
  <2>7. ASSUME NEW c \in Callers, Unauthorized(c) PROVE RowInv'
    BY <2>0, <2>7 DEF Unauthorized, Returns, Idle, CallerState
  <2>8. ASSUME NEW r \in Replicas, Expires(r) \/ Restart(r) PROVE RowInv'
    <3>1. CASE Expires(r)
      BY <3>1 DEF Expires
    <3>2. CASE Restart(r)
      <4>1. ASSUME NEW c \in Callers
            PROVE  \/ caller'[c] = caller[c]
                   \/ caller'[c].pc = "idle" /\ (caller[c].pc = "granted" => lost')
        BY <3>2, <4>1 DEF Restart, Idle
      <4>2. lost => lost'
        BY <3>2 DEF Restart
      <4>3. valid' = valid /\ stored' = stored
        BY <3>2 DEF Restart
      <4>4. OneRowOwner' /\ GrantedIsAlive' /\ PresentedTokenIsAlive'
        BY <4>1, <4>2, <4>3
      <4>5. StoredIsAlive'
        BY <4>1, <4>2, <4>3
      <4> QED
        BY <4>4, <4>5
    <3> QED
      BY <2>8, <3>1, <3>2
  <2>9. ASSUME ImportToken PROVE RowInv'
    BY <2>0, <2>9 DEF ImportToken, RowFree
  <2>10. ASSUME NEW i \in Seeds, SeedCheck(i) PROVE RowInv'
    BY <2>10 DEF SeedCheck
  <2>11. CASE UNCHANGED tokenVars
    BY <2>11 DEF tokenVars
  <2> QED
    BY <2>1, <2>2, <2>3, <2>4, <2>5, <2>6, <2>7, <2>8, <2>9, <2>10, <2>11
    DEF TokenNext, ProviderStep, ImportOauthRefreshToken, SeedWrite
<1> QED
  BY <1>1, <1>2, TokenTypes, PTL DEF TokenSpec

(* However many callers and replicas refresh at once, a grant presents the *)
(* stored refresh token, and one the server accepts unless an answer or a  *)
(* commit was lost since the last import (FOR UPDATE on the tenant row).   *)
THEOREM OnlyLiveTokensArePresented == TokenSpec => []PresentedTokenIsAlive
  BY RowInvHolds, PTL DEF RowInv

(* One refresh at a time per replica, and none beside a fresh token: the   *)
(* effect of refresh_lock and of the second look at the cache.             *)
THEOREM RefreshesAreSingleFlight == TokenSpec => []SingleFlight
<1>1. TokenInit => SingleFlight
  BY DEF TokenInit, SingleFlight, Idle, Refreshing
<1>2. SingleFlight /\ TokenTypeOK /\ [TokenNext]_tokenVars => SingleFlight'
  <2> SUFFICES ASSUME SingleFlight, TokenTypeOK, [TokenNext]_tokenVars
               PROVE  SingleFlight'
    OBVIOUS
  <2> USE DEF SingleFlight, CachedAccess, Refreshing
  <2>0. /\ caller \in [Callers -> CallerState] /\ Home \in [Callers -> Replicas]
        /\ cache \in [Replicas -> {"none", "fresh", "stale"}]
    BY TokenAssumption DEF TokenTypeOK
  <2>1. ASSUME NEW c \in Callers, Get(c) PROVE SingleFlight'
    BY <2>0, <2>1 DEF Get
  <2>2. ASSUME NEW c \in Callers, TakeRefreshLock(c) PROVE SingleFlight'
    BY <2>0, <2>2 DEF TakeRefreshLock, RefreshLockFree, Goes, CallerState
  <2>3. ASSUME NEW c \in Callers, ReadCredentials(c) PROVE SingleFlight'
    BY <2>0, <2>3 DEF ReadCredentials, Idle, CallerState
  <2>4. ASSUME NEW c \in Callers, Grant(c) PROVE SingleFlight'
    BY <2>0, <2>4 DEF Grant, Returns, Idle, CallerState
  <2>5. ASSUME NEW c \in Callers, GrantFails(c) \/ CommitFails(c) \/ CallEnds(c)
        PROVE  SingleFlight'
    BY <2>0, <2>5 DEF GrantFails, CommitFails, CallEnds, Returns, Idle
  <2>6. ASSUME NEW c \in Callers, CommitRefresh(c) PROVE SingleFlight'
    BY <2>0, <2>6 DEF CommitRefresh, Goes, CallerState
  <2>7. ASSUME NEW c \in Callers, StoreToken(c) PROVE SingleFlight'
    BY <2>0, <2>7 DEF StoreToken, Goes, CallerState
  <2>8. ASSUME NEW c \in Callers, Unauthorized(c) PROVE SingleFlight'
    BY <2>0, <2>8 DEF Unauthorized, Returns, Idle, CallerState
  <2>9. ASSUME NEW r \in Replicas, Expires(r) \/ Restart(r) PROVE SingleFlight'
    BY <2>0, <2>9 DEF Expires, Restart, Idle
  <2>10. ASSUME UNCHANGED <<cache, caller>> PROVE SingleFlight'
    BY <2>10
  <2> QED
    BY <2>1, <2>2, <2>3, <2>4, <2>5, <2>6, <2>7, <2>8, <2>9, <2>10
    DEF TokenNext, ProviderStep, ImportOauthRefreshToken, ImportToken, SeedCheck,
        SeedWrite, tokenVars
<1> QED
  BY <1>1, <1>2, TokenTypes, PTL DEF TokenSpec
==============================================================================
