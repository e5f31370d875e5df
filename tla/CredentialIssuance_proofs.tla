--------------------- MODULE CredentialIssuance_proofs ---------------------
(***************************************************************************)
(* Proofs about the issuance of credentials, for any finite set of offers, *)
(* any number of exchanges and requests, and any capacity of the list.     *)
(***************************************************************************)
EXTENDS CredentialIssuance, FiniteSetTheorems, TLAPS

(* The records the tables and the requests start with are well formed.     *)
LEMMA InitialTypes == /\ SomeExchange \in Exchanges /\ IdleRequest \in RequestState
                      /\ NoCredential \in CredentialRow /\ Cancelled \in OfferRow
                      /\ (CHOOSE o \in Offers : TRUE) \in Offers
<1>1. SomeExchange \in Exchanges /\ (CHOOSE o \in Offers : TRUE) \in Offers
  BY IssuanceAssumption DEF SomeExchange
<1> QED
  BY <1>1 DEF IdleRequest, RequestState, NoCredential, CredentialRow, Cancelled, OfferRow

(* The offer of a request and the row of that offer.                       *)
LEMMA OfferOfType ==
    ASSUME IssuanceTypeOK, NEW q \in Requests
    PROVE  /\ request[q] \in RequestState /\ request[q].token \in Exchanges
           /\ request[q].nonce \in Exchanges /\ request[q].index \in Nat
           /\ OfferOf(q) \in Offers
  BY DEF IssuanceTypeOK, RequestState, ExchangeState, OfferOf

(***************************************************************************)
(* What the properties rest on.                                            *)
(***************************************************************************)

(* A request past its first statement presents the token of a finished     *)
(* exchange, so the offer it is about does not change under it.            *)
TokensAreFinal ==
    \A q \in Requests : request[q].pc # "idle" => exchange[request[q].token].pc = "done"

(* The offer's row lock: one transaction per offer, and what it found      *)
(* pending under the lock stays pending.                                   *)
LockedOfferIsMine ==
    /\ \A q \in Requests : request[q].pc \in InTransaction => offer[OfferOf(q)].state = "pending"
    /\ \A p, q \in Requests :
          /\ request[p].pc \in InTransaction /\ request[q].pc \in InTransaction
          /\ OfferOf(p) = OfferOf(q)
          => p = q

HoldsList == {"allocated", "inserted"}

(* The list's row lock: one holder, whose index is the next free slot.     *)
LockedListIsMine ==
    /\ \A q \in Requests : request[q].pc \in HoldsList =>
          request[q].index = allocated /\ allocated < Capacity
    /\ \A p, q \in Requests :
          request[p].pc \in HoldsList /\ request[q].pc \in HoldsList => p = q

(* Once the issuer is deactivated, only offers made since are pending.     *)
PendingAreLate ==
    issuer = "deactivated" => \A o \in Offers : offer[o].state = "pending" => o \in late

IssuanceInv ==
    /\ TokensAreFinal /\ LockedOfferIsMine /\ LockedListIsMine /\ PendingAreLate
    /\ before <= allocated
    /\ OneCredentialPerOffer /\ SlotsWithoutGaps /\ OldOffersDieWithIssuer

-----------------------------------------------------------------------------
(* Rows, requests and history variables keep their types; in particular    *)
(* allocated_count never exceeds the capacity of the list.                 *)
LEMMA IssuanceTypes == IssuanceTypeOK /\ LockedListIsMine /\ [IssuanceNext]_issuanceVars
                          => IssuanceTypeOK'
<1> SUFFICES ASSUME IssuanceTypeOK, LockedListIsMine, [IssuanceNext]_issuanceVars
             PROVE  IssuanceTypeOK'
  OBVIOUS
<1> USE InitialTypes DEF offerVars, tokenVars, issuerVars, listVars
<1>1. ASSUME NEW o \in Offers, CreateOffer(o) PROVE IssuanceTypeOK'
  BY <1>1 DEF IssuanceTypeOK, CreateOffer, OfferRow
<1>2. ASSUME NEW o \in Offers, Expire(o) \/ CancelFind(o) PROVE IssuanceTypeOK'
  BY <1>2 DEF IssuanceTypeOK, Expire, CancelFind
<1>3. ASSUME NEW o \in Offers, CancelWrite(o) PROVE IssuanceTypeOK'
  BY <1>3 DEF IssuanceTypeOK, CancelWrite
<1>4. ASSUME NEW o \in Offers, NEW x \in Exchanges, FetchOffer(x, o)
      PROVE  IssuanceTypeOK'
  BY <1>4 DEF IssuanceTypeOK, FetchOffer, ExchangeState
<1>5. ASSUME NEW x \in Exchanges, FindByPreAuthCode(x) \/ ExchangeFails(x)
      PROVE  IssuanceTypeOK'
  BY <1>5 DEF IssuanceTypeOK, FindByPreAuthCode, ExchangeFails, ExchangeState
<1>6. ASSUME NEW x \in Exchanges, InsertToken(x) PROVE IssuanceTypeOK'
  BY <1>6 DEF IssuanceTypeOK, InsertToken, ExchangeState
<1>7. ASSUME NEW x \in Exchanges, InsertNonce(x) \/ TtlPasses(x) PROVE IssuanceTypeOK'
  BY <1>7 DEF IssuanceTypeOK, InsertNonce, TtlPasses, ExchangeState
<1>8. ASSUME NEW q \in Requests, NEW x \in Exchanges, NEW y \in Exchanges,
             FindToken(q, x, y)
      PROVE  IssuanceTypeOK'
  BY <1>8 DEF IssuanceTypeOK, FindToken, RequestState
<1>9. ASSUME NEW q \in Requests, CheckOffer(q) \/ LockOffer(q) \/ InsertCredential(q)
      PROVE  IssuanceTypeOK'
  BY <1>9 DEF IssuanceTypeOK, CheckOffer, LockOffer, InsertCredential, Moves, Refuse,
              RequestState
<1>10. ASSUME NEW q \in Requests, ConsumeNonce(q) PROVE IssuanceTypeOK'
  BY <1>10 DEF IssuanceTypeOK, ConsumeNonce, Moves, Refuse, RequestState
<1>11. ASSUME NEW q \in Requests, AllocateSlot(q) PROVE IssuanceTypeOK'
  <2>1. allocated \in Nat
    BY IssuanceAssumption DEF IssuanceTypeOK
  <2>2. [request[q] EXCEPT !.pc = "allocated", !.index = allocated] \in RequestState
    BY <2>1 DEF IssuanceTypeOK, RequestState
  <2> QED
    BY <1>11, <2>2 DEF IssuanceTypeOK, AllocateSlot
<1>12. ASSUME NEW q \in Requests, CommitIssuance(q) PROVE IssuanceTypeOK'
  <2>1. /\ request[q].pc = "inserted" /\ request[q].index = allocated
        /\ allocated \in Nat /\ allocated + 1 \in 0 .. Capacity
    BY <1>12, IssuanceAssumption
    DEF IssuanceTypeOK, CommitIssuance, Moves, LockedListIsMine, HoldsList
  <2>2. OfferOf(q) \in Offers
    BY OfferOfType
  <2>3. /\ [state |-> "issued", code |-> "null"] \in OfferRow
        /\ [state |-> "active", index |-> request[q].index, issuer |-> issuer]
              \in CredentialRow
    BY <2>1 DEF IssuanceTypeOK, OfferRow, CredentialRow
  <2>4. request' \in [Requests -> RequestState]
    BY <1>12 DEF CommitIssuance, Moves, IssuanceTypeOK, RequestState
  <2> QED
    BY <1>12, <2>1, <2>2, <2>3, <2>4 DEF IssuanceTypeOK, CommitIssuance
<1>13. ASSUME NEW q \in Requests, RequestFails(q) PROVE IssuanceTypeOK'
  BY <1>13 DEF IssuanceTypeOK, RequestFails
<1>14. CASE LockIssuer \/ DeactivationFails
  BY <1>14 DEF IssuanceTypeOK, LockIssuer, DeactivationFails
<1>15. CASE CancelAllAndCommit
  BY <1>15 DEF IssuanceTypeOK, CancelAllAndCommit
<1>16. CASE UNCHANGED issuanceVars
  BY <1>16 DEF IssuanceTypeOK, issuanceVars
<1> QED
  BY <1>1, <1>2, <1>3, <1>4, <1>5, <1>6, <1>7, <1>8, <1>9, <1>10, <1>11, <1>12, <1>13,
     <1>14, <1>15, <1>16
  DEF IssuanceNext, CredentialStep, DeadlockDetected

-----------------------------------------------------------------------------
(* A step that leaves the offer of every request under way alone.          *)
SameOffers == \A q \in Requests : request[q].pc # "idle" => OfferOf(q)' = OfferOf(q)

(* The steps of POST /token: an exchange that is done stays as it is, so   *)
(* no request changes its offer.                                           *)
LEMMA ExchangeStepPreserves ==
    ASSUME IssuanceTypeOK, IssuanceInv, NEW x \in Exchanges, NEW row \in ExchangeState,
           exchange[x].pc # "done", exchange' = [exchange EXCEPT ![x] = row],
           UNCHANGED <<offerVars, request, credential, listVars, issuerVars>>
    PROVE  IssuanceInv'
<1> USE DEF IssuanceInv, offerVars, listVars, issuerVars
<1>1. \A q \in Requests : request[q].pc # "idle" =>
         exchange'[request[q].token] = exchange[request[q].token]
  BY DEF IssuanceTypeOK, TokensAreFinal
<1>2. SameOffers
  BY <1>1 DEF SameOffers, OfferOf
<1>3. TokensAreFinal'
  BY <1>1 DEF TokensAreFinal
<1>4. LockedOfferIsMine'
  BY <1>2 DEF LockedOfferIsMine, SameOffers, InTransaction
<1>5. LockedListIsMine' /\ PendingAreLate' /\ SlotsWithoutGaps' /\ OldOffersDieWithIssuer'
      /\ (before <= allocated)'
  BY
  DEF LockedListIsMine, PendingAreLate, SlotsWithoutGaps, OldOffersDieWithIssuer, Issued
<1>6. OneCredentialPerOffer'
  BY <1>2 DEF OneCredentialPerOffer, SameOffers, Issued
<1> QED
  BY <1>3, <1>4, <1>5, <1>6

(* Steps that change nothing but one request, which is not yet answered    *)
(* and takes or keeps no lock: start, checks, nonce, refusal, rollback.    *)
LEMMA UnlockedStepPreserves ==
    ASSUME IssuanceTypeOK, IssuanceInv, NEW q \in Requests, NEW row \in RequestState,
           row.pc \in {"idle", "authorised", "checked", "consumed"},
           row.pc = "idle" \/ exchange[row.token].pc = "done",
           request' = [request EXCEPT ![q] = row],
           UNCHANGED <<offerVars, exchange, credential, listVars, issuerVars>>
    PROVE  IssuanceInv'
<1> USE DEF IssuanceInv, offerVars, listVars, issuerVars
<1>1. \A p \in Requests : p # q => request'[p] = request[p] /\ OfferOf(p)' = OfferOf(p)
  BY DEF IssuanceTypeOK, OfferOf
<1>2. request'[q] = row
  BY DEF IssuanceTypeOK
<1>3. TokensAreFinal'
  BY <1>1, <1>2 DEF TokensAreFinal
<1>4. LockedOfferIsMine'
  BY <1>1, <1>2 DEF LockedOfferIsMine, InTransaction
<1>5. LockedListIsMine'
  BY <1>1, <1>2 DEF LockedListIsMine, HoldsList
<1>6. PendingAreLate' /\ SlotsWithoutGaps' /\ OldOffersDieWithIssuer' /\ (before <= allocated)'
  BY DEF PendingAreLate, SlotsWithoutGaps, OldOffersDieWithIssuer, Issued
<1>7. OneCredentialPerOffer'
  BY <1>1, <1>2 DEF OneCredentialPerOffer, Issued
<1> QED
  BY <1>3, <1>4, <1>5, <1>6, <1>7

(* Steps of a transaction that only move one request on, from a locked     *)
(* offer to the allocated slot and the inserted row.                       *)
LEMMA LockedStepPreserves ==
    ASSUME IssuanceTypeOK, IssuanceInv, NEW q \in Requests, NEW row \in RequestState,
           row.pc \in InTransaction, row.token = request[q].token,
           request[q].pc \in {"consumed"} \union InTransaction,
           request[q].pc = "consumed" => /\ ~OfferLocked(OfferOf(q))
                                         /\ offer[OfferOf(q)].state = "pending",
           row.pc \in HoldsList => /\ row.index = allocated /\ allocated < Capacity
                                   /\ request[q].pc \in HoldsList \/ ~ListLocked,
           request' = [request EXCEPT ![q] = row],
           UNCHANGED <<offerVars, exchange, credential, listVars, issuerVars>>
    PROVE  IssuanceInv'
<1> USE DEF IssuanceInv, offerVars, listVars, issuerVars
<1>1. \A p \in Requests : p # q => request'[p] = request[p]
  BY DEF IssuanceTypeOK
<1>2. request'[q] = row
  BY DEF IssuanceTypeOK
<1>3. \A p \in Requests : OfferOf(p)' = OfferOf(p)
  BY <1>1, <1>2 DEF OfferOf
<1>4. TokensAreFinal'
  BY <1>1, <1>2 DEF TokensAreFinal, InTransaction
<1>5. LockedOfferIsMine'
  BY <1>1, <1>2, <1>3 DEF LockedOfferIsMine, InTransaction, OfferLocked
<1>6. LockedListIsMine'
  BY <1>1, <1>2 DEF LockedListIsMine, HoldsList, ListLocked
<1>7. PendingAreLate' /\ SlotsWithoutGaps' /\ OldOffersDieWithIssuer' /\ (before <= allocated)'
  BY DEF PendingAreLate, SlotsWithoutGaps, OldOffersDieWithIssuer, Issued
<1>8. OneCredentialPerOffer'
  BY <1>1, <1>2, <1>3 DEF OneCredentialPerOffer, Issued, InTransaction
<1> QED
  BY <1>4, <1>5, <1>6, <1>7, <1>8

(* set_issued_state, the credential and the index in one COMMIT: the offer *)
(* was pending under the lock, so it had no credential yet, and the index  *)
(* is the next one.                                                        *)
LEMMA CommitPreserves ==
    ASSUME IssuanceTypeOK, IssuanceInv, NEW q \in Requests, CommitIssuance(q)
    PROVE  IssuanceInv'
<1> DEFINE o == OfferOf(q)
           row == [state |-> "active", index |-> allocated, issuer |-> issuer]
<1> USE DEF IssuanceInv, offerVars, listVars, issuerVars
<1>1. /\ request[q].pc = "inserted" /\ request[q].index = allocated /\ allocated < Capacity
      /\ o \in Offers /\ offer[o].state = "pending" /\ o \notin Issued
      /\ allocated \in Nat /\ before \in Nat
  BY OfferOfType, IssuanceAssumption
  DEF CommitIssuance, Moves, LockedListIsMine, HoldsList, LockedOfferIsMine,
      InTransaction, OneCredentialPerOffer, IssuanceTypeOK
<1>2. /\ request' = [request EXCEPT ![q].pc = "answered"]
      /\ offer' = [offer EXCEPT ![o] = [state |-> "issued", code |-> "null"]]
      /\ credential' = [credential EXCEPT ![o] = row]
      /\ allocated' = allocated + 1
      /\ UNCHANGED <<expired, cancelling, late, exchange, before, issuerVars>>
  BY <1>1 DEF CommitIssuance, Moves
<1>3. /\ \A p \in Requests : p # q => request'[p] = request[p]
      /\ request'[q].pc = "answered" /\ request'[q].token = request[q].token
  BY <1>2 DEF IssuanceTypeOK, RequestState
<1>4. \A p \in Requests : OfferOf(p)' = OfferOf(p)
  BY <1>2, <1>3 DEF OfferOf
<1> HIDE DEF o
<1>5. /\ \A b \in Offers : b # o => offer'[b] = offer[b] /\ credential'[b] = credential[b]
      /\ offer'[o].state = "issued" /\ credential'[o] = row
  BY <1>1, <1>2 DEF IssuanceTypeOK
<1>6. Issued' = Issued \union {o}
  BY <1>1, <1>5 DEF Issued
<1>7. TokensAreFinal'
  BY <1>1, <1>2, <1>3 DEF TokensAreFinal
<1>8. LockedOfferIsMine'
  <2>1. \A p \in Requests : p # q /\ request[p].pc \in InTransaction => OfferOf(p) # o
    BY <1>1 DEF LockedOfferIsMine, InTransaction, o
  <2> QED
    BY <1>3, <1>4, <1>5, <2>1, OfferOfType DEF LockedOfferIsMine, InTransaction
<1>9. LockedListIsMine'
  BY <1>1, <1>3 DEF LockedListIsMine, HoldsList
<1>10. PendingAreLate' /\ (before <= allocated)'
  BY <1>1, <1>2, <1>5 DEF PendingAreLate
<1>11. OneCredentialPerOffer'
  <2>1. \A b \in Offers : b \in Issued' <=> offer'[b].state = "issued"
    BY <1>1, <1>5, <1>6 DEF OneCredentialPerOffer
  <2>2. \A p \in Requests : request'[p].pc = "answered" => OfferOf(p)' \in Issued'
    BY <1>3, <1>4, <1>6 DEF OneCredentialPerOffer, o
  <2>3. \A p \in Requests : p # q /\ request'[p].pc = "answered" => OfferOf(p)' # OfferOf(q)'
    BY <1>1, <1>3, <1>4 DEF OneCredentialPerOffer, o
  <2> QED
    BY <2>1, <2>2, <2>3, <1>3, <1>4 DEF OneCredentialPerOffer
<1>12. SlotsWithoutGaps'
  <2>1. {credential'[b].index : b \in Issued'}
           = {credential[b].index : b \in Issued} \union {allocated}
    BY <1>1, <1>5, <1>6 DEF Issued
  <2>2. before .. (allocated' - 1) = (before .. (allocated - 1)) \union {allocated}
    BY <1>1, <1>2
  <2>3. Cardinality(Issued') = Cardinality(Issued) + 1
    <3>1. IsFiniteSet(Issued)
      BY FS_Subset, IssuanceAssumption DEF Issued
    <3> QED
      BY <1>1, <1>6, <3>1, FS_AddElement
  <2>4. allocated' <= Capacity /\ Cardinality(Issued') = allocated' - before'
    BY <1>1, <1>2, <2>3, IssuanceAssumption DEF SlotsWithoutGaps
  <2> QED
    BY <1>2, <2>1, <2>2, <2>4 DEF SlotsWithoutGaps
<1>13. OldOffersDieWithIssuer'
  BY <1>1, <1>2, <1>5, <1>6 DEF OldOffersDieWithIssuer, PendingAreLate, Issued
<1> QED
  BY <1>7, <1>8, <1>9, <1>10, <1>11, <1>12, <1>13

(* Steps that change offers but issue none: create, expire, cancel.  They  *)
(* leave an offer alone that is locked or issued.                          *)
LEMMA OfferStepPreserves ==
    ASSUME IssuanceTypeOK, IssuanceInv, IssuanceTypeOK',
           \A o \in Offers : \/ offer'[o] = offer[o]
                             \/ /\ offer[o].state # "issued" /\ offer'[o].state # "issued"
                                /\ ~OfferLocked(o) \/ offer[o].state # "pending",
           late \subseteq late', PendingAreLate',
           UNCHANGED <<exchange, request, credential, listVars>>
    PROVE  IssuanceInv'
<1> USE DEF IssuanceInv, listVars
<1>1. \A q \in Requests : OfferOf(q)' = OfferOf(q) /\ OfferOf(q) \in Offers
  BY OfferOfType DEF OfferOf
<1>2. TokensAreFinal' /\ LockedListIsMine' /\ SlotsWithoutGaps' /\ (before <= allocated)'
  BY DEF TokensAreFinal, LockedListIsMine, SlotsWithoutGaps, Issued
<1>3. LockedOfferIsMine'
  BY <1>1 DEF LockedOfferIsMine, OfferLocked
<1>4. OneCredentialPerOffer' /\ OldOffersDieWithIssuer'
  BY <1>1 DEF OneCredentialPerOffer, OldOffersDieWithIssuer, Issued
<1> QED
  BY <1>2, <1>3, <1>4

-----------------------------------------------------------------------------
(* The types and the inductive invariant of the issuance.                  *)
LEMMA IssuanceInvHolds == IssuanceSpec => [](IssuanceTypeOK /\ IssuanceInv)
<1>1. IssuanceInit => IssuanceTypeOK /\ IssuanceInv
  <2> SUFFICES ASSUME IssuanceInit PROVE IssuanceTypeOK /\ IssuanceInv
    OBVIOUS
  <2>1. IssuanceTypeOK
    BY InitialTypes DEF IssuanceInit, IssuanceTypeOK, OfferRow, ExchangeState
  <2>2. /\ \A q \in Requests : request[q].pc = "idle"
        /\ \A o \in Offers : offer[o].state = "absent"
        /\ Issued = {} /\ issuer = "active"
        /\ allocated = before /\ before \in Nat /\ before <= Capacity
    BY IssuanceAssumption DEF IssuanceInit, IdleRequest, NoCredential, Issued
  <2>3. SlotsWithoutGaps
    <3>1. {credential[o].index : o \in Issued} = {} /\ before .. allocated - 1 = {}
      BY <2>2
    <3> QED
      BY <2>2, <3>1, FS_EmptySet DEF SlotsWithoutGaps
  <2> QED
    BY <2>1, <2>2, <2>3
    DEF IssuanceInv, TokensAreFinal, LockedOfferIsMine, LockedListIsMine, PendingAreLate,
        OneCredentialPerOffer, OldOffersDieWithIssuer, InTransaction, HoldsList
<1>2. IssuanceTypeOK /\ IssuanceInv /\ [IssuanceNext]_issuanceVars
         => IssuanceTypeOK' /\ IssuanceInv'
  <2> SUFFICES ASSUME IssuanceTypeOK, IssuanceInv, [IssuanceNext]_issuanceVars
               PROVE  IssuanceTypeOK' /\ IssuanceInv'
    OBVIOUS
  <2>0. IssuanceTypeOK'
    BY IssuanceTypes DEF IssuanceInv
  <2> USE DEF offerVars, tokenVars, issuerVars, listVars
  <2>1. ASSUME NEW o \in Offers, CreateOffer(o) PROVE IssuanceInv'
    <3>1. offer'[o].state = "pending" /\ \A b \in Offers : b # o => offer'[b] = offer[b]
      BY <2>1 DEF CreateOffer, IssuanceTypeOK
    <3>2. PendingAreLate'
      BY <2>1, <3>1 DEF CreateOffer, PendingAreLate, IssuanceInv
    <3> QED
      BY <2>0, <2>1, <3>1, <3>2, OfferStepPreserves DEF CreateOffer
  <2>2. ASSUME NEW o \in Offers, Expire(o) \/ CancelFind(o) PROVE IssuanceInv'
    <3>1. PendingAreLate'
      BY <2>2 DEF Expire, CancelFind, PendingAreLate, IssuanceInv
    <3> QED
      BY <2>0, <2>2, <3>1, OfferStepPreserves DEF Expire, CancelFind
  <2>3. ASSUME NEW o \in Offers, CancelWrite(o) PROVE IssuanceInv'
    <3>1. /\ \A b \in Offers : b # o => offer'[b] = offer[b]
          /\ offer'[o] = offer[o] \/ (offer[o].state = "pending" /\ offer'[o].state = "cancelled")
      BY <2>3 DEF CancelWrite, Cancelled, IssuanceTypeOK
    <3>2. PendingAreLate'
      BY <2>3, <3>1 DEF CancelWrite, PendingAreLate, IssuanceInv
    <3> QED
      BY <2>0, <2>3, <3>1, <3>2, OfferStepPreserves DEF CancelWrite
  <2>4. ASSUME NEW x \in Exchanges,
               \/ \E o \in Offers : FetchOffer(x, o)
               \/ FindByPreAuthCode(x) \/ InsertToken(x) \/ InsertNonce(x) \/ ExchangeFails(x)
        PROVE  IssuanceInv'
    <3>1. /\ exchange[x].pc # "done" /\ exchange'[x] \in ExchangeState
          /\ exchange' = [exchange EXCEPT ![x] = exchange'[x]]
          /\ UNCHANGED <<offerVars, request, credential, listVars, issuerVars>>
      BY <2>0, <2>4
      DEF IssuanceTypeOK, FetchOffer, FindByPreAuthCode, InsertToken, InsertNonce,
          ExchangeFails
    <3> HIDE DEF offerVars, listVars, issuerVars
    <3> QED
      BY <3>1, ExchangeStepPreserves
  <2>5. ASSUME NEW x \in Exchanges, TtlPasses(x) PROVE IssuanceInv'
    <3>1. PendingAreLate'
      BY <2>5 DEF TtlPasses, PendingAreLate, IssuanceInv
    <3> QED
      BY <2>0, <2>5, <3>1, OfferStepPreserves DEF TtlPasses
  <2>6. ASSUME NEW q \in Requests,
               \/ \E x, y \in Exchanges : FindToken(q, x, y)
               \/ CheckOffer(q) \/ ConsumeNonce(q) \/ RequestFails(q)
               \/ LockOffer(q) /\ offer[OfferOf(q)].state # "pending"
        PROVE  IssuanceInv'
    <3>1. /\ request'[q] \in RequestState
          /\ request' = [request EXCEPT ![q] = request'[q]]
          /\ UNCHANGED <<offerVars, exchange, credential, listVars, issuerVars>>
      BY <2>0, <2>6
      DEF IssuanceTypeOK, FindToken, CheckOffer, ConsumeNonce, RequestFails, LockOffer,
          Moves, Refuse
    <3>2. /\ request'[q].pc \in {"idle", "authorised", "checked", "consumed"}
          /\ request'[q].pc = "idle" \/ exchange[request'[q].token].pc = "done"
      BY <2>6
      DEF IssuanceTypeOK, FindToken, CheckOffer, ConsumeNonce, RequestFails, LockOffer,
          Moves, Refuse, IdleRequest, IssuanceInv, TokensAreFinal, RequestState
    <3> HIDE DEF offerVars, listVars, issuerVars
    <3> QED
      BY <3>1, <3>2, UnlockedStepPreserves
  <2>7. ASSUME NEW q \in Requests,
               \/ LockOffer(q) /\ offer[OfferOf(q)].state = "pending"
               \/ AllocateSlot(q) \/ InsertCredential(q)
        PROVE  IssuanceInv'
    <3>1. /\ request'[q] \in RequestState
          /\ request' = [request EXCEPT ![q] = request'[q]]
          /\ UNCHANGED <<offerVars, exchange, credential, listVars, issuerVars>>
      BY <2>0, <2>7
      DEF IssuanceTypeOK, LockOffer, AllocateSlot, InsertCredential, Moves
    <3>2. CASE request'[q].pc = "idle"
      BY <3>1, <3>2, UnlockedStepPreserves
    <3>3. CASE request'[q].pc # "idle"
      <4> DEFINE old == request[q]
                 new == request'[q]
      <4>1. \/ /\ old.pc = "consumed" /\ new = [old EXCEPT !.pc = "locked"]
               /\ ~OfferLocked(OfferOf(q)) /\ offer[OfferOf(q)].state = "pending"
            \/ /\ old.pc = "locked" /\ ~ListLocked /\ allocated < Capacity
               /\ new = [old EXCEPT !.pc = "allocated", !.index = allocated]
            \/ old.pc = "allocated" /\ new = [old EXCEPT !.pc = "inserted"]
        <5>1. CASE LockOffer(q) /\ offer[OfferOf(q)].state = "pending"
          BY <5>1 DEF IssuanceTypeOK, LockOffer, Moves
        <5>2. CASE AllocateSlot(q)
          BY <3>3, <5>2 DEF IssuanceTypeOK, AllocateSlot, IdleRequest
        <5>3. CASE InsertCredential(q)
          BY <5>3 DEF IssuanceTypeOK, InsertCredential, Moves
        <5> QED
          BY <2>7, <5>1, <5>2, <5>3
      <4>2. old \in RequestState /\ new \in RequestState
        BY <3>1 DEF IssuanceTypeOK
      <4>3. old.pc = "allocated" => old.index = allocated /\ allocated < Capacity
        BY DEF IssuanceInv, LockedListIsMine, HoldsList
      <4> HIDE DEF offerVars, listVars, issuerVars, old, new
      <4>4. /\ new.pc \in InTransaction /\ new.token = old.token
            /\ old.pc \in {"consumed"} \union InTransaction
        BY <4>1, <4>2 DEF InTransaction, RequestState
      <4>5. new.pc \in HoldsList => /\ new.index = allocated /\ allocated < Capacity
                                    /\ old.pc \in HoldsList \/ ~ListLocked
        BY <4>1, <4>2, <4>3 DEF HoldsList, RequestState
      <4>6. old.pc = "consumed" => /\ ~OfferLocked(OfferOf(q))
                                   /\ offer[OfferOf(q)].state = "pending"
        BY <4>1
      <4> QED
        BY <3>1, <4>4, <4>5, <4>6, LockedStepPreserves DEF old, new
    <3> QED
      BY <3>2, <3>3
  <2>8. CASE LockIssuer \/ DeactivationFails
    <3>1. PendingAreLate'
      BY <2>8 DEF LockIssuer, DeactivationFails, PendingAreLate, IssuanceInv
    <3> QED
      BY <2>0, <2>8, <3>1, OfferStepPreserves DEF LockIssuer, DeactivationFails
  <2>9. CASE CancelAllAndCommit
    <3>1. \A o \in Offers : IF offer[o].state = "pending" THEN offer'[o].state = "cancelled"
                                                          ELSE offer'[o] = offer[o]
      BY <2>9 DEF CancelAllAndCommit, Pending, Cancelled
    <3>2. PendingAreLate'
      BY <3>1 DEF PendingAreLate
    <3> QED
      BY <2>0, <2>9, <3>1, <3>2, OfferStepPreserves DEF CancelAllAndCommit, Pending
  <2>10. CASE UNCHANGED issuanceVars
    <3>1. PendingAreLate'
      BY <2>10 DEF issuanceVars, PendingAreLate, IssuanceInv
    <3> QED
      BY <2>0, <2>10, <3>1, OfferStepPreserves DEF issuanceVars
  <2> QED
    BY <2>0, <2>1, <2>2, <2>3, <2>4, <2>5, <2>6, <2>7, <2>8, <2>9, <2>10, CommitPreserves
    DEF IssuanceNext, CredentialStep, DeadlockDetected
<1> QED
  BY <1>1, <1>2, PTL DEF IssuanceSpec

(* However wallets, cancellations, expiry, deactivation and duplicate      *)
(* requests interleave, an offer is issued exactly when it has a           *)
(* credential, and at most one request is answered with it                 *)
(* (find_by_id_for_update and set_issued_state in POST /credential).       *)
THEOREM OffersIssueOnce == IssuanceSpec => []OneCredentialPerOffer
  BY IssuanceInvHolds, PTL DEF IssuanceInv

(* The slots of a status list are handed out one after the other: no slot  *)
(* is used twice, none is lost to a rolled-back issuance, and none beyond  *)
(* the capacity is used (allocate_status_slot).                            *)
THEOREM SlotsAreConsecutive == IssuanceSpec => []SlotsWithoutGaps
  BY IssuanceInvHolds, PTL DEF IssuanceInv

(* No offer that was there when its issuer was deactivated is redeemed     *)
(* later (cancel_all_pending_for_issuer in mark_deactivated).              *)
THEOREM DeactivationKillsOffers == IssuanceSpec => []OldOffersDieWithIssuer
  BY IssuanceInvHolds, PTL DEF IssuanceInv
=============================================================================
