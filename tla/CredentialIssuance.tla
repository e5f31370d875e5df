-------------------------- MODULE CredentialIssuance --------------------------
(***************************************************************************)
(* From a credential offer to an issued credential: the management API     *)
(* creates and cancels offers, a wallet exchanges the pre-authorised code  *)
(* at POST /token and presents the token with a proof at POST /credential, *)
(* and the last step of a deactivation cancels what is still pending.      *)
(* One issuer with one status list.                                        *)
(*                                                                         *)
(* The two wallet endpoints run several autocommit statements; the end of  *)
(* POST /credential and mark_deactivated are READ COMMITTED transactions,  *)
(* split where they take a row lock.  Locks taken for foreign keys (KEY    *)
(* SHARE on the referenced row, which FOR UPDATE excludes) are included:   *)
(* they decide how an issuance and a deactivation meet.                    *)
(***************************************************************************)
EXTENDS Naturals, FiniteSets

CONSTANTS
    Offers,     \* offers that may be created
    Exchanges,  \* POST /token requests, each minting its own token and nonce
    Requests,   \* POST /credential requests under way at the same time
    Capacity    \* slots of the issuer's status list

ASSUME IssuanceAssumption ==
    /\ IsFiniteSet(Offers) /\ Offers # {} /\ Exchanges # {}
    /\ Capacity \in Nat

VARIABLES
    offer,        \* credential_offers: state and whether pre_auth_code is set
    expired,      \* offers past expires_at
    exchange,     \* the POST /token requests
    tokens,       \* oidc_access_tokens: exchanges whose token row exists
    nonces,       \* oidc_nonces: exchanges whose nonce row exists
    stale,        \* exchanges whose token and nonce are past their TTL
    request,      \* the POST /credential requests
    credential,   \* issued_credentials, by offer
    allocated,    \* status_lists.allocated_count
    issuer,       \* issuers.state
    deactivation, \* the transaction of mark_deactivated
    cancelling,   \* offers a cancel request has found pending
    late,         \* history: offers created under a deactivated issuer
    before        \* history: slots that other offers had used up earlier

offerVars    == <<offer, expired, cancelling, late>>
tokenVars    == <<exchange, tokens, nonces, stale>>
issuerVars   == <<issuer, deactivation>>
listVars     == <<allocated, before>>
issuanceVars == <<offerVars, tokenVars, request, credential, listVars, issuerVars>>

-----------------------------------------------------------------------------

OfferRow == [state : {"absent", "pending", "issued", "cancelled"},
             code : {"null", "set"}]

ExchangeState == [pc : {"idle", "fetched", "found", "tokened", "done", "refused"}, offer : Offers]

RequestState == [pc : {"idle", "authorised", "checked", "consumed", "locked",
                       "allocated", "inserted", "answered"},
                 token : Exchanges, nonce : Exchanges, index : Nat]

CredentialRow == [state : {"none", "active"}, index : Nat,
                  issuer : {"active", "deactivated"}]

IssuanceTypeOK ==
    /\ offer \in [Offers -> OfferRow]
    /\ expired \subseteq Offers /\ cancelling \subseteq Offers /\ late \subseteq Offers
    /\ exchange \in [Exchanges -> ExchangeState]
    /\ tokens \subseteq Exchanges /\ nonces \subseteq Exchanges /\ stale \subseteq Exchanges
    /\ request \in [Requests -> RequestState]
    /\ credential \in [Offers -> CredentialRow]
    /\ allocated \in 0 .. Capacity /\ before \in 0 .. Capacity
    /\ issuer \in {"active", "deactivated"}
    /\ deactivation \in {"idle", "locked"}

SomeExchange == CHOOSE x \in Exchanges : TRUE
IdleRequest  == [pc |-> "idle", token |-> SomeExchange, nonce |-> SomeExchange,
                 index |-> 0]
NoCredential == [state |-> "none", index |-> 0, issuer |-> "active"]

IssuanceInit ==
    /\ offer = [o \in Offers |-> [state |-> "absent", code |-> "null"]]
    /\ expired = {} /\ cancelling = {} /\ late = {}
    /\ exchange = [x \in Exchanges |-> [pc |-> "idle", offer |-> CHOOSE o \in Offers : TRUE]]
    /\ tokens = {} /\ nonces = {} /\ stale = {}
    /\ request = [q \in Requests |-> IdleRequest]
    /\ credential = [o \in Offers |-> NoCredential]
    /\ before \in 0 .. Capacity /\ allocated = before
    /\ issuer = "active" /\ deactivation = "idle"

-----------------------------------------------------------------------------
(* Row locks.                                                              *)

(* The offer a request is about, through the token it presents.            *)
OfferOf(q) == exchange[request[q].token].offer

InTransaction == {"locked", "allocated", "inserted"}

OfferLocked(o)  == \E q \in Requests : request[q].pc \in InTransaction /\ OfferOf(q) = o
ListLocked      == \E q \in Requests : request[q].pc \in {"allocated", "inserted"}
IssuerShared    == \E q \in Requests : request[q].pc = "inserted"
IssuerExclusive == deactivation = "locked"

-----------------------------------------------------------------------------
(* Offers.                                                                 *)

(* create_offer looks the issuer up but not at its state.                  *)
CreateOffer(o) ==
    /\ offer[o].state = "absent"
    /\ ~IssuerExclusive
    /\ offer' = [offer EXCEPT ![o] = [state |-> "pending", code |-> "set"]]
    /\ late' = IF issuer = "deactivated" THEN late \union {o} ELSE late
    /\ UNCHANGED <<expired, cancelling, tokenVars, request, credential, listVars,
                   issuerVars>>

Expire(o) ==
    /\ offer[o].state # "absent"
    /\ o \notin expired
    /\ expired' = expired \union {o}
    /\ UNCHANGED <<offer, cancelling, late, tokenVars, request, credential, listVars,
                   issuerVars>>

(* cancel_offer: the load, then the UPDATE guarded by state = 'pending'.   *)
CancelFind(o) ==
    /\ offer[o].state = "pending"
    /\ o \notin cancelling
    /\ cancelling' = cancelling \union {o}
    /\ UNCHANGED <<offer, expired, late, tokenVars, request, credential, listVars,
                   issuerVars>>

Cancelled == [state |-> "cancelled", code |-> "null"]

(* Mutant: the UPDATE is not guarded by state = 'pending'.                 *)
CancelWriteUnguarded(o) ==
    /\ o \in cancelling
    /\ ~OfferLocked(o)
    /\ offer' = [offer EXCEPT ![o] = Cancelled]
    /\ cancelling' = cancelling \ {o}
    /\ UNCHANGED <<expired, late, tokenVars, request, credential, listVars, issuerVars>>

CancelWrite(o) ==
    /\ o \in cancelling
    /\ ~OfferLocked(o)
    /\ offer' = IF offer[o].state = "pending" THEN [offer EXCEPT ![o] = Cancelled]
                                              ELSE offer
    /\ cancelling' = cancelling \ {o}
    /\ UNCHANGED <<expired, late, tokenVars, request, credential, listVars, issuerVars>>

-----------------------------------------------------------------------------
(* The wallet fetches the offer by reference, and then POST /token.        *)

Redeemable(o) == offer[o].state = "pending" /\ o \notin expired /\ offer[o].code = "set"

(* GET credential-offer hands out the code of an offer that is pending;    *)
(* a scanned link may be fetched by several wallets, or again.             *)
FetchOffer(x, o) ==
    /\ exchange[x].pc = "idle"
    /\ Redeemable(o)
    /\ exchange' = [exchange EXCEPT ![x] = [pc |-> "fetched", offer |-> o]]
    /\ UNCHANGED <<offerVars, tokens, nonces, stale, request, credential, listVars,
                   issuerVars>>

(* The code is presented: the row that has it, if one still has, and its   *)
(* observed state.                                                         *)
FindByPreAuthCode(x) ==
    /\ exchange[x].pc = "fetched"
    /\ exchange' = [exchange EXCEPT ![x].pc =
                       IF Redeemable(exchange[x].offer) THEN "found" ELSE "refused"]
    /\ UNCHANGED <<offerVars, tokens, nonces, stale, request, credential, listVars,
                   issuerVars>>

(* UNIQUE (offer_id): a row of an earlier exchange, expired or not, makes  *)
(* the insert fail.                                                        *)
InsertToken(x) ==
    LET o == exchange[x].offer
        taken == \E y \in tokens : exchange[y].offer = o
    IN  /\ exchange[x].pc = "found"
        /\ ~OfferLocked(o)
        /\ tokens' = IF taken THEN tokens ELSE tokens \union {x}
        /\ exchange' = [exchange EXCEPT ![x].pc = IF taken THEN "refused" ELSE "tokened"]
        /\ UNCHANGED <<offerVars, nonces, stale, request, credential, listVars,
                       issuerVars>>

InsertNonce(x) ==
    /\ exchange[x].pc = "tokened"
    /\ ~OfferLocked(exchange[x].offer)
    /\ nonces' = nonces \union {x}
    /\ exchange' = [exchange EXCEPT ![x].pc = "done"]
    /\ UNCHANGED <<offerVars, tokens, stale, request, credential, listVars, issuerVars>>

(* The process dies or a statement fails: what was inserted stays.         *)
ExchangeFails(x) ==
    /\ exchange[x].pc \in {"found", "tokened"}
    /\ exchange' = [exchange EXCEPT ![x].pc = "refused"]
    /\ UNCHANGED <<offerVars, tokens, nonces, stale, request, credential, listVars,
                   issuerVars>>

TtlPasses(x) ==
    /\ exchange[x].pc \in {"tokened", "done"}
    /\ x \notin stale
    /\ stale' = stale \union {x}
    /\ UNCHANGED <<offerVars, exchange, tokens, nonces, request, credential, listVars,
                   issuerVars>>

-----------------------------------------------------------------------------
(* POST /credential.                                                       *)

Moves(q, from, to) ==
    /\ request[q].pc = from
    /\ request' = [request EXCEPT ![q].pc = to]

Refuse(q, from) ==
    /\ request[q].pc = from
    /\ request' = [request EXCEPT ![q] = IdleRequest]

(* find_valid_by_hash: the bearer token of x, the proof made for nonce y.  *)
FindToken(q, x, y) ==
    /\ request[q].pc = "idle"
    /\ exchange[x].pc = "done" /\ exchange[y].pc = "done"
    /\ x \in tokens /\ x \notin stale
    /\ request' = [request EXCEPT ![q] = [pc |-> "authorised", token |-> x, nonce |-> y,
                                             index |-> 0]]
    /\ UNCHANGED <<offerVars, tokenVars, credential, listVars, issuerVars>>

(* find_by_id and observed_state(now).  This now is used to the end.       *)
CheckOffer(q) ==
    /\ \/ /\ offer[OfferOf(q)].state = "pending" /\ OfferOf(q) \notin expired
          /\ Moves(q, "authorised", "checked")
       \/ /\ offer[OfferOf(q)].state # "pending" \/ OfferOf(q) \in expired
          /\ Refuse(q, "authorised")
    /\ UNCHANGED <<offerVars, tokenVars, credential, listVars, issuerVars>>

(* consume_by_hash commits on its own: the nonce is gone whatever happens  *)
(* next, and also when it turns out to belong to another offer.  Expiry is *)
(* judged by the request's now, so a nonce that goes stale meanwhile may   *)
(* still be accepted.                                                      *)
ConsumeNonce(q) ==
    LET y == request[q].nonce IN
    /\ \/ /\ y \in nonces
          /\ nonces' = nonces \ {y}
          /\ IF exchange[y].offer = OfferOf(q) THEN Moves(q, "checked", "consumed")
                                               ELSE Refuse(q, "checked")
       \/ /\ y \notin nonces \/ y \in stale
          /\ Refuse(q, "checked")
          /\ UNCHANGED nonces
    /\ UNCHANGED <<offerVars, exchange, tokens, stale, credential, listVars, issuerVars>>

(* Mutant: try_issue runs on the copy read before the transaction.         *)
LockOfferWithoutCheck(q) ==
    /\ ~OfferLocked(OfferOf(q))
    /\ Moves(q, "consumed", "locked")
    /\ UNCHANGED <<offerVars, tokenVars, credential, listVars, issuerVars>>

(* find_by_id_for_update and try_issue on what it returned.                *)
LockOffer(q) ==
    /\ ~OfferLocked(OfferOf(q))
    /\ IF offer[OfferOf(q)].state = "pending" THEN Moves(q, "consumed", "locked")
                                              ELSE Refuse(q, "consumed")
    /\ UNCHANGED <<offerVars, tokenVars, credential, listVars, issuerVars>>

(* Mutant: the index is read without the list's row lock.                  *)
AllocateSlotUnlocked(q) ==
    /\ request[q].pc = "locked"
    /\ request' = [request EXCEPT ![q] =
                      IF allocated < Capacity
                      THEN [request[q] EXCEPT !.pc = "allocated", !.index = allocated]
                      ELSE IdleRequest]
    /\ UNCHANGED <<offerVars, tokenVars, credential, listVars, issuerVars>>

(* allocate_status_slot: the list's row stays locked until the end, so the *)
(* index is the committed allocated_count.  A full list is not replaced.   *)
AllocateSlot(q) ==
    /\ request[q].pc = "locked"
    /\ ~ListLocked
    /\ request' = [request EXCEPT ![q] =
                      IF allocated < Capacity
                      THEN [request[q] EXCEPT !.pc = "allocated", !.index = allocated]
                      ELSE IdleRequest]
    /\ UNCHANGED <<offerVars, tokenVars, credential, listVars, issuerVars>>

(* Signing and the INSERT of the credential, which references the issuer.  *)
InsertCredential(q) ==
    /\ ~IssuerExclusive
    /\ Moves(q, "allocated", "inserted")
    /\ UNCHANGED <<offerVars, tokenVars, credential, listVars, issuerVars>>

(* Mutant: set_issued_state runs on a second connection and waits for the  *)
(* row its own transaction has locked.                                     *)
CommitOnOtherConnection(q) ==
    LET o == OfferOf(q)
        i == request[q].index IN
    /\ ~OfferLocked(o)
    /\ Moves(q, "inserted", "answered")
    /\ offer' = [offer EXCEPT ![o] = [state |-> "issued", code |-> "null"]]
    /\ credential' = [credential EXCEPT
                        ![o] = [state |-> "active", index |-> i, issuer |-> issuer]]
    /\ allocated' = i + 1
    /\ tokens' = tokens \ {request[q].token}
    /\ UNCHANGED <<expired, cancelling, late, exchange, nonces, stale, before, issuerVars>>

(* set_issued_state, delete_by_hash, COMMIT and the answer.                *)
CommitIssuance(q) ==
    LET o == OfferOf(q)
        i == request[q].index IN
    /\ Moves(q, "inserted", "answered")
    /\ offer' = [offer EXCEPT ![o] = [state |-> "issued", code |-> "null"]]
    /\ credential' = [credential EXCEPT
                        ![o] = [state |-> "active", index |-> i, issuer |-> issuer]]
    /\ allocated' = i + 1
    /\ tokens' = tokens \ {request[q].token}
    /\ UNCHANGED <<expired, cancelling, late, exchange, nonces, stale, before, issuerVars>>

(* An error, a crash or a dropped connection: ROLLBACK.                    *)
RequestFails(q) ==
    /\ request[q].pc \notin {"idle", "answered"}
    /\ request' = [request EXCEPT ![q] = IdleRequest]
    /\ UNCHANGED <<offerVars, tokenVars, credential, listVars, issuerVars>>

-----------------------------------------------------------------------------
(* mark_deactivated.                                                       *)

(* SELECT ... FOR UPDATE on the issuer; a second run of the step is legal. *)
LockIssuer ==
    /\ deactivation = "idle"
    /\ ~IssuerShared
    /\ deactivation' = "locked"
    /\ UNCHANGED <<offerVars, tokenVars, request, credential, listVars, issuer>>

Pending == {o \in Offers : offer[o].state = "pending"}

(* set_state, cancel_all_pending_for_issuer, COMMIT.                       *)
CancelAllAndCommit ==
    /\ deactivation = "locked"
    /\ \A o \in Pending : ~OfferLocked(o)
    /\ issuer' = "deactivated" /\ deactivation' = "idle"
    /\ offer' = [o \in Offers |-> IF o \in Pending THEN Cancelled ELSE offer[o]]
    /\ UNCHANGED <<expired, cancelling, late, tokenVars, request, credential, listVars>>

DeactivationFails ==
    /\ deactivation = "locked"
    /\ deactivation' = "idle"
    /\ UNCHANGED <<offerVars, tokenVars, request, credential, listVars, issuer>>

(* Postgres: an issuance that waits for the issuer while a deactivation    *)
(* that holds it waits for the offer; one of the two is aborted.           *)
DeadlockDetected(q) ==
    /\ request[q].pc = "allocated" /\ deactivation = "locked" /\ OfferOf(q) \in Pending
    /\ RequestFails(q) \/ DeactivationFails

-----------------------------------------------------------------------------

CredentialStep(q) ==
    \/ CheckOffer(q) \/ ConsumeNonce(q) \/ LockOffer(q) \/ AllocateSlot(q)
    \/ InsertCredential(q) \/ CommitIssuance(q)

IssuanceNext ==
    \/ \E o \in Offers :
          \/ CreateOffer(o) \/ Expire(o) \/ CancelFind(o) \/ CancelWrite(o)
          \/ \E x \in Exchanges : FetchOffer(x, o)
    \/ \E x \in Exchanges :
          \/ FindByPreAuthCode(x) \/ InsertToken(x) \/ InsertNonce(x)
          \/ ExchangeFails(x) \/ TtlPasses(x)
    \/ \E q \in Requests :
          \/ \E x, y \in Exchanges : FindToken(q, x, y)
          \/ CredentialStep(q) \/ RequestFails(q) \/ DeadlockDetected(q)
    \/ LockIssuer \/ CancelAllAndCommit \/ DeactivationFails

IssuanceSpec == IssuanceInit /\ [][IssuanceNext]_issuanceVars

-----------------------------------------------------------------------------
(* Properties.                                                             *)

Issued == {o \in Offers : credential[o].state # "none"}

(* The offer, the credential and the answer to the wallet agree: an offer  *)
(* is issued exactly when its credential row exists, and at most one       *)
(* request per offer is ever answered with a credential, whatever cancel,  *)
(* expiry, deactivation or duplicate requests do in between.               *)
OneCredentialPerOffer ==
    /\ \A o \in Offers : o \in Issued <=> offer[o].state = "issued"
    /\ \A q \in Requests : request[q].pc = "answered" => OfferOf(q) \in Issued
    /\ \A p, q \in Requests :
          /\ request[p].pc = "answered" /\ request[q].pc = "answered"
          /\ OfferOf(p) = OfferOf(q)
          => p = q

(* The issued credentials use up the next slots of the list without gaps   *)
(* or doubles, up to its capacity: a rolled-back issuance gives its index  *)
(* back.                                                                   *)
SlotsWithoutGaps ==
    /\ {credential[o].index : o \in Issued} = before .. allocated - 1
    /\ Cardinality(Issued) = allocated - before
    /\ allocated <= Capacity

(* An offer that existed when its issuer was deactivated cannot be         *)
(* redeemed afterwards, although the issuance path never looks at the      *)
(* issuer's state: the bulk cancel and the re-read under the offer's row   *)
(* lock see to it (mark_deactivated, find_by_id_for_update).               *)
OldOffersDieWithIssuer ==
    \A o \in Issued : credential[o].issuer = "deactivated" => o \in late

(* "Issuing new credentials from a deactivated issuer is not allowed; that *)
(* gate sits on the issuance path" (aspect-credential-management.md).      *)
(* Does not hold, as there is no such gate (README, known divergences); no *)
(* run has it.                                                             *)
NoIssuanceOnceDeactivated ==
    \A o \in Issued : credential[o].issuer = "active"

(* Nobody waits for ever: the issuances that hold locks (offer, then list, *)
(* then the issuer through the foreign key) and the deactivation (issuer,  *)
(* then the pending offers) take them in different orders, and still one   *)
(* of them can go on, or Postgres sees the cycle and aborts one of the two *)
(* in it.                                                                  *)
LocksAreReleased ==
    LET Open == {q \in Requests : request[q].pc \in InTransaction} IN
    Open # {} \/ IssuerExclusive =>
        \/ \E q \in Open : ENABLED CredentialStep(q) \/ ENABLED DeadlockDetected(q)
        \/ ENABLED CancelAllAndCommit
=============================================================================
