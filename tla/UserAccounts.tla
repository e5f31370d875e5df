---------------------------- MODULE UserAccounts ----------------------------
(***************************************************************************)
(* User accounts and the invitations that link them to an identity: the    *)
(* handlers of user_accounts.rs, invitations.rs and linking.rs over the    *)
(* tables user_accounts and user_account_invitations.                      *)
(*                                                                         *)
(* A handler of several statements is one step per statement at which it   *)
(* can be overtaken; a refused request (404, 409) changes nothing and goes *)
(* back to "idle".  The writes at the end of a transaction are one step:   *)
(* the row locks it takes keep the others out until it commits.            *)
(***************************************************************************)
EXTENDS Naturals, FiniteSets

CONSTANTS
    Tenants, Accounts, Identities, Invitations,
    Requests,       \* requests to the management API in progress at a time
    None,           \* NULL, or no row
    InvitationTtl,  \* life of an invitation, in ticks
    MaxTime         \* bound of the model on the clock

ASSUME AccountAssumption ==
    /\ InvitationTtl \in Nat /\ MaxTime \in Nat
    /\ None \notin Identities /\ None \notin Accounts /\ None \notin Invitations

VARIABLES
    account,     \* rows of user_accounts
    invitation,  \* rows of user_account_invitations
    request,     \* what each request has read so far
    clock

accountVars == <<account, invitation, request, clock>>

-----------------------------------------------------------------------------

Names == {0, 1}  \* the provisioning columns: NULL or set

AccountRow == [tenant : Tenants, state : {"active", "deactivated"},
               identity : Identities \union {None}, name : Names]

(* The code's hash is set exactly while the row is pending.                *)
InvitationRow == [account : Accounts, state : {"pending", "accepted", "revoked", "expired"},
                  expires : 0 .. MaxTime + InvitationTtl]

(* NULL is not a row.                                                      *)
ASSUME NullAssumption == None \notin AccountRow /\ None \notin InvitationRow

Request == [pc : {"idle", "patching", "inviting", "accepting", "linking", "revoking"},
            account : Accounts \union {None}, invitation : Invitations \union {None},
            identity : Identities \union {None}, now : 0 .. MaxTime, name : Names]

AccountTypeOK ==
    /\ account \in [Accounts -> AccountRow \union {None}]
    /\ invitation \in [Invitations -> InvitationRow \union {None}]
    /\ request \in [Requests -> Request]
    /\ clock \in 0 .. MaxTime

NoRequest == [pc |-> "idle", account |-> None, invitation |-> None, identity |-> None,
              now |-> 0, name |-> 0]

AccountInit ==
    /\ account = [a \in Accounts |-> None]
    /\ invitation = [i \in Invitations |-> None]
    /\ request = [r \in Requests |-> NoRequest]
    /\ clock = 0

-----------------------------------------------------------------------------
(* Accounts.                                                               *)

Exists(a) == account[a] # None
Linked(a) == Exists(a) /\ account[a].identity # None

(* The rows of the identity, in whatever tenant and state.                 *)
ResolveLinkedAccounts(u) == {a \in Accounts : Exists(a) /\ account[a].identity = u}

Begin(r, q) == request[r].pc = "idle" /\ request' = [request EXCEPT ![r] = q]
End(r)      == request' = [request EXCEPT ![r] = NoRequest]

CreateAccount(a, t) ==
    /\ ~Exists(a)
    /\ account' = [account EXCEPT ![a] = [tenant |-> t, state |-> "active",
                                          identity |-> None, name |-> 0]]
    /\ UNCHANGED <<invitation, request, clock>>

(* activate and deactivate.                                                *)
SetAccountState(a, s) ==
    /\ Exists(a) /\ account[a].state # s
    /\ account' = [account EXCEPT ![a].state = s]
    /\ UNCHANGED <<invitation, request, clock>>

(* patch reads the row and merges what it was sent, or sent nothing ...    *)
PatchRead(r, a) ==
    /\ Exists(a)
    /\ \E n \in {1, account[a].name} :
          Begin(r, [NoRequest EXCEPT !.pc = "patching", !.account = a, !.name = n])
    /\ UNCHANGED <<account, invitation, clock>>

(* ... and update_provisioning writes the provisioning columns back.       *)
PatchWrite(r) ==
    /\ request[r].pc = "patching"
    /\ account' = [account EXCEPT ![request[r].account].name = request[r].name]
    /\ End(r)
    /\ UNCHANGED <<invitation, clock>>

-----------------------------------------------------------------------------
(* Invitations.                                                            *)

(* A pending row past its expiry counts as expired.                        *)
ObservedState(i, now) ==
    IF invitation[i].state = "pending" /\ now >= invitation[i].expires
    THEN "expired" ELSE invitation[i].state

PendingOf(a) == {i \in Invitations : invitation[i] # None /\ invitation[i].account = a
                                     /\ invitation[i].state = "pending"}

(* The pending rows of a that are due, with < where ObservedState has >=.  *)
ExpirePendingIfDue(a, now) == {i \in PendingOf(a) : invitation[i].expires < now}

(* create: the clock and the account are read; a linked account is a 409.  *)
InviteRead(r, a) ==
    /\ Exists(a) /\ ~Linked(a)
    /\ Begin(r, [NoRequest EXCEPT !.pc = "inviting", !.account = a, !.now = clock])
    /\ UNCHANGED <<account, invitation, clock>>

(* Due rows expire and the new row goes in; one that is still pending      *)
(* violates one_pending_uq, and the transaction is rolled back.            *)
InviteInsert(r, i) ==
    LET a == request[r].account
        due == ExpirePendingIfDue(a, request[r].now)
    IN /\ request[r].pc = "inviting" /\ invitation[i] = None
       /\ End(r)
       /\ invitation' =
             IF PendingOf(a) # due THEN invitation
             ELSE [j \in Invitations |->
                     IF j = i THEN [account |-> a, state |-> "pending",
                                    expires |-> request[r].now + InvitationTtl]
                     ELSE IF j \in due THEN [invitation[j] EXCEPT !.state = "expired"]
                     ELSE invitation[j]]
       /\ UNCHANGED <<account, clock>>

(* find_by_id and the check of the observed state.                         *)
RevokeFind(r, i) ==
    /\ invitation[i] # None /\ ObservedState(i, clock) = "pending"
    /\ Begin(r, [NoRequest EXCEPT !.pc = "revoking", !.invitation = i])
    /\ UNCHANGED <<account, invitation, clock>>

(* Mutant: the row is revoked whatever became of it.                       *)
RevokeAnyway(r) ==
    /\ request[r].pc = "revoking"
    /\ invitation' = [invitation EXCEPT ![request[r].invitation].state = "revoked"]
    /\ End(r)
    /\ UNCHANGED <<account, clock>>

(* mark_revoked, of a row that is still pending.                           *)
RevokeWrite(r) ==
    LET i == request[r].invitation IN
    /\ request[r].pc = "revoking"
    /\ invitation' = IF invitation[i].state = "pending"
                     THEN [invitation EXCEPT ![i].state = "revoked"] ELSE invitation
    /\ End(r)
    /\ UNCHANGED <<account, clock>>

(* accept: find_by_code_hash and the check of the observed state.          *)
AcceptFind(r, i, u) ==
    /\ invitation[i] # None /\ ObservedState(i, clock) = "pending"
    /\ Begin(r, [NoRequest EXCEPT !.pc = "accepting", !.account = invitation[i].account,
                                  !.invitation = i, !.identity = u])
    /\ UNCHANGED <<account, invitation, clock>>

(* The account is read; a linked one is a 409.                             *)
AcceptGetAccount(r) ==
    /\ request[r].pc = "accepting"
    /\ IF Linked(request[r].account) THEN End(r)
       ELSE request' = [request EXCEPT ![r].pc = "linking"]
    /\ UNCHANGED <<account, invitation, clock>>

(* user_accounts_tenant_identity_uq lets the identity be written.          *)
LinkAllowed(a, u) ==
    \A b \in ResolveLinkedAccounts(u) : b # a => account[b].tenant # account[a].tenant

(* Mutant: mark_accepted does not ask whether the row is still pending.    *)
LinkAndAcceptAnyway(r) ==
    LET q == request[r] IN
    /\ q.pc = "linking"
    /\ IF LinkAllowed(q.account, q.identity)
       THEN /\ account' = [account EXCEPT ![q.account].identity = q.identity]
            /\ invitation' = [invitation EXCEPT ![q.invitation].state = "accepted"]
       ELSE UNCHANGED <<account, invitation>>
    /\ End(r)
    /\ UNCHANGED clock

(* link_identity, which writes over any identity, and mark_accepted, whose *)
(* guard decides: if the row is no longer pending, both are rolled back.   *)
LinkAndAccept(r) ==
    LET q == request[r] IN
    /\ q.pc = "linking"
    /\ IF LinkAllowed(q.account, q.identity) /\ invitation[q.invitation].state = "pending"
       THEN /\ account' = [account EXCEPT ![q.account].identity = q.identity]
            /\ invitation' = [invitation EXCEPT ![q.invitation].state = "accepted"]
       ELSE UNCHANGED <<account, invitation>>
    /\ End(r)
    /\ UNCHANGED clock

Tick == clock < MaxTime /\ clock' = clock + 1 /\ UNCHANGED <<account, invitation, request>>

-----------------------------------------------------------------------------

AccountNext ==
    \/ \E a \in Accounts, t \in Tenants : CreateAccount(a, t)
    \/ \E a \in Accounts, s \in {"active", "deactivated"} : SetAccountState(a, s)
    \/ \E r \in Requests, a \in Accounts : PatchRead(r, a) \/ InviteRead(r, a)
    \/ \E r \in Requests : PatchWrite(r) \/ RevokeWrite(r)
                           \/ AcceptGetAccount(r) \/ LinkAndAccept(r)
    \/ \E r \in Requests, i \in Invitations : InviteInsert(r, i) \/ RevokeFind(r, i)
    \/ \E r \in Requests, i \in Invitations, u \in Identities : AcceptFind(r, i, u)
    \/ Tick

AccountSpec == AccountInit /\ [][AccountNext]_accountVars

-----------------------------------------------------------------------------
(* link_identity is an UPDATE by id alone: neither it nor the check before *)
(* it keeps a second acceptance from replacing a linked identity.  The     *)
(* guard of mark_accepted and one_pending_uq do, together: once linked, an *)
(* account belongs to that identity for good.                              *)
LinkIsFinal ==
    [][\A a \in Accounts : Linked(a) => Linked(a)' /\ account'[a].identity = account[a].identity]_account

(* An identity gets into an account by exactly one accepted invitation,    *)
(* and an invitation that was withdrawn never linked anyone.               *)
LinkedByOneInvitation ==
    \A a \in Accounts :
        Cardinality({i \in Invitations : invitation[i] # None /\ invitation[i].account = a
                                         /\ invitation[i].state = "accepted"})
        = IF Linked(a) THEN 1 ELSE 0
=============================================================================
