------------------------- MODULE BffSessions_proofs -------------------------
(***************************************************************************)
(* Proofs about user accounts (module UserAccounts) and about the sessions *)
(* of the BFF that rest on them, for any number of accounts, invitations,  *)
(* identities, logins and overlapping requests.                            *)
(***************************************************************************)
EXTENDS BffSessions, FiniteSetTheorems, TLAPS

(***************************************************************************)
(* Accounts and invitations.                                               *)
(***************************************************************************)

(* Rows are never deleted: what a request or an invitation points to is    *)
(* there.                                                                  *)
PointersHold ==
    /\ \A i \in Invitations : invitation[i] # None => Exists(invitation[i].account)
    /\ \A r \in Requests : request[r].pc \in {"patching", "inviting"} =>
          request[r].account \in Accounts /\ Exists(request[r].account)
    /\ \A r \in Requests : request[r].pc = "revoking" =>
          request[r].invitation \in Invitations /\ invitation[request[r].invitation] # None
    /\ \A r \in Requests : request[r].pc \in {"accepting", "linking"} =>
          /\ request[r].invitation \in Invitations
          /\ invitation[request[r].invitation] # None
          /\ invitation[request[r].invitation].account = request[r].account
          /\ request[r].identity \in Identities

(* one_pending_uq.                                                         *)
OnePending ==
    \A i, j \in Invitations :
        /\ invitation[i] # None /\ invitation[j] # None
        /\ invitation[i].state = "pending" /\ invitation[j].state = "pending"
        /\ invitation[i].account = invitation[j].account
        => i = j

LinkedAccounts == {a \in Accounts : Linked(a)}

(* Whoever is about to link an account by an invitation that still counts  *)
(* finds it unlinked: another acceptance would have used up the same       *)
(* invitation, since there is no second one.                               *)
LinkingIsUnlinked ==
    \A r \in Requests :
        request[r].pc = "linking" /\ invitation[request[r].invitation].state = "pending"
        => request[r].account \notin LinkedAccounts

LinkInv == AccountTypeOK /\ PointersHold /\ OnePending /\ LinkingIsUnlinked

(* What LinkIsFinal says of a step.                                        *)
LinksKept ==
    \A a \in Accounts :
        Linked(a) => Linked(a)' /\ account'[a].identity = account[a].identity

RowsKept == \A a \in Accounts : Exists(a) => Exists(a)'

(* An idle request is a request.                                           *)
LEMMA NoRequestType == NoRequest \in Request
  BY AccountAssumption DEF NoRequest, Request, Names

(* What the invariant says of the type of a row that exists.               *)
LEMMA RowTypes ==
    ASSUME LinkInv
    PROVE  /\ \A a \in Accounts : Exists(a) => account[a] \in AccountRow
           /\ \A i \in Invitations : invitation[i] # None =>
                 invitation[i] \in InvitationRow /\ invitation[i].account \in Accounts
           /\ \A r \in Requests : request[r] \in Request
  BY DEF LinkInv, AccountTypeOK, Exists, InvitationRow

(* A step that only writes provisioning columns or states of accounts, or  *)
(* adds an account, keeps every link.                                      *)
LEMMA AccountWrite ==
    ASSUME LinkInv, NEW a \in Accounts, NEW row \in AccountRow,
           account' = [account EXCEPT ![a] = row],
           IF Exists(a) THEN row.identity = account[a].identity ELSE row.identity = None,
           UNCHANGED <<invitation, clock>>,
           UNCHANGED request \/ \E r \in Requests : End(r)
    PROVE  LinkInv' /\ LinksKept
<1>1. account'[a] = row /\ \A b \in Accounts : b # a => account'[b] = account[b]
  BY DEF LinkInv, AccountTypeOK
<1>2. row # None
  BY NullAssumption
<1>3. LinksKept /\ RowsKept /\ \A b \in Accounts : Linked(b)' => Linked(b)
  BY <1>1, <1>2 DEF LinksKept, RowsKept, Linked, Exists
<1>4. \A r \in Requests : request'[r] = request[r] \/ request'[r] = NoRequest
  BY DEF LinkInv, AccountTypeOK, End
<1>5. AccountTypeOK'
  BY NoRequestType DEF LinkInv, AccountTypeOK, End
<1>6. PointersHold'
  BY <1>3, <1>4, RowTypes DEF LinkInv, PointersHold, RowsKept, NoRequest
<1>7. OnePending' /\ LinkingIsUnlinked'
  BY <1>3, <1>4, RowTypes
  DEF LinkInv, OnePending, LinkingIsUnlinked, LinkedAccounts, NoRequest, PointersHold
<1> QED
  BY <1>3, <1>5, <1>6, <1>7 DEF LinkInv

(* A step that only moves one request on.                                  *)
LEMMA RequestMove ==
    ASSUME LinkInv, NEW r \in Requests, NEW q \in Request,
           request' = [request EXCEPT ![r] = q],
           q.pc \in {"patching", "inviting"} => q.account \in Accounts /\ Exists(q.account),
           q.pc = "revoking" => q.invitation \in Invitations /\ invitation[q.invitation] # None,
           q.pc \in {"accepting", "linking"} =>
              /\ q.invitation \in Invitations /\ invitation[q.invitation] # None
              /\ invitation[q.invitation].account = q.account /\ q.identity \in Identities,
           q.pc = "linking" => ~Linked(q.account),
           UNCHANGED <<account, invitation, clock>>
    PROVE  LinkInv' /\ LinksKept
<1>1. request'[r] = q /\ \A p \in Requests : p # r => request'[p] = request[p]
  BY DEF LinkInv, AccountTypeOK
<1>2. LinksKept
  BY DEF LinksKept, Linked, Exists
<1>3. AccountTypeOK'
  BY DEF LinkInv, AccountTypeOK
<1>4. PointersHold'
  BY <1>1 DEF LinkInv, PointersHold, Exists
<1>5. OnePending' /\ LinkingIsUnlinked'
  BY <1>1 DEF LinkInv, OnePending, LinkingIsUnlinked, LinkedAccounts, Linked, Exists
<1> QED
  BY <1>2, <1>3, <1>4, <1>5 DEF LinkInv

(* An invitation that was pending gets another state, and is revoked, or   *)
(* expires; new ones appear only for accounts without a pending one.       *)
LEMMA InvitationWrite ==
    ASSUME LinkInv, NEW r \in Requests, End(r),
           invitation' \in [Invitations -> InvitationRow \union {None}],
           \A j \in Invitations : invitation[j] # None =>
              /\ invitation'[j] # None /\ invitation'[j].account = invitation[j].account
              /\ invitation'[j].state = "pending" => invitation[j].state = "pending",
           \A j \in Invitations : invitation[j] = None /\ invitation'[j] # None =>
              Exists(invitation'[j].account),
           OnePending',
           UNCHANGED <<account, clock>>
    PROVE  LinkInv' /\ LinksKept
<1>1. request'[r] = NoRequest /\ \A p \in Requests : p # r => request'[p] = request[p]
  BY DEF LinkInv, AccountTypeOK, End
<1>2. LinksKept
  BY DEF LinksKept, Linked, Exists
<1>3. AccountTypeOK'
  BY NoRequestType DEF LinkInv, AccountTypeOK, End
<1>4. PointersHold'
  BY <1>1 DEF LinkInv, PointersHold, Exists, NoRequest
<1>5. LinkingIsUnlinked'
  BY <1>1
  DEF LinkInv, LinkingIsUnlinked, LinkedAccounts, Linked, Exists, NoRequest, PointersHold
<1> QED
  BY <1>2, <1>3, <1>4, <1>5 DEF LinkInv

(* Inviting again keeps the links: the INSERT expires what is due and adds *)
(* a pending invitation only when none is left.                            *)
LEMMA InsertKeepsLinks ==
    ASSUME LinkInv, NEW r \in Requests, NEW i \in Invitations, InviteInsert(r, i)
    PROVE  LinkInv' /\ LinksKept
<1> DEFINE a == request[r].account
           due == ExpirePendingIfDue(a, request[r].now)
           row == [account |-> a, state |-> "pending",
                   expires |-> request[r].now + InvitationTtl]
<1>1. a \in Accounts /\ Exists(a) /\ row \in InvitationRow
  <2>1. /\ request[r] \in Request
        /\ request[r].now + InvitationTtl \in 0 .. MaxTime + InvitationTtl
    BY RowTypes, AccountAssumption DEF Request
  <2> QED
    BY <2>1 DEF InviteInsert, LinkInv, PointersHold, InvitationRow
<1>2. CASE PendingOf(a) # due
  <2>1. invitation' = invitation /\ End(r) /\ UNCHANGED <<account, clock>>
    BY <1>2 DEF InviteInsert
  <2> QED
    BY <2>1, InvitationWrite, RowTypes DEF LinkInv, AccountTypeOK, OnePending
<1>3. CASE PendingOf(a) = due
  <2>1. /\ invitation' = [j \in Invitations |->
                            IF j = i THEN row
                            ELSE IF j \in due THEN [invitation[j] EXCEPT !.state = "expired"]
                            ELSE invitation[j]]
        /\ End(r) /\ UNCHANGED <<account, clock>> /\ invitation[i] = None
    BY <1>3 DEF InviteInsert
  <2>2. \A j \in due : invitation[j] # None /\ invitation[j] \in InvitationRow
                       /\ j # i
    BY <2>1, RowTypes DEF ExpirePendingIfDue, PendingOf
  <2>3. \A j \in due : /\ invitation'[j] = [invitation[j] EXCEPT !.state = "expired"]
                       /\ invitation'[j] \in InvitationRow
                       /\ invitation'[j].state = "expired"
                       /\ invitation'[j].account = invitation[j].account
    BY <2>1, <2>2 DEF InvitationRow, ExpirePendingIfDue, PendingOf
  <2>4. /\ invitation'[i] = row
        /\ \A j \in Invitations : j # i /\ j \notin due => invitation'[j] = invitation[j]
    BY <2>1
  <2>5. invitation' \in [Invitations -> InvitationRow \union {None}]
    BY <1>1, <2>1, <2>3, <2>4 DEF LinkInv, AccountTypeOK
  <2>6. \A j \in Invitations : invitation[j] # None =>
           /\ invitation'[j] # None /\ invitation'[j].account = invitation[j].account
           /\ invitation'[j].state = "pending" => invitation[j].state = "pending"
    BY <2>1, <2>3, <2>4, NullAssumption
  <2>7. \A j \in Invitations : j # i /\ invitation'[j] # None /\ invitation'[j].state = "pending"
           => invitation[j] # None /\ invitation[j].state = "pending"
              /\ invitation[j] = invitation'[j] /\ invitation[j].account # a
    BY <1>3, <2>3, <2>4 DEF PendingOf
  <2>8. OnePending'
    BY <2>4, <2>7 DEF OnePending, LinkInv
  <2>9. \A j \in Invitations : invitation[j] = None /\ invitation'[j] # None =>
           Exists(invitation'[j].account)
    BY <1>1, <2>2, <2>4
  <2> HIDE DEF a, due, row
  <2> QED
    BY <2>1, <2>5, <2>6, <2>8, <2>9, InvitationWrite
<1> QED
  BY <1>2, <1>3

(* Revoking withdraws a pending invitation and links nobody.               *)
LEMMA RevokeKeepsLinks ==
    ASSUME LinkInv, NEW r \in Requests, RevokeWrite(r) PROVE LinkInv' /\ LinksKept
<1> DEFINE i == request[r].invitation
<1>1. i \in Invitations /\ invitation[i] # None /\ invitation[i] \in InvitationRow
  BY RowTypes DEF RevokeWrite, LinkInv, PointersHold
<1>2. [invitation[i] EXCEPT !.state = "revoked"] \in InvitationRow
  BY <1>1 DEF InvitationRow
<1>3. End(r) /\ UNCHANGED <<account, clock>>
      /\ \/ invitation' = invitation
         \/ invitation' = [invitation EXCEPT ![i] = [invitation[i] EXCEPT !.state = "revoked"]]
  BY DEF RevokeWrite
<1> HIDE DEF i
<1>4. \A j \in Invitations : j # i => invitation'[j] = invitation[j]
  BY <1>1, <1>3 DEF LinkInv, AccountTypeOK
<1>5. \/ invitation'[i] = invitation[i]
      \/ /\ invitation'[i] \in InvitationRow /\ invitation'[i].state = "revoked"
         /\ invitation'[i].account = invitation[i].account
  BY <1>1, <1>2, <1>3 DEF LinkInv, AccountTypeOK, InvitationRow
<1>6. invitation' \in [Invitations -> InvitationRow \union {None}]
  BY <1>1, <1>2, <1>3 DEF LinkInv, AccountTypeOK
<1>7. OnePending'
  BY <1>1, <1>4, <1>5 DEF OnePending, LinkInv
<1> QED
  BY <1>1, <1>3, <1>4, <1>5, <1>6, <1>7, NullAssumption, InvitationWrite

(* The acceptance that goes through: the invitation was pending, so the    *)
(* account was not linked, and no other acceptance can follow.             *)
LEMMA AcceptKeepsLinks ==
    ASSUME LinkInv, NEW r \in Requests, LinkAndAccept(r)
    PROVE  /\ LinkInv' /\ LinksKept
           /\ account' # account \/ invitation' # invitation =>
                LET a == request[r].account
                    i == request[r].invitation
                IN  /\ a \in Accounts /\ i \in Invitations /\ invitation[i] # None
                    /\ invitation[i].account = a
                    /\ invitation[i].state = "pending"
                    /\ a \notin LinkedAccounts /\ a \in LinkedAccounts'
                    /\ \A b \in Accounts : b # a => account'[b] = account[b]
                    /\ \A j \in Invitations : j # i => invitation'[j] = invitation[j]
                    /\ invitation'[i] = [invitation[i] EXCEPT !.state = "accepted"]
<1> DEFINE q == request[r]
           a == q.account
           i == q.invitation
<1>1. /\ q.pc = "linking" /\ i \in Invitations /\ invitation[i] # None
      /\ invitation[i] \in InvitationRow /\ invitation[i].account = a
      /\ a \in Accounts /\ Exists(a) /\ account[a] \in AccountRow /\ q.identity \in Identities
  BY RowTypes DEF LinkAndAccept, LinkInv, PointersHold
<1>2. CASE UNCHANGED <<account, invitation>>
  <2>1. End(r) /\ UNCHANGED clock
    BY DEF LinkAndAccept
  <2>2. invitation' \in [Invitations -> InvitationRow \union {None}] /\ OnePending'
    BY <1>2 DEF LinkInv, AccountTypeOK, OnePending
  <2> QED
    BY <1>2, <2>1, <2>2, InvitationWrite
<1>3. CASE ~UNCHANGED <<account, invitation>>
  <2> DEFINE linked == [account[a] EXCEPT !.identity = q.identity]
             accepted == [invitation[i] EXCEPT !.state = "accepted"]
  <2>1. /\ invitation[i].state = "pending"
        /\ account' = [account EXCEPT ![a] = linked]
        /\ invitation' = [invitation EXCEPT ![i] = accepted]
        /\ request' = [request EXCEPT ![r] = NoRequest]
        /\ UNCHANGED clock
    BY <1>3 DEF LinkAndAccept, End
  <2>2. a \notin LinkedAccounts
    BY <1>1, <2>1 DEF LinkInv, LinkingIsUnlinked, LinkedAccounts
  <2>3. /\ linked \in AccountRow /\ linked.identity # None
        /\ accepted \in InvitationRow /\ accepted.state = "accepted" /\ accepted.account = a
    BY <1>1, AccountAssumption DEF AccountRow, InvitationRow
  <2> HIDE DEF a, i, linked, accepted
  <2>4. /\ account'[a] = linked /\ \A b \in Accounts : b # a => account'[b] = account[b]
        /\ invitation'[i] = accepted
        /\ \A j \in Invitations : j # i => invitation'[j] = invitation[j]
        /\ request'[r] = NoRequest
        /\ \A p \in Requests : p # r => request'[p] = request[p]
    BY <1>1, <2>1 DEF LinkInv, AccountTypeOK
  <2>5. a \in LinkedAccounts' /\ LinksKept /\ RowsKept
    BY <1>1, <2>2, <2>3, <2>4, NullAssumption
    DEF LinksKept, RowsKept, LinkedAccounts, Linked, Exists
  <2>6. AccountTypeOK'
    BY <1>1, <2>1, <2>3, NoRequestType DEF LinkInv, AccountTypeOK
  <2>7. accepted # None
    BY <2>3, NullAssumption
  <2>8. PointersHold'
    BY <1>1, <2>3, <2>4, <2>5, <2>7, RowTypes
    DEF LinkInv, PointersHold, RowsKept, NoRequest
  <2>9. OnePending'
    BY <2>3, <2>4 DEF LinkInv, OnePending
  <2>10. LinkingIsUnlinked'
    <3> SUFFICES ASSUME NEW p \in Requests, request'[p].pc = "linking",
                        invitation'[request'[p].invitation].state = "pending"
                 PROVE  request'[p].account \notin LinkedAccounts'
      BY DEF LinkingIsUnlinked, LinkedAccounts
    <3>1. p # r /\ request'[p] = request[p]
      BY <2>4 DEF NoRequest
    <3>2. /\ request[p].invitation \in Invitations /\ invitation[request[p].invitation] # None
          /\ invitation[request[p].invitation].account = request[p].account
          /\ request[p].account \in Accounts
      BY <3>1, RowTypes DEF LinkInv, PointersHold
    <3>3. request[p].invitation # i /\ invitation[request[p].invitation].state = "pending"
      BY <2>3, <2>4, <3>1, <3>2
    <3>4. request[p].account # a
      BY <1>1, <2>1, <3>2, <3>3 DEF LinkInv, OnePending, i
    <3> QED
      BY <2>4, <3>1, <3>2, <3>3, <3>4
      DEF LinkInv, LinkingIsUnlinked, LinkedAccounts, Linked, Exists
  <2>11. LinkInv' /\ LinksKept
    BY <2>5, <2>6, <2>8, <2>9, <2>10 DEF LinkInv
  <2> QED
    BY <1>1, <2>1, <2>2, <2>4, <2>5, <2>11 DEF a, i, accepted
<1> QED
  BY <1>2, <1>3

(* Every request and every statement of it keeps the pointers, the one     *)
(* pending invitation and the links.                                       *)
LEMMA AccountStep ==
    ASSUME LinkInv, [AccountNext]_accountVars PROVE LinkInv' /\ LinksKept
<1>1. ASSUME NEW a \in Accounts, NEW t \in Tenants, CreateAccount(a, t)
      PROVE  LinkInv' /\ LinksKept
  <2>1. [tenant |-> t, state |-> "active", identity |-> None, name |-> 0] \in AccountRow
    BY DEF AccountRow, Names
  <2> QED
    BY <1>1, <2>1, AccountWrite DEF CreateAccount
<1>2. ASSUME NEW a \in Accounts, NEW s \in {"active", "deactivated"}, SetAccountState(a, s)
      PROVE  LinkInv' /\ LinksKept
  <2> DEFINE row == [account[a] EXCEPT !.state = s]
  <2>1. /\ row \in AccountRow /\ row.identity = account[a].identity
        /\ account' = [account EXCEPT ![a] = row]
        /\ Exists(a) /\ UNCHANGED <<invitation, request, clock>>
    BY <1>2, RowTypes DEF SetAccountState, AccountRow
  <2> HIDE DEF row
  <2> QED
    BY <2>1, AccountWrite
<1>3. ASSUME NEW r \in Requests, PatchWrite(r) PROVE LinkInv' /\ LinksKept
  <2> DEFINE a == request[r].account
             row == [account[a] EXCEPT !.name = request[r].name]
  <2>1. a \in Accounts /\ Exists(a) /\ account[a] \in AccountRow /\ request[r].name \in Names
    BY <1>3, RowTypes DEF PatchWrite, LinkInv, PointersHold, Request
  <2>2. /\ row \in AccountRow /\ row.identity = account[a].identity
        /\ account' = [account EXCEPT ![a] = row]
        /\ End(r) /\ UNCHANGED <<invitation, clock>>
    BY <1>3, <2>1 DEF PatchWrite, AccountRow
  <2> HIDE DEF row, a
  <2> QED
    BY <2>1, <2>2, AccountWrite
<1>4. ASSUME NEW r \in Requests, NEW a \in Accounts, PatchRead(r, a)
      PROVE  LinkInv' /\ LinksKept
  <2>1. PICK n \in {1, account[a].name} :
           Begin(r, [NoRequest EXCEPT !.pc = "patching", !.account = a, !.name = n])
    BY <1>4 DEF PatchRead
  <2> DEFINE q == [NoRequest EXCEPT !.pc = "patching", !.account = a, !.name = n]
  <2>2. n \in Names /\ Exists(a) /\ UNCHANGED <<account, invitation, clock>>
    BY <1>4, RowTypes DEF PatchRead, AccountRow, Names
  <2>3. q \in Request /\ q.pc = "patching" /\ q.account = a
    BY <2>2, NoRequestType DEF Request, NoRequest
  <2>4. request' = [request EXCEPT ![r] = q]
    BY <2>1 DEF Begin
  <2> HIDE DEF q
  <2> QED
    BY <2>2, <2>3, <2>4, RequestMove
<1>5. ASSUME NEW r \in Requests, NEW a \in Accounts, InviteRead(r, a)
      PROVE  LinkInv' /\ LinksKept
  <2> DEFINE q == [NoRequest EXCEPT !.pc = "inviting", !.account = a, !.now = clock]
  <2>1. q \in Request /\ q.pc = "inviting" /\ q.account = a
    BY NoRequestType DEF Request, NoRequest, LinkInv, AccountTypeOK
  <2>2. /\ request' = [request EXCEPT ![r] = q] /\ Exists(a)
        /\ UNCHANGED <<account, invitation, clock>>
    BY <1>5 DEF InviteRead, Begin
  <2> HIDE DEF q
  <2> QED
    BY <2>1, <2>2, RequestMove
<1>6. ASSUME NEW r \in Requests, NEW i \in Invitations, RevokeFind(r, i)
      PROVE  LinkInv' /\ LinksKept
  <2> DEFINE q == [NoRequest EXCEPT !.pc = "revoking", !.invitation = i]
  <2>1. q \in Request /\ q.pc = "revoking" /\ q.invitation = i
    BY NoRequestType DEF Request, NoRequest
  <2>2. /\ request' = [request EXCEPT ![r] = q] /\ invitation[i] # None
        /\ UNCHANGED <<account, invitation, clock>>
    BY <1>6 DEF RevokeFind, Begin
  <2> HIDE DEF q
  <2> QED
    BY <2>1, <2>2, RequestMove
<1>7. ASSUME NEW r \in Requests, NEW i \in Invitations, NEW u \in Identities,
             AcceptFind(r, i, u)
      PROVE  LinkInv' /\ LinksKept
  <2> DEFINE q == [NoRequest EXCEPT !.pc = "accepting", !.account = invitation[i].account,
                                    !.invitation = i, !.identity = u]
  <2>1. /\ request' = [request EXCEPT ![r] = q] /\ invitation[i] # None
        /\ UNCHANGED <<account, invitation, clock>>
    BY <1>7 DEF AcceptFind, Begin
  <2>2. /\ q \in Request /\ q.pc = "accepting" /\ q.invitation = i /\ q.identity = u
        /\ q.account = invitation[i].account
    BY <2>1, RowTypes, NoRequestType DEF Request, NoRequest
  <2> HIDE DEF q
  <2> QED
    BY <2>1, <2>2, RequestMove
<1>8. ASSUME NEW r \in Requests, AcceptGetAccount(r) PROVE LinkInv' /\ LinksKept
  <2>1. request[r] \in Request /\ request[r].pc = "accepting"
        /\ UNCHANGED <<account, invitation, clock>>
    BY <1>8, RowTypes DEF AcceptGetAccount
  <2>2. CASE Linked(request[r].account)
    <3>1. request' = [request EXCEPT ![r] = NoRequest] /\ NoRequest.pc = "idle"
      BY <1>8, <2>2 DEF AcceptGetAccount, End, NoRequest
    <3> QED
      BY <2>1, <3>1, NoRequestType, RequestMove
  <2>3. CASE ~Linked(request[r].account)
    <3> DEFINE q == [request[r] EXCEPT !.pc = "linking"]
    <3>1. request' = [request EXCEPT ![r] = q]
      BY <1>8, <2>3 DEF AcceptGetAccount
    <3>2. /\ q \in Request /\ q.pc = "linking" /\ q.account = request[r].account
          /\ q.invitation = request[r].invitation /\ q.identity = request[r].identity
      BY <2>1 DEF Request
    <3> HIDE DEF q
    <3> QED
      BY <2>1, <2>3, <3>1, <3>2, RequestMove DEF LinkInv, PointersHold
  <2> QED
    BY <2>2, <2>3
<1>9. CASE Tick \/ UNCHANGED accountVars
  <2>1. UNCHANGED <<account, invitation, request>> /\ clock' \in 0 .. MaxTime
    BY <1>9, AccountAssumption DEF Tick, accountVars, LinkInv, AccountTypeOK
  <2> QED
    BY <2>1 DEF LinkInv, AccountTypeOK, PointersHold, OnePending, LinkingIsUnlinked,
                LinkedAccounts, LinksKept, Linked, Exists
<1> QED
  BY <1>1, <1>2, <1>3, <1>4, <1>5, <1>6, <1>7, <1>8, <1>9, InsertKeepsLinks,
     RevokeKeepsLinks, AcceptKeepsLinks
  DEF AccountNext

(* No rows but those of user_accounts: nothing points anywhere yet.        *)
LEMMA LinkInvInitially ==
    ASSUME account \in [Accounts -> AccountRow \union {None}],
           invitation = [i \in Invitations |-> None],
           request = [r \in Requests |-> NoRequest], clock = 0
    PROVE  LinkInv
<1>1. AccountTypeOK
  BY NoRequestType, AccountAssumption DEF AccountTypeOK
<1>2. \A i \in Invitations : invitation[i] = None
  OBVIOUS
<1>3. \A r \in Requests : request[r].pc = "idle"
  BY DEF NoRequest
<1> QED
  BY <1>1, <1>2, <1>3 DEF LinkInv, PointersHold, OnePending, LinkingIsUnlinked

(* Once linked, an account belongs to its identity for good, although      *)
(* link_identity writes over whatever is there: mark_accepted and          *)
(* one_pending_uq see to it, for any number of competing acceptances.      *)
THEOREM LinksAreFinal == AccountSpec => LinkIsFinal
<1>1. AccountInit => LinkInv
  <2>1. AccountInit => account \in [Accounts -> AccountRow \union {None}]
    BY DEF AccountInit
  <2> QED
    BY <2>1, LinkInvInitially DEF AccountInit
<1>2. LinkInv /\ [AccountNext]_accountVars => LinkInv' /\ LinksKept
  BY AccountStep
<1> QED
  BY <1>1, <1>2, PTL DEF AccountSpec, LinkIsFinal, LinksKept

AcceptedOf(a) == {i \in Invitations : invitation[i] # None /\ invitation[i].account = a
                                      /\ invitation[i].state = "accepted"}

(* LinkedByOneInvitation without the count.                                *)
OneAccepted ==
    \A a \in Accounts : IF a \in LinkedAccounts THEN \E i \in Invitations : AcceptedOf(a) = {i}
                                                ELSE AcceptedOf(a) = {}

(* Only LinkAndAccept links an account or makes an invitation accepted.    *)
LEMMA OtherStepsLinkNothing ==
    ASSUME LinkInv, [AccountNext]_accountVars, \A r \in Requests : ~LinkAndAccept(r)
    PROVE  /\ LinkedAccounts' = LinkedAccounts
           /\ \A a \in Accounts : AcceptedOf(a)' = AcceptedOf(a)
<1> USE DEF LinkedAccounts, AcceptedOf, Linked, Exists
<1>1. ASSUME NEW a \in Accounts, NEW t \in Tenants, CreateAccount(a, t)
      PROVE  LinkedAccounts' = LinkedAccounts /\ UNCHANGED invitation
  BY <1>1 DEF CreateAccount, LinkInv, AccountTypeOK
<1>2. ASSUME NEW a \in Accounts, NEW s \in {"active", "deactivated"}, SetAccountState(a, s)
      PROVE  LinkedAccounts' = LinkedAccounts /\ UNCHANGED invitation
  <2>1. account[a] \in AccountRow /\ [account[a] EXCEPT !.state = s] \in AccountRow
    BY <1>2, RowTypes DEF SetAccountState, AccountRow
  <2> QED
    BY <1>2, <2>1, NullAssumption DEF SetAccountState, LinkInv, AccountTypeOK, AccountRow
<1>3. ASSUME NEW r \in Requests, PatchWrite(r)
      PROVE  LinkedAccounts' = LinkedAccounts /\ UNCHANGED invitation
  <2> DEFINE a == request[r].account
             row == [account[a] EXCEPT !.name = request[r].name]
  <2>1. a \in Accounts /\ account[a] \in AccountRow /\ request[r].name \in Names
    BY <1>3, RowTypes DEF PatchWrite, LinkInv, PointersHold, Request
  <2>2. /\ row \in AccountRow /\ row.identity = account[a].identity
        /\ account' = [account EXCEPT ![a] = row] /\ UNCHANGED invitation
    BY <1>3, <2>1 DEF PatchWrite, AccountRow
  <2> HIDE DEF row, a
  <2> QED
    BY <2>1, <2>2, NullAssumption DEF LinkInv, AccountTypeOK
<1>4. ASSUME NEW r \in Requests, NEW i \in Invitations, InviteInsert(r, i)
      PROVE  UNCHANGED account /\ \A a \in Accounts : AcceptedOf(a)' = AcceptedOf(a)
  <2> DEFINE due == ExpirePendingIfDue(request[r].account, request[r].now)
  <2>1. \A j \in due : invitation[j] \in InvitationRow /\ invitation[j].state = "pending"
    BY RowTypes DEF ExpirePendingIfDue, PendingOf
  <2>2. \A j \in Invitations :
           \/ invitation'[j] = invitation[j]
           \/ j = i /\ invitation[j] = None /\ invitation'[j].state = "pending"
           \/ /\ j \in due /\ invitation'[j].state = "expired"
    BY <1>4, <2>1 DEF InviteInsert, InvitationRow
  <2> HIDE DEF due
  <2> QED
    <3>1. \A j \in Invitations :
             \/ invitation'[j] = invitation[j]
             \/ ~(invitation[j] # None /\ invitation[j].state = "accepted")
                /\ ~(invitation'[j] # None /\ invitation'[j].state = "accepted")
      BY <2>1, <2>2
    <3>2. UNCHANGED account
      BY <1>4 DEF InviteInsert
    <3> QED
      BY <3>1, <3>2
<1>5. ASSUME NEW r \in Requests, RevokeWrite(r)
      PROVE  UNCHANGED account /\ \A a \in Accounts : AcceptedOf(a)' = AcceptedOf(a)
  <2> DEFINE i == request[r].invitation
  <2>1. i \in Invitations /\ invitation[i] \in InvitationRow
    BY <1>5, RowTypes DEF RevokeWrite, LinkInv, PointersHold
  <2>2. \A j \in Invitations :
           \/ invitation'[j] = invitation[j]
           \/ j = i /\ invitation[j].state = "pending" /\ invitation'[j].state = "revoked"
    BY <1>5, <2>1 DEF RevokeWrite, InvitationRow, LinkInv, AccountTypeOK
  <2> QED
    BY <1>5, <2>2 DEF RevokeWrite
<1> QED
  BY <1>1, <1>2, <1>3, <1>4, <1>5
  DEF AccountNext, PatchRead, InviteRead, AcceptGetAccount, RevokeFind, AcceptFind, Tick,
      accountVars

(* An account is linked by exactly one accepted invitation, or has none:   *)
(* invitations that were revoked, expired or lost the race link nobody.    *)
THEOREM LinkedOnce == AccountSpec => []LinkedByOneInvitation
<1>1. AccountInit => LinkInv /\ OneAccepted
  <2> SUFFICES ASSUME AccountInit PROVE LinkInv /\ OneAccepted
    OBVIOUS
  <2>1. LinkInv
    BY LinkInvInitially DEF AccountInit
  <2>2. LinkedAccounts = {} /\ \A a \in Accounts : AcceptedOf(a) = {}
    BY DEF AccountInit, LinkedAccounts, Linked, Exists, AcceptedOf
  <2> QED
    BY <2>1, <2>2 DEF OneAccepted
<1>2. LinkInv /\ OneAccepted /\ [AccountNext]_accountVars => LinkInv' /\ OneAccepted'
  <2> SUFFICES ASSUME LinkInv, OneAccepted, [AccountNext]_accountVars
               PROVE  LinkInv' /\ OneAccepted'
    OBVIOUS
  <2>1. CASE \A r \in Requests : ~LinkAndAccept(r)
    BY <2>1, OtherStepsLinkNothing, AccountStep DEF OneAccepted
  <2>2. ASSUME NEW r \in Requests, LinkAndAccept(r) PROVE OneAccepted'
    <3>1. CASE UNCHANGED <<account, invitation>>
      BY <3>1 DEF OneAccepted, LinkedAccounts, Linked, Exists, AcceptedOf
    <3>2. CASE ~UNCHANGED <<account, invitation>>
      <4> DEFINE a == request[r].account
                 i == request[r].invitation
      <4>1. /\ a \in Accounts /\ i \in Invitations /\ invitation[i] # None
            /\ invitation[i].account = a
            /\ a \notin LinkedAccounts /\ a \in LinkedAccounts'
            /\ \A b \in Accounts : b # a => account'[b] = account[b]
            /\ \A j \in Invitations : j # i => invitation'[j] = invitation[j]
            /\ invitation'[i] = [invitation[i] EXCEPT !.state = "accepted"]
        BY <2>2, <3>2, AcceptKeepsLinks
      <4>2. /\ invitation'[i] # None /\ invitation'[i].account = a
            /\ invitation'[i].state = "accepted"
        BY <4>1, RowTypes, NullAssumption DEF InvitationRow
      <4> HIDE DEF a, i
      <4>3. AcceptedOf(a) = {}
        BY <4>1 DEF OneAccepted
      <4>4. \A j \in Invitations :
               invitation'[j] # None /\ invitation'[j].state = "accepted" =>
                  \/ j = i
                  \/ invitation[j] = invitation'[j] /\ j # i /\ invitation[j].account # a
        BY <4>1, <4>3 DEF AcceptedOf
      <4>5. \A b \in Accounts : b # a => (b \in LinkedAccounts' <=> b \in LinkedAccounts)
        BY <4>1 DEF LinkedAccounts, Linked, Exists
      <4>6. ASSUME NEW b \in Accounts, b = a PROVE AcceptedOf(b)' = {i}
        <5>1. \A j \in AcceptedOf(b)' : j = i
          BY <4>4, <4>6 DEF AcceptedOf
        <5>2. i \in AcceptedOf(b)'
          BY <4>1, <4>2, <4>6 DEF AcceptedOf
        <5> QED
          BY <5>1, <5>2
      <4>7. ASSUME NEW b \in Accounts, b # a PROVE AcceptedOf(b)' = AcceptedOf(b)
        BY <4>1, <4>2, <4>4, <4>7 DEF AcceptedOf
      <4> QED
        BY <4>1, <4>5, <4>6, <4>7 DEF OneAccepted
    <3> QED
      BY <3>1, <3>2
  <2> QED
    BY <2>1, <2>2, AccountStep
<1>3. OneAccepted => LinkedByOneInvitation
  BY FS_EmptySet, FS_Singleton
  DEF OneAccepted, LinkedByOneInvitation, LinkedAccounts, AcceptedOf
<1> QED
  BY <1>1, <1>2, <1>3, PTL DEF AccountSpec

-----------------------------------------------------------------------------
(***************************************************************************)
(* Sessions.                                                               *)
(***************************************************************************)

Handshake == {"verified", "resolved"}
WithCopy  == {"authorising", "sent", "served", "responding"}

(* What SessionCoherent asks of one record.                                *)
Coherent(d) ==
    /\ d.tokensOf = d.identity
    /\ d.selected \in d.accounts
    /\ \A a \in d.accounts : Linked(a) /\ account[a].identity = d.identity

(* A request under way: what it has read by then, and that its copy of the *)
(* record is as coherent as the record was.                                *)
WebRowOK(q) ==
    /\ q.pc \in WithCopy \union {"resolved"} => q.data # None
    /\ q.pc \in WithCopy => q.sid # 0
    /\ q.changed => q.pc \in WithCopy
    /\ q.pc = "verified" => q.identity # None
    /\ q.pc \in Handshake => q.login # None
    /\ q.sid <= used
    /\ q.data # None => Coherent(q.data)

CopiesOK == \A w \in WebRequests : WebRowOK(web[w])

(* A login is used up by the request that has taken it.                    *)
LoginsOnce ==
    /\ \A l \in Logins : pending[l] # "gone" => done[l] = 0
    /\ \A w \in WebRequests : web[w].pc \in Handshake =>
          pending[web[w].login] = "gone" /\ done[web[w].login] = 0
    /\ \A v, w \in WebRequests :
          web[v].pc \in Handshake /\ web[w].pc \in Handshake /\ web[v].login = web[w].login
          => v = w

WebInv == WebTypeOK /\ CopiesOK /\ SessionCoherent /\ LoginsOnce /\ OneSessionPerLogin

(* An idle web request is well formed and holds no copy.                   *)
LEMMA NoWebOK == NoWeb \in WebRequest /\ (used \in Nat => WebRowOK(NoWeb))
  BY WebAssumption DEF NoWeb, WebRequest, WebRowOK, WithCopy, Handshake

(* The accounts change under the sessions: links are final.                *)
LEMMA AccountsMove ==
    ASSUME WebInv, LinksKept, UNCHANGED webVars PROVE WebInv'
<1>1. /\ UNCHANGED <<pending, store, used, cookie, web, done>>
      /\ WebTypeOK' /\ LoginsOnce' /\ OneSessionPerLogin'
  BY DEF webVars, WebInv, WebTypeOK, LoginsOnce, OneSessionPerLogin
<1>2. SessionCoherent'
  <2> SUFFICES ASSUME NEW x \in Sids, store[x] # None PROVE Coherent(store[x])'
    BY <1>1 DEF SessionCoherent, Coherent
  <2>1. store[x] \in Session /\ Coherent(store[x])
    BY DEF WebInv, WebTypeOK, SessionCoherent, Coherent
  <2> QED
    BY <1>1, <2>1 DEF LinksKept, Coherent, Session
<1>3. CopiesOK'
  <2> SUFFICES ASSUME NEW w \in WebRequests PROVE WebRowOK(web[w])'
    BY DEF CopiesOK
  <2>1. WebRowOK(web[w]) /\ web[w] \in WebRequest
    BY DEF WebInv, CopiesOK, WebTypeOK
  <2>2. web[w].data # None => web[w].data \in Session /\ Coherent(web[w].data)
    BY <2>1 DEF WebRowOK, WebRequest
  <2>3. web[w].data # None => Coherent(web[w].data)'
    BY <1>1, <2>2 DEF LinksKept, Coherent, Session
  <2> QED
    BY <1>1, <2>1, <2>3 DEF WebRowOK
<1> QED
  BY <1>1, <1>2, <1>3 DEF WebInv

(* One request moves on, and a record may be replaced by a coherent one or *)
(* deleted.                                                                *)
LEMMA WebMove ==
    ASSUME WebInv, NEW w \in WebRequests, NEW row \in WebRequest, WebRowOK(row),
           web' = [web EXCEPT ![w] = row], used' \in 0 .. MaxSessions, used <= used',
           store' \in [Sids -> Session \union {None}],
           \A x \in Sids : store'[x] = store[x] \/ (store'[x] # None => Coherent(store'[x])),
           UNCHANGED accountVars
    PROVE  SessionCoherent' /\ CopiesOK' /\ web' \in [WebRequests -> WebRequest]
<1>1. web'[w] = row /\ \A v \in WebRequests : v # w => web'[v] = web[v]
  BY DEF WebInv, WebTypeOK
<1>2. \A d : Coherent(d) => d.tokensOf = d.identity /\ d.selected \in d.accounts
                 /\ \A a \in d.accounts : Linked(a)' /\ account'[a].identity = d.identity
  BY DEF Coherent, accountVars, Linked, Exists
<1>3. SessionCoherent'
  <2> SUFFICES ASSUME NEW x \in Sids, store'[x] # None PROVE Coherent(store'[x])
    BY <1>2 DEF SessionCoherent
  <2> QED
    BY DEF WebInv, SessionCoherent, Coherent
<1>4. \A v \in WebRequests : WebRowOK(web'[v]) /\ web'[v].sid \in Nat
  BY <1>1 DEF WebInv, CopiesOK, WebTypeOK, WebRequest
<1>5. CopiesOK'
  BY <1>2, <1>4 DEF CopiesOK, WebRowOK, Coherent, WebInv, WebTypeOK
<1> QED
  BY <1>3, <1>5 DEF WebInv, WebTypeOK

(* A request that has nothing to do with a login leaves the logins alone.  *)
LEMMA LoginsMove ==
    ASSUME WebInv, NEW w \in WebRequests, NEW row \in WebRequest,
           row.pc \in Handshake => web[w].pc \in Handshake /\ row.login = web[w].login,
           web' = [web EXCEPT ![w] = row], UNCHANGED <<pending, done>>
    PROVE  LoginsOnce' /\ OneSessionPerLogin'
<1>1. web'[w] = row /\ \A v \in WebRequests : v # w => web'[v] = web[v]
  BY DEF WebInv, WebTypeOK
<1> QED
  BY <1>1 DEF WebInv, LoginsOnce, OneSessionPerLogin

(* callback, its first part: the login is taken.                           *)
LEMMA CallbackPreserves ==
    ASSUME WebInv, NEW w \in WebRequests, NEW l \in Logins, NEW u \in Identities,
           Callback(w, l, u)
    PROVE  WebInv'
<1> DEFINE row == [NoWeb EXCEPT !.pc = "verified", !.sid = cookie, !.login = l, !.identity = u]
<1>1. /\ pending[l] = "waiting" /\ pending' = [pending EXCEPT ![l] = "gone"]
      /\ web' = [web EXCEPT ![w] = row]
      /\ UNCHANGED <<accountVars, store, used, cookie, done>>
  BY DEF Callback, Take
<1>2. row \in WebRequest /\ WebRowOK(row) /\ row.pc = "verified" /\ row.login = l
  <2>1. cookie \in 0 .. MaxSessions /\ cookie <= used
    BY WebAssumption DEF WebInv, WebTypeOK
  <2> QED
    BY <2>1, AccountAssumption, WebAssumption
    DEF NoWeb, WebRequest, WebRowOK, WithCopy, Handshake
<1> HIDE DEF row
<1>3. used' \in 0 .. MaxSessions /\ used <= used' /\ store' \in [Sids -> Session \union {None}]
  BY <1>1 DEF WebInv, WebTypeOK
<1>4. SessionCoherent' /\ CopiesOK' /\ web' \in [WebRequests -> WebRequest]
  BY <1>1, <1>2, <1>3, WebMove
<1>5. WebTypeOK'
  BY <1>1, <1>4 DEF WebInv, WebTypeOK
<1>6. web'[w] = row /\ \A v \in WebRequests : v # w => web'[v] = web[v]
  BY <1>1 DEF WebInv, WebTypeOK
<1>7. \A v \in WebRequests : v # w /\ web[v].pc \in Handshake => web[v].login # l
  BY <1>1 DEF WebInv, LoginsOnce
<1>8. \A m \in Logins : pending'[m] = IF m = l THEN "gone" ELSE pending[m]
  BY <1>1 DEF WebInv, WebTypeOK
<1>9. \A v \in WebRequests : web[v].pc \in Handshake => web[v].login \in Logins
  BY DEF WebInv, CopiesOK, WebRowOK, WebTypeOK, WebRequest
<1>10. LoginsOnce' /\ OneSessionPerLogin'
  BY <1>1, <1>2, <1>6, <1>7, <1>8, <1>9 DEF WebInv, LoginsOnce, OneSessionPerLogin
<1> QED
  BY <1>4, <1>5, <1>10 DEF WebInv

(* resolve_linked_accounts: the record is made of accounts linked to the   *)
(* identity of the token.                                                  *)
LEMMA ResolvePreserves ==
    ASSUME WebInv, AccountTypeOK, NEW w \in WebRequests, CallbackResolve(w)
    PROVE  WebInv'
<1> DEFINE u == web[w].identity
<1>1. /\ web[w] \in WebRequest /\ web[w].pc = "verified" /\ WebRowOK(web[w])
      /\ UNCHANGED <<accountVars, pending, store, used, cookie, done>>
      /\ used \in 0 .. MaxSessions
  BY DEF CallbackResolve, WebInv, WebTypeOK, CopiesOK
<1>2. PICK row \in WebRequest :
         /\ web' = [web EXCEPT ![w] = row] /\ WebRowOK(row)
         /\ row.pc = "idle" \/ (row.pc = "resolved" /\ row.login = web[w].login)
  <2>1. CASE web' = [web EXCEPT ![w] = NoWeb]
    <3>1. NoWeb.pc = "idle" /\ used \in Nat
      BY <1>1 DEF NoWeb
    <3> QED
      BY <2>1, <3>1, NoWebOK
  <2>2. CASE web' # [web EXCEPT ![w] = NoWeb]
    <3>1. PICK a \in ActiveAccounts(u) :
             web' = [web EXCEPT ![w].pc = "resolved",
                        ![w].data = [identity |-> u, tokensOf |-> u, fresh |-> TRUE,
                                     accounts |-> ActiveAccounts(u), selected |-> a]]
      BY <2>2 DEF CallbackResolve, Ends
    <3> DEFINE d == [identity |-> u, tokensOf |-> u, fresh |-> TRUE,
                     accounts |-> ActiveAccounts(u), selected |-> a]
               row == [web[w] EXCEPT !.pc = "resolved", !.data = d]
    <3>2. u \in Identities /\ u # None
      BY <1>1, AccountAssumption DEF WebRowOK, WebRequest
    <3>3. /\ ActiveAccounts(u) \subseteq Accounts
          /\ \A b \in ActiveAccounts(u) : Linked(b) /\ account[b].identity = u
      BY <3>2 DEF ActiveAccounts, ResolveLinkedAccounts, Linked, Exists
    <3>4. d \in Session /\ Coherent(d) /\ d # None
      <4>1. a \in Accounts /\ ActiveAccounts(u) \in SUBSET Accounts
        BY <3>3
      <4>2. d \in Session
        BY <3>2, <4>1 DEF Session
      <4>3. /\ d.tokensOf = u /\ d.identity = u /\ d.selected = a
            /\ d.accounts = ActiveAccounts(u)
        OBVIOUS
      <4> HIDE DEF d, u
      <4> QED
        BY <3>3, <4>2, <4>3, NoSessionAssumption DEF Coherent
    <3>5. web' = [web EXCEPT ![w] = row]
      BY <3>1
    <3> HIDE DEF d
    <3>6. row \in WebRequest /\ row.pc = "resolved" /\ row.login = web[w].login
          /\ row.sid = web[w].sid /\ row.data = d /\ row.changed = web[w].changed
      BY <1>1, <3>4 DEF WebRequest
    <3>7. WebRowOK(row)
      BY <1>1, <3>4, <3>6 DEF WebRowOK, WithCopy, Handshake
    <3> QED
      BY <3>5, <3>6, <3>7
  <2> QED
    BY <2>1, <2>2
<1>3. used' \in 0 .. MaxSessions /\ used <= used' /\ store' \in [Sids -> Session \union {None}]
  BY <1>1 DEF WebInv, WebTypeOK
<1>4. SessionCoherent' /\ CopiesOK' /\ web' \in [WebRequests -> WebRequest]
  BY <1>1, <1>2, <1>3, WebMove
<1>5. LoginsOnce' /\ OneSessionPerLogin'
  BY <1>1, <1>2, LoginsMove DEF Handshake
<1>6. WebTypeOK'
  BY <1>1, <1>4 DEF WebInv, WebTypeOK
<1> QED
  BY <1>4, <1>5, <1>6 DEF WebInv

(* The login ends in its session.                                          *)
LEMMA SavePreserves ==
    ASSUME WebInv, NEW w \in WebRequests, CallbackSave(w) PROVE WebInv'
<1> DEFINE q == web[w]
           alive == q.sid # 0 /\ store[q.sid] # None
           x == IF alive THEN q.sid ELSE used + 1
<1>1. /\ q.pc = "resolved" /\ x \in Sids
      /\ store' = [store EXCEPT ![x] = q.data]
      /\ used' = IF alive THEN used ELSE x
      /\ cookie' = x /\ done' = [done EXCEPT ![q.login] = done[q.login] + 1]
      /\ web' = [web EXCEPT ![w] = NoWeb]
      /\ UNCHANGED <<accountVars, pending>>
  BY DEF CallbackSave, Ends
<1>2. /\ q \in WebRequest /\ WebRowOK(q) /\ q.login \in Logins /\ done[q.login] = 0
      /\ q.data \in Session /\ Coherent(q.data) /\ pending[q.login] = "gone"
      /\ used \in Nat /\ q.sid \in Nat /\ q.sid <= used
  <2>1. q \in WebRequest /\ WebRowOK(q) /\ used \in Nat
    BY DEF WebInv, WebTypeOK, CopiesOK
  <2> QED
    BY <1>1, <2>1 DEF WebRowOK, WebRequest, WebInv, LoginsOnce, Handshake, WithCopy
<1>3. /\ used' \in 0 .. MaxSessions /\ used <= used' /\ cookie' \in 0 .. used'
      /\ store' \in [Sids -> Session \union {None}]
  BY <1>1, <1>2, WebAssumption DEF WebInv, WebTypeOK, Sids
<1> HIDE DEF q, x, alive
<1>4. \A y \in Sids : store'[y] = store[y] \/ (store'[y] # None => Coherent(store'[y]))
  BY <1>1, <1>2 DEF WebInv, WebTypeOK
<1>5. SessionCoherent' /\ CopiesOK' /\ web' \in [WebRequests -> WebRequest]
  BY <1>1, <1>2, <1>3, <1>4, NoWebOK, WebMove
<1>6. \A m \in Logins : done'[m] = IF m = q.login THEN 1 ELSE done[m]
  BY <1>1, <1>2 DEF WebInv, WebTypeOK
<1>7. WebTypeOK'
  BY <1>1, <1>2, <1>3, <1>5, <1>6 DEF WebInv, WebTypeOK
<1>8. web'[w] = NoWeb /\ \A v \in WebRequests : v # w => web'[v] = web[v]
  BY <1>1 DEF WebInv, WebTypeOK
<1>9. \A v \in WebRequests : v # w /\ web[v].pc \in Handshake =>
         web[v].login # q.login /\ web[v].login \in Logins
  BY <1>1 DEF WebInv, LoginsOnce, Handshake, CopiesOK, WebRowOK, WebTypeOK, WebRequest, q
<1>10. LoginsOnce' /\ OneSessionPerLogin'
  BY <1>1, <1>2, <1>6, <1>8, <1>9
  DEF WebInv, LoginsOnce, OneSessionPerLogin, NoWeb, Handshake
<1> QED
  BY <1>5, <1>7, <1>10 DEF WebInv

(* A request outside the login handshake that takes, changes or drops its  *)
(* copy of a record, and at its end may write it back.                     *)
LEMMA CopyStepPreserves ==
    ASSUME WebInv, NEW w \in WebRequests, NEW row \in WebRequest, WebRowOK(row),
           row.pc \notin Handshake, web' = [web EXCEPT ![w] = row],
           \/ UNCHANGED store
           \/ \E x \in Sids, d \in Session : Coherent(d) /\ store' = [store EXCEPT ![x] = d],
           UNCHANGED <<accountVars, pending, used, cookie, done>>
    PROVE  WebInv'
<1>1. /\ used' \in 0 .. MaxSessions /\ used <= used'
      /\ store' \in [Sids -> Session \union {None}]
      /\ \A x \in Sids : store'[x] = store[x] \/ (store'[x] # None => Coherent(store'[x]))
  BY DEF WebInv, WebTypeOK
<1>2. SessionCoherent' /\ CopiesOK' /\ web' \in [WebRequests -> WebRequest]
  BY <1>1, WebMove
<1>3. LoginsOnce' /\ OneSessionPerLogin'
  BY LoginsMove
<1>4. WebTypeOK'
  BY <1>1, <1>2 DEF WebInv, WebTypeOK
<1> QED
  BY <1>2, <1>3, <1>4 DEF WebInv

(* Copies of a live record.                                                *)
LEMMA CopyIsOK ==
    ASSUME WebInv, cookie # 0, store[cookie] # None
    PROVE  /\ cookie \in Sids /\ cookie <= used
           /\ store[cookie] \in Session /\ Coherent(store[cookie])
<1>1. cookie \in Sids /\ cookie <= used
  BY WebAssumption DEF WebInv, WebTypeOK, Sids
<1> QED
  BY <1>1 DEF WebInv, WebTypeOK, SessionCoherent, Coherent

(* The BFF's own steps keep its invariant and leave the accounts alone.    *)
LEMMA WebStep ==
    ASSUME WebInv, AccountTypeOK, WebNext PROVE WebInv' /\ UNCHANGED accountVars
<1>1. ASSUME NEW l \in Logins, BeginLogin(l) \/ Sweep(l) \/ CallbackRefused(l) PROVE WebInv'
  <2>1. /\ UNCHANGED <<accountVars, store, used, cookie, web, done>>
        /\ pending' \in [Logins -> {"unused", "waiting", "gone"}]
        /\ \A m \in Logins : pending[m] = "gone" => pending'[m] = "gone"
        /\ \A m \in Logins : pending'[m] # "gone" => pending[m] # "gone"
    BY <1>1 DEF BeginLogin, Sweep, CallbackRefused, Take, WebInv, WebTypeOK
  <2>2. \A v \in WebRequests : web[v].pc \in Handshake => web[v].login \in Logins
    BY DEF WebInv, CopiesOK, WebRowOK, WebTypeOK, WebRequest
  <2> QED
    BY <2>1, <2>2
    DEF WebInv, WebTypeOK, CopiesOK, WebRowOK, Coherent, SessionCoherent, LoginsOnce,
        OneSessionPerLogin, accountVars, Linked, Exists
<1>2. ASSUME NEW w \in WebRequests, GuardedCall(w) PROVE WebInv'
  <2> DEFINE row == [NoWeb EXCEPT !.pc = "authorising", !.sid = cookie, !.data = store[cookie]]
  <2>1. /\ web' = [web EXCEPT ![w] = row] /\ cookie # 0 /\ store[cookie] # None
        /\ UNCHANGED <<accountVars, pending, store, used, cookie, done>>
    BY <1>2 DEF GuardedCall
  <2>2. /\ row.pc = "authorising" /\ row.sid = cookie /\ row.data = store[cookie]
        /\ row.changed = FALSE /\ row \in WebRequest
    <3>1. cookie \in 0 .. MaxSessions /\ store[cookie] \in Session \union {None}
      BY <2>1, CopyIsOK, WebAssumption DEF Sids
    <3> QED
      BY <3>1 DEF NoWeb, WebRequest
  <2> HIDE DEF row
  <2>3. WebRowOK(row) /\ row.pc \notin Handshake
    BY <2>1, <2>2, CopyIsOK DEF WebRowOK, WithCopy, Handshake
  <2> QED
    BY <2>1, <2>2, <2>3, CopyStepPreserves
<1>3. ASSUME NEW w \in WebRequests, NEW a \in Accounts, SelectAccount(w, a) PROVE WebInv'
  <2> DEFINE d == [store[cookie] EXCEPT !.selected = a]
             row == [NoWeb EXCEPT !.pc = "responding", !.sid = cookie, !.data = d,
                                  !.changed = TRUE]
  <2>1. /\ web' = [web EXCEPT ![w] = row] /\ cookie # 0 /\ store[cookie] # None
        /\ a \in store[cookie].accounts
        /\ UNCHANGED <<accountVars, pending, store, used, cookie, done>>
    BY <1>3 DEF SelectAccount, Selectable
  <2>2. d \in Session /\ Coherent(d) /\ d # None
    BY <2>1, CopyIsOK, NoSessionAssumption DEF Session, Coherent
  <2> HIDE DEF d
  <2>3. /\ row.pc = "responding" /\ row.sid = cookie /\ row.data = d /\ row \in WebRequest
    <3>1. cookie \in 0 .. MaxSessions
      BY <2>1, CopyIsOK, WebAssumption DEF Sids
    <3> QED
      BY <2>2, <3>1 DEF NoWeb, WebRequest
  <2> HIDE DEF row
  <2>4. WebRowOK(row) /\ row.pc \notin Handshake
    BY <2>1, <2>2, <2>3, CopyIsOK DEF WebRowOK, WithCopy, Handshake
  <2> QED
    BY <2>1, <2>3, <2>4, CopyStepPreserves
<1>4. ASSUME NEW w \in WebRequests, RefreshUserToken(w) PROVE WebInv'
  <2> DEFINE d == [web[w].data EXCEPT !.fresh = TRUE]
             row == [web[w] EXCEPT !.data = d, !.changed = TRUE]
  <2>1. /\ web[w] \in WebRequest /\ WebRowOK(web[w]) /\ web[w].pc = "authorising"
        /\ web[w].data \in Session /\ Coherent(web[w].data)
    BY <1>4
    DEF RefreshUserToken, WebInv, WebTypeOK, CopiesOK, WebRequest, WebRowOK, WithCopy
  <2>2. /\ web' = [web EXCEPT ![w] = row]
        /\ UNCHANGED <<accountVars, pending, store, used, cookie, done>>
    BY <1>4, <2>1 DEF RefreshUserToken, WebInv, WebTypeOK
  <2>3. d \in Session /\ Coherent(d) /\ d # None
    BY <2>1, NoSessionAssumption DEF Session, Coherent
  <2> HIDE DEF d
  <2>4. /\ row.pc = "authorising" /\ row.sid = web[w].sid /\ row.data = d
        /\ row \in WebRequest
    BY <2>1, <2>3 DEF WebRequest
  <2> HIDE DEF row
  <2>5. WebRowOK(row) /\ row.pc \notin Handshake
    BY <2>1, <2>3, <2>4 DEF WebRowOK, WithCopy, Handshake
  <2> QED
    BY <2>2, <2>4, <2>5, CopyStepPreserves
<1>5. ASSUME NEW w \in WebRequests, ActAsUser(w) \/ Admit(w) PROVE WebInv'
  <2>1. PICK pc \in {"sent", "served", "responding"} :
           /\ web' = [web EXCEPT ![w].pc = pc] /\ web[w].pc \in {"authorising", "sent"}
           /\ UNCHANGED <<accountVars, pending, store, used, cookie, done>>
    BY <1>5 DEF ActAsUser, Admit, Goes
  <2> DEFINE row == [web[w] EXCEPT !.pc = pc]
  <2>2. /\ web[w] \in WebRequest /\ WebRowOK(web[w])
    BY DEF WebInv, WebTypeOK, CopiesOK
  <2>3. /\ row.pc = pc /\ row.sid = web[w].sid /\ row.data = web[w].data
        /\ row.changed = web[w].changed /\ row \in WebRequest
    BY <2>2 DEF WebRequest
  <2>4. web' = [web EXCEPT ![w] = row]
    BY <2>1
  <2> HIDE DEF row
  <2>5. WebRowOK(row) /\ row.pc \notin Handshake
    BY <2>1, <2>2, <2>3 DEF WebRowOK, WithCopy, Handshake
  <2> QED
    BY <2>1, <2>3, <2>4, <2>5, CopyStepPreserves
<1>6. ASSUME NEW w \in WebRequests, Respond(w) \/ WebFails(w) PROVE WebInv'
  <2>1. /\ web[w] \in WebRequest /\ WebRowOK(web[w]) /\ used \in Nat
        /\ web' = [web EXCEPT ![w] = NoWeb]
        /\ UNCHANGED <<accountVars, pending, used, cookie, done>>
    BY <1>6 DEF Respond, WebFails, Ends, WebInv, WebTypeOK, CopiesOK
  <2>2. \/ UNCHANGED store
        \/ /\ web[w].changed /\ store' = [store EXCEPT ![web[w].sid] = web[w].data]
    BY <1>6 DEF Respond, WebFails, Saved
  <2>3. web[w].changed => /\ web[w].sid \in Sids /\ web[w].data \in Session
                          /\ Coherent(web[w].data)
    BY <2>1, WebAssumption DEF WebRowOK, WebRequest, WithCopy, Sids
  <2>4. NoWeb.pc \notin Handshake
    BY DEF NoWeb, Handshake
  <2> QED
    BY <2>1, <2>2, <2>3, <2>4, NoWebOK, CopyStepPreserves
<1>7. ASSUME Logout \/ \E x \in Sids : SessionEnds(x) PROVE WebInv'
  <2>1. /\ UNCHANGED <<accountVars, pending, used, cookie, web, done>>
        /\ store' \in [Sids -> Session \union {None}]
        /\ \A y \in Sids : store'[y] # None => store'[y] = store[y]
    BY <1>7 DEF Logout, SessionEnds, WebInv, WebTypeOK
  <2> QED
    BY <2>1
    DEF WebInv, WebTypeOK, CopiesOK, WebRowOK, Coherent, SessionCoherent, LoginsOnce,
                OneSessionPerLogin, accountVars, Linked, Exists
<1>8. ASSUME TokensExpire PROVE WebInv'
  <2> DEFINE Old(d) == IF d = None THEN None ELSE [d EXCEPT !.fresh = FALSE]
  <2>1. /\ store' = [x \in Sids |-> Old(store[x])]
        /\ web' = [w \in WebRequests |-> [web[w] EXCEPT !.data = Old(web[w].data)]]
        /\ UNCHANGED <<accountVars, pending, used, cookie, done>>
    BY <1>8 DEF TokensExpire
  <2>2. ASSUME NEW d \in Session \union {None}
        PROVE  /\ Old(d) \in Session \union {None} /\ (Old(d) # None <=> d # None)
               /\ d # None => /\ Old(d).tokensOf = d.tokensOf /\ Old(d).identity = d.identity
                              /\ Old(d).accounts = d.accounts /\ Old(d).selected = d.selected
    BY NoSessionAssumption DEF Session
  <2>3. \A x \in Sids : store[x] \in Session \union {None} /\ store'[x] = Old(store[x])
    BY <2>1 DEF WebInv, WebTypeOK
  <2> HIDE DEF Old
  <2>4. \A w \in WebRequests :
           /\ web'[w].pc = web[w].pc /\ web'[w].sid = web[w].sid
           /\ web'[w].changed = web[w].changed /\ web'[w].login = web[w].login
           /\ web'[w].identity = web[w].identity
           /\ web'[w].data = Old(web[w].data) /\ web[w].data \in Session \union {None}
           /\ web'[w] \in WebRequest
    BY <2>1, <2>2 DEF WebInv, WebTypeOK, WebRequest
  <2>5. WebTypeOK'
    BY <2>1, <2>2, <2>3, <2>4 DEF WebInv, WebTypeOK
  <2>6. SessionCoherent'
    BY <2>1, <2>2, <2>3 DEF WebInv, SessionCoherent, accountVars, Linked, Exists
  <2>7. CopiesOK'
    <3> SUFFICES ASSUME NEW w \in WebRequests PROVE WebRowOK(web[w])'
      BY DEF CopiesOK
    <3>1. WebRowOK(web[w])
      BY DEF WebInv, CopiesOK
    <3>2. web'[w].data # None => Coherent(web[w].data)'
      BY <2>1, <2>2, <2>4, <3>1 DEF WebRowOK, Coherent, accountVars, Linked, Exists
    <3>3. web'[w].data # None <=> web[w].data # None
      BY <2>2, <2>4
    <3> QED
      BY <2>1, <2>4, <3>1, <3>2, <3>3 DEF WebRowOK
  <2>8. LoginsOnce' /\ OneSessionPerLogin'
    <3>1. /\ UNCHANGED <<pending, done>>
          /\ \A w \in WebRequests : web'[w].pc = web[w].pc /\ web'[w].login = web[w].login
      BY <2>1, <2>4
    <3> HIDE <2>1, <2>2, <2>3, <2>4
    <3> QED
      BY <3>1 DEF WebInv, LoginsOnce, OneSessionPerLogin
  <2> QED
    BY <2>5, <2>6, <2>7, <2>8 DEF WebInv
<1>9. ASSUME Restart PROVE WebInv'
  <2>1. /\ \A x \in Sids : store'[x] = None
        /\ \A w \in WebRequests : web'[w] = NoWeb
        /\ \A l \in Logins : pending'[l] # "gone" => pending[l] # "gone"
        /\ UNCHANGED <<accountVars, used, cookie, done>> /\ used \in Nat
    BY <1>9 DEF Restart, WebInv, WebTypeOK
  <2>2. WebTypeOK'
    BY <1>9, NoWebOK DEF Restart, WebInv, WebTypeOK
  <2>3. CopiesOK'
    BY <2>1 DEF CopiesOK, WebRowOK, NoWeb, WithCopy, Handshake
  <2> QED
    BY <2>1, <2>2, <2>3
    DEF WebInv, SessionCoherent, LoginsOnce, OneSessionPerLogin, NoWeb, Handshake
<1>10. UNCHANGED accountVars
  BY
  DEF WebNext, BeginLogin, Sweep, CallbackRefused, Callback, CallbackResolve,
      CallbackSave,
         GuardedCall, RefreshUserToken, ActAsUser, Admit, Respond, WebFails, SelectAccount,
         SessionEnds, Logout, TokensExpire, Restart
<1> QED
  BY <1>1, <1>2, <1>3, <1>4, <1>5, <1>6, <1>7, <1>8, <1>9, <1>10, CallbackPreserves,
     ResolvePreserves, SavePreserves
  DEF WebNext

(* Both invariants hold before the first login.                            *)
LEMMA BffInvInitially == WebInit => LinkInv /\ WebInv
<1> SUFFICES ASSUME WebInit PROVE LinkInv /\ WebInv
  OBVIOUS
<1>1. LinkInv
  BY LinkInvInitially, WebAssumption DEF WebInit
<1>2. WebTypeOK
  BY NoWebOK, WebAssumption DEF WebInit, WebTypeOK
<1>3. CopiesOK
  BY NoWebOK DEF WebInit, CopiesOK
<1>4. SessionCoherent /\ LoginsOnce /\ OneSessionPerLogin
  BY DEF WebInit, SessionCoherent, LoginsOnce, OneSessionPerLogin, NoWeb, Handshake
<1> QED
  BY <1>1, <1>2, <1>3, <1>4 DEF WebInv

(* Every step, of the management API or of the BFF, keeps both invariants. *)
LEMMA BffStep ==
    LinkInv /\ WebInv /\ [BffNext]_<<accountVars, webVars>> => LinkInv' /\ WebInv'
<1> SUFFICES ASSUME LinkInv, WebInv, [BffNext]_<<accountVars, webVars>>
             PROVE  LinkInv' /\ WebInv'
  OBVIOUS
<1>1. CASE WebNext
  <2>1. WebInv' /\ UNCHANGED accountVars
    BY <1>1, WebStep DEF LinkInv
  <2> QED
    BY <2>1, AccountStep
<1>2. CASE [AccountNext]_accountVars /\ UNCHANGED webVars
  BY <1>2, AccountStep, AccountsMove
<1> QED
  BY <1>1, <1>2 DEF BffNext

(* BffSessions!SessionCoherent: tokens, accounts and selection of a stored *)
(* session come from one login, whatever copy is written last.             *)
THEOREM SessionsAreCoherent == BffSpec => []SessionCoherent
<1>1. WebInv => SessionCoherent
  BY DEF WebInv
<1> QED
  BY <1>1, BffInvInitially, BffStep, PTL DEF BffSpec

(* BffSessions!OneSessionPerLogin: a login ends in at most one session.    *)
THEOREM LoginsEndOnce == BffSpec => []OneSessionPerLogin
<1>1. WebInv => OneSessionPerLogin
  BY DEF WebInv
<1> QED
  BY <1>1, BffInvInitially, BffStep, PTL DEF BffSpec
=============================================================================
