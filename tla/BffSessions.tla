---------------------------- MODULE BffSessions ----------------------------
(***************************************************************************)
(* One browser, the BFF and the management API's check of a call made for  *)
(* a user: the OIDC login, the server-side session, the renewal of the     *)
(* user's tokens and the selection of an account, over UserAccounts.       *)
(*                                                                         *)
(* The session layer (tower-sessions, external) hands every request a copy *)
(* of the record its cookie names, and at the end of the response writes   *)
(* the copy back as a whole if it was changed and the status is below 500. *)
(* Requests of a browser overlap, so an older copy may be written last.    *)
(*                                                                         *)
(* Abstractions: a token is known by the identity it was issued for and by *)
(* whether it has expired; the age of a session is left out, so that it    *)
(* may end of inactivity at any time (SessionEnds), and so may a call that *)
(* require_session finds past the absolute lifetime and answers with 401.  *)
(***************************************************************************)
EXTENDS UserAccounts

CONSTANTS
    Logins,       \* OIDC state parameters, each used for one login
    WebRequests,  \* requests of the browser in progress at a time
    MaxSessions,  \* bound of the model on session ids
    Provisioned   \* the rows of user_accounts in the beginning

ASSUME WebAssumption ==
    /\ MaxSessions \in Nat
    /\ Provisioned \in [Accounts -> AccountRow \union {None}]
    /\ \A l \in Logins : l # None

VARIABLES
    pending,  \* PendingLogins
    store,    \* session records by session id
    used,     \* session ids handed out
    cookie,   \* the id the browser sends, 0 for none
    web,      \* the browser's requests
    done      \* history: logins that have ended in a session, as often as they did

webVars == <<pending, store, used, cookie, web, done>>

-----------------------------------------------------------------------------

Sids == 1 .. MaxSessions

(* SessionData.                                                            *)
Session == [identity : Identities, tokensOf : Identities, fresh : BOOLEAN,
            accounts : SUBSET Accounts, selected : Accounts]

ASSUME NoSessionAssumption == None \notin Session

WebRequest == [pc : {"idle", "verified", "resolved", "authorising", "sent", "served",
                     "responding"},
               sid : 0 .. MaxSessions, data : Session \union {None}, changed : BOOLEAN,
               login : Logins \union {None}, identity : Identities \union {None}]

WebTypeOK ==
    /\ pending \in [Logins -> {"unused", "waiting", "gone"}]
    /\ store \in [Sids -> Session \union {None}]
    /\ used \in 0 .. MaxSessions /\ cookie \in 0 .. used
    /\ web \in [WebRequests -> WebRequest]
    /\ done \in [Logins -> 0 .. 2]

NoWeb == [pc |-> "idle", sid |-> 0, data |-> None, changed |-> FALSE, login |-> None,
          identity |-> None]

WebInit ==
    /\ account = Provisioned
    /\ invitation = [i \in Invitations |-> None]
    /\ request = [r \in Requests |-> NoRequest]
    /\ clock = 0
    /\ pending = [l \in Logins |-> "unused"]
    /\ store = [x \in Sids |-> None]
    /\ used = 0 /\ cookie = 0
    /\ web = [w \in WebRequests |-> NoWeb]
    /\ done = [l \in Logins |-> 0]

Goes(w, pc) == web' = [web EXCEPT ![w].pc = pc]
Ends(w)     == web' = [web EXCEPT ![w] = NoWeb]

-----------------------------------------------------------------------------
(* The login handshake.                                                    *)

BeginLogin(l) ==
    /\ pending[l] = "unused"
    /\ pending' = [pending EXCEPT ![l] = "waiting"]
    /\ UNCHANGED <<accountVars, store, used, cookie, web, done>>

(* sweep drops an entry that has outlived its TTL.                         *)
Sweep(l) ==
    /\ pending[l] = "waiting"
    /\ pending' = [pending EXCEPT ![l] = "gone"]
    /\ UNCHANGED <<accountVars, store, used, cookie, web, done>>

(* Mutant: the entry stays until it is swept.                              *)
TakeAndKeep(l) == pending' = pending

(* take: the entry is used up by the lookup.                               *)
Take(l) == pending' = [pending EXCEPT ![l] = "gone"]

(* callback: the state is known and the code buys a token for identity u.  *)
Callback(w, l, u) ==
    /\ web[w].pc = "idle" /\ pending[l] = "waiting"
    /\ Take(l)
    /\ web' = [web EXCEPT ![w] = [NoWeb EXCEPT !.pc = "verified", !.sid = cookie,
                                               !.login = l, !.identity = u]]
    /\ UNCHANGED <<accountVars, store, used, cookie, done>>

(* The state is known and the exchange or the id_token check fails.        *)
CallbackRefused(l) ==
    /\ pending[l] = "waiting"
    /\ Take(l)
    /\ UNCHANGED <<accountVars, store, used, cookie, web, done>>

ActiveAccounts(u) == {a \in ResolveLinkedAccounts(u) : account[a].state = "active"}

(* resolve_linked_accounts; the first account is selected, none is the end *)
(* of the login.                                                           *)
CallbackResolve(w) ==
    LET u == web[w].identity IN
    /\ web[w].pc = "verified"
    /\ \/ ActiveAccounts(u) = {} /\ Ends(w)
       \/ \E a \in ActiveAccounts(u) :
             web' = [web EXCEPT ![w].pc = "resolved",
                        ![w].data = [identity |-> u, tokensOf |-> u, fresh |-> TRUE,
                                     accounts |-> ActiveAccounts(u), selected |-> a]]
    /\ UNCHANGED <<accountVars, pending, store, used, cookie, done>>

(* The record goes under the id the request came with if that is alive,    *)
(* and under a new one otherwise.                                          *)
CallbackSave(w) ==
    LET alive == web[w].sid # 0 /\ store[web[w].sid] # None
        x == IF alive THEN web[w].sid ELSE used + 1
    IN /\ web[w].pc = "resolved" /\ x \in Sids
       /\ store' = [store EXCEPT ![x] = web[w].data]
       /\ used' = IF alive THEN used ELSE x
       /\ cookie' = x
       /\ done' = [done EXCEPT ![web[w].login] = @ + 1]
       /\ Ends(w)
       /\ UNCHANGED <<accountVars, pending>>

(* logout: the record is deleted at once.                                  *)
Logout ==
    /\ cookie # 0 /\ store[cookie] # None
    /\ store' = [store EXCEPT ![cookie] = None]
    /\ UNCHANGED <<accountVars, pending, used, cookie, web, done>>

(* The idle lifetime runs out and the layer drops the record.              *)
SessionEnds(x) ==
    /\ store[x] # None
    /\ store' = [store EXCEPT ![x] = None]
    /\ UNCHANGED <<accountVars, pending, used, cookie, web, done>>

(* The access tokens, stored or in hand, expire.                           *)
TokensExpire ==
    LET Old(d) == IF d = None THEN None ELSE [d EXCEPT !.fresh = FALSE] IN
    /\ \E x \in Sids : store[x] # None /\ store[x].fresh
    /\ store' = [x \in Sids |-> Old(store[x])]
    /\ web' = [w \in WebRequests |-> [web[w] EXCEPT !.data = Old(@)]]
    /\ UNCHANGED <<accountVars, pending, used, cookie, done>>

-----------------------------------------------------------------------------
(* Requests with a session.                                                *)

(* require_session: a live session whose selected account is one of its    *)
(* accounts.  Refused, the call changes nothing.                           *)
GuardedCall(w) ==
    /\ web[w].pc = "idle" /\ cookie # 0 /\ store[cookie] # None
    /\ store[cookie].selected \in store[cookie].accounts
    /\ web' = [web EXCEPT ![w] = [NoWeb EXCEPT !.pc = "authorising", !.sid = cookie,
                                               !.data = store[cookie]]]
    /\ UNCHANGED <<accountVars, pending, store, used, cookie, done>>

Selectable(d) == d.accounts

(* select_account changes the copy.                                        *)
SelectAccount(w, a) ==
    /\ web[w].pc = "idle" /\ cookie # 0 /\ store[cookie] # None
    /\ a \in Selectable(store[cookie])
    /\ web' = [web EXCEPT ![w] = [NoWeb EXCEPT !.pc = "responding", !.sid = cookie,
                                     !.data = [store[cookie] EXCEPT !.selected = a],
                                     !.changed = TRUE]]
    /\ UNCHANGED <<accountVars, pending, store, used, cookie, done>>

(* UserAuth renews expired tokens in the copy ...                          *)
RefreshUserToken(w) ==
    /\ web[w].pc = "authorising" /\ ~web[w].data.fresh
    /\ web' = [web EXCEPT ![w].data.fresh = TRUE, ![w].changed = TRUE]
    /\ UNCHANGED <<accountVars, pending, store, used, cookie, done>>

(* ... and exchanges them; the call goes out with the exchanged token and  *)
(* the selected account.                                                   *)
ActAsUser(w) ==
    /\ web[w].pc = "authorising" /\ web[w].data.fresh
    /\ Goes(w, "sent")
    /\ UNCHANGED <<accountVars, pending, store, used, cookie, done>>

(* derive_tenant_for_acting_user: the account is linked to the identity of *)
(* the token, and active.                                                  *)
Admits(d) ==
    /\ Exists(d.selected)
    /\ account[d.selected].identity = d.tokensOf
    /\ account[d.selected].state = "active"

Admit(w) ==
    /\ web[w].pc = "sent"
    /\ Goes(w, IF Admits(web[w].data) THEN "served" ELSE "responding")
    /\ UNCHANGED <<accountVars, pending, store, used, cookie, done>>

(* Mutant: only the tokens of the copy are written back.                   *)
SavedTokens(w) ==
    LET x == web[w].sid IN
    IF web[w].changed /\ store[x] # None
    THEN [store EXCEPT ![x].tokensOf = web[w].data.tokensOf, ![x].fresh = web[w].data.fresh]
    ELSE store

(* External: a changed copy replaces the record, or brings it back.        *)
Saved(w) == IF web[w].changed THEN [store EXCEPT ![web[w].sid] = web[w].data] ELSE store

Respond(w) ==
    /\ web[w].pc \in {"served", "responding"}
    /\ store' = Saved(w)
    /\ Ends(w)
    /\ UNCHANGED <<accountVars, pending, used, cookie, done>>

(* A failed renewal, exchange or upstream call, or a client that has gone. *)
WebFails(w) ==
    /\ web[w].pc # "idle"
    /\ Ends(w)
    /\ UNCHANGED <<accountVars, pending, store, used, cookie, done>>

(* The process restarts; everything it held was in memory.                 *)
Restart ==
    /\ pending' = [l \in Logins |-> IF pending[l] = "unused" THEN "unused" ELSE "gone"]
    /\ store' = [x \in Sids |-> None]
    /\ web' = [w \in WebRequests |-> NoWeb]
    /\ UNCHANGED <<accountVars, used, cookie, done>>

-----------------------------------------------------------------------------

WebNext ==
    \/ \E l \in Logins : BeginLogin(l) \/ Sweep(l) \/ CallbackRefused(l)
    \/ \E w \in WebRequests, l \in Logins, u \in Identities : Callback(w, l, u)
    \/ \E w \in WebRequests : CallbackResolve(w) \/ CallbackSave(w) \/ GuardedCall(w)
                              \/ RefreshUserToken(w) \/ ActAsUser(w) \/ Admit(w)
                              \/ Respond(w) \/ WebFails(w)
    \/ \E w \in WebRequests, a \in Accounts : SelectAccount(w, a)
    \/ \E x \in Sids : SessionEnds(x)
    \/ Logout \/ TokensExpire \/ Restart

BffNext == WebNext \/ (AccountNext /\ UNCHANGED webVars)

BffSpec == WebInit /\ [][BffNext]_<<accountVars, webVars>>

-----------------------------------------------------------------------------
(* Whatever copy is written last, tokens, identity, accounts and selection *)
(* of a session come from one login: the selected account is one of its    *)
(* accounts, and these are still linked to the identity its tokens are     *)
(* for.  This needs whole records, and links that are final.               *)
SessionCoherent ==
    \A x \in Sids : store[x] # None =>
        /\ store[x].tokensOf = store[x].identity
        /\ store[x].selected \in store[x].accounts
        /\ \A a \in store[x].accounts : Linked(a) /\ account[a].identity = store[x].identity

(* A login ends in at most one session, however often its callback is      *)
(* sent, and however its requests overlap.                                 *)
OneSessionPerLogin == \A l \in Logins : done[l] <= 1
=============================================================================
