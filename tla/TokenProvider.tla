---------------------------- MODULE TokenProvider ----------------------------
(***************************************************************************)
(* The access token of one tenant: OAuth2TokenProvider, the retry on 401   *)
(* around a registry call, and the tenant row that holds the refresh       *)
(* token.  Several callers share a replica's provider (the dispatch loop,  *)
(* the publisher); several replicas share the row.                         *)
(*                                                                         *)
(* The authorization server is external: a grant uses up the refresh token *)
(* it is given and answers with a new one.  Refresh tokens are numbered as *)
(* they are made; 0 is a NULL column.                                      *)
(***************************************************************************)
EXTENDS Naturals

CONSTANTS
    Callers,   \* concurrent users of the token
    Replicas,  \* processes, each with one provider for the tenant
    Home,      \* Home[c]: the replica of caller c
    Seeds,     \* import --only-if-empty commands that may run
    MaxTokens  \* bound of the model on refresh tokens

ASSUME TokenAssumption ==
    /\ Home \in [Callers -> Replicas]
    /\ MaxTokens \in Nat \ {0}

VARIABLES
    cache,   \* the cached access token of each provider
    caller,  \* where each caller is
    stored,  \* tenants.oauth_refresh_token
    valid,   \* refresh tokens the server accepts
    made,    \* how many it has made
    seeding, \* seeds between their check and their UPDATE
    lost     \* history: since the last import, a token was made and not stored

tokenVars == <<cache, caller, stored, valid, made, seeding, lost>>

-----------------------------------------------------------------------------

Tokens == 0 .. MaxTokens

(* queued: for refresh_lock; single: has it; granting: has the row, too;   *)
(* granted: has the server's answer; committed: has only refresh_lock.     *)
CallerState == [pc : {"idle", "queued", "single", "granting", "granted", "committed",
                      "calling"},
                token : Tokens, tries : 0 .. 2]

TokenTypeOK ==
    /\ cache \in [Replicas -> {"none", "fresh", "stale"}]
    /\ caller \in [Callers -> CallerState]
    /\ stored \in Tokens
    /\ valid \subseteq Tokens
    /\ made \in Tokens
    /\ seeding \subseteq Seeds
    /\ lost \in BOOLEAN

Idle == [pc |-> "idle", token |-> 0, tries |-> 0]

(* A tenant is onboarded with a renewal token or without one.              *)
TokenInit ==
    /\ cache = [r \in Replicas |-> "none"]
    /\ caller = [c \in Callers |-> Idle]
    /\ stored \in {0, 1}
    /\ valid = {1} /\ made = 1
    /\ seeding = {} /\ lost = FALSE

-----------------------------------------------------------------------------
(* refresh_lock of a provider and the lock on the tenant row.              *)

Refreshing == {"single", "granting", "granted", "committed"}

RefreshLockFree(r) == \A c \in Callers : caller[c].pc \in Refreshing => Home[c] # r

(* Mutant: the credentials are read without FOR UPDATE.                    *)
RowFreeAlways == TRUE

RowFree == \A c \in Callers : caller[c].pc \notin {"granting", "granted"}

Goes(c, pc) == caller' = [caller EXCEPT ![c].pc = pc]
Returns(c)  == caller' = [caller EXCEPT ![c] = Idle]

-----------------------------------------------------------------------------

CachedAccess(c) == cache[Home[c]] = "fresh"

(* get: the cached token, or refresh_and_cache.                            *)
Get(c) ==
    /\ caller[c].pc = "idle"
    /\ caller' = [caller EXCEPT ![c] = [pc |-> IF CachedAccess(c) THEN "calling" ELSE "queued",
                                        token |-> 0, tries |-> 1]]
    /\ UNCHANGED <<cache, stored, valid, made, seeding, lost>>

(* Mutant: no second look at the cache once the lock is held.              *)
RefreshAgain(c) ==
    /\ caller[c].pc = "queued" /\ RefreshLockFree(Home[c])
    /\ Goes(c, "single")
    /\ UNCHANGED <<cache, stored, valid, made, seeding, lost>>

(* refresh_lock, and the cache is looked at again.                         *)
TakeRefreshLock(c) ==
    /\ caller[c].pc = "queued" /\ RefreshLockFree(Home[c])
    /\ Goes(c, IF CachedAccess(c) THEN "calling" ELSE "single")
    /\ UNCHANGED <<cache, stored, valid, made, seeding, lost>>

(* Mutant: a NULL column is waited for, with refresh_lock held.            *)
ReadCredentialsWaits(c) ==
    /\ caller[c].pc = "single" /\ RowFree /\ stored # 0
    /\ caller' = [caller EXCEPT ![c].pc = "granting", ![c].token = stored]
    /\ UNCHANGED <<cache, stored, valid, made, seeding, lost>>

(* read_oauth_credentials_for_update; a NULL column ends the call.         *)
ReadCredentials(c) ==
    /\ caller[c].pc = "single" /\ RowFree
    /\ caller' = [caller EXCEPT ![c] = IF stored = 0 THEN Idle
                     ELSE [caller[c] EXCEPT !.pc = "granting", !.token = stored]]
    /\ UNCHANGED <<cache, stored, valid, made, seeding, lost>>

(* The server accepts the token and rotates it; the answer may be lost.    *)
Grant(c) ==
    LET t == caller[c].token IN
    /\ caller[c].pc = "granting"
    /\ t \in valid /\ made < MaxTokens
    /\ made' = made + 1
    /\ valid' = (valid \ {t}) \union {made + 1}
    /\ \/ caller' = [caller EXCEPT ![c].pc = "granted", ![c].token = made + 1]
          /\ UNCHANGED lost
       \/ Returns(c) /\ lost' = TRUE
    /\ UNCHANGED <<cache, stored, seeding>>

(* Refused (the token is not valid) or not reached: ROLLBACK.              *)
GrantFails(c) ==
    /\ caller[c].pc = "granting"
    /\ Returns(c)
    /\ UNCHANGED <<cache, stored, valid, made, seeding, lost>>

(* write_oauth_refresh_token and COMMIT.                                   *)
CommitRefresh(c) ==
    /\ caller[c].pc = "granted"
    /\ stored' = caller[c].token
    /\ Goes(c, "committed")
    /\ UNCHANGED <<cache, valid, made, seeding, lost>>

CommitFails(c) ==
    /\ caller[c].pc = "granted"
    /\ Returns(c)
    /\ lost' = TRUE
    /\ UNCHANGED <<cache, stored, valid, made, seeding>>

StoreToken(c) ==
    /\ caller[c].pc = "committed"
    /\ cache' = [cache EXCEPT ![Home[c]] = "fresh"]
    /\ Goes(c, "calling")
    /\ UNCHANGED <<stored, valid, made, seeding, lost>>

(* The registry answers with anything but 401, or the call fails.          *)
CallEnds(c) ==
    /\ caller[c].pc = "calling"
    /\ Returns(c)
    /\ UNCHANGED <<cache, stored, valid, made, seeding, lost>>

(* Mutant: a 401 is retried as often as it comes.                          *)
RetryLeftAlways(c) == TRUE

RetryLeft(c) == caller[c].tries < 2

(* retry_on_401: invalidate drops whatever is cached by now and refreshes, *)
(* once; a second 401 is the caller's error.                               *)
Unauthorized(c) ==
    /\ caller[c].pc = "calling"
    /\ IF RetryLeft(c)
       THEN /\ cache' = [cache EXCEPT ![Home[c]] = "none"]
            /\ caller' = [caller EXCEPT ![c].pc = "queued", ![c].tries = @ + 1]
       ELSE Returns(c) /\ UNCHANGED cache
    /\ UNCHANGED <<stored, valid, made, seeding, lost>>

-----------------------------------------------------------------------------

(* Less than safety_margin is left of the cached token.                    *)
Expires(r) ==
    /\ cache[r] = "fresh"
    /\ cache' = [cache EXCEPT ![r] = "stale"]
    /\ UNCHANGED <<caller, stored, valid, made, seeding, lost>>

Restart(r) ==
    /\ cache' = [cache EXCEPT ![r] = "none"]
    /\ caller' = [c \in Callers |-> IF Home[c] = r THEN Idle ELSE caller[c]]
    /\ lost' = (lost \/ \E c \in Callers : Home[c] = r /\ caller[c].pc = "granted")
    /\ UNCHANGED <<stored, valid, made, seeding>>

(* The operator takes a renewal token from the ePortal and stores it with  *)
(* tenant import-oauth-refresh-token: unconditionally, ...                 *)
ImportToken ==
    /\ RowFree /\ made < MaxTokens
    /\ made' = made + 1
    /\ valid' = valid \union {made + 1}
    /\ stored' = made + 1
    /\ lost' = FALSE
    /\ UNCHANGED <<cache, caller>>

ImportOauthRefreshToken == ImportToken /\ UNCHANGED seeding

(* ... or only_if_empty: find_by_id without a lock, then the UPDATE.       *)
SeedCheck(i) ==
    /\ i \notin seeding /\ stored = 0
    /\ seeding' = seeding \union {i}
    /\ UNCHANGED <<cache, caller, stored, valid, made, lost>>

SeedWrite(i) ==
    /\ i \in seeding
    /\ ImportToken
    /\ seeding' = seeding \ {i}

ProviderStep(c) ==
    \/ TakeRefreshLock(c) \/ ReadCredentials(c) \/ Grant(c) \/ GrantFails(c)
    \/ CommitRefresh(c) \/ CommitFails(c) \/ StoreToken(c)
    \/ CallEnds(c) \/ Unauthorized(c)

TokenNext ==
    \/ \E c \in Callers : Get(c) \/ ProviderStep(c)
    \/ \E r \in Replicas : Expires(r) \/ Restart(r)
    \/ ImportOauthRefreshToken
    \/ \E i \in Seeds : SeedCheck(i) \/ SeedWrite(i)

TokenSpec == TokenInit /\ [][TokenNext]_tokenVars

(* Requests end, and tokio's mutex and Postgres serve their waiters in     *)
(* order, so nobody waits for a lock for ever.                             *)
TokenFairness ==
    \A c \in Callers : SF_tokenVars(TakeRefreshLock(c)) /\ SF_tokenVars(ReadCredentials(c))
                       /\ WF_tokenVars(ProviderStep(c))

TokenFairSpec == TokenSpec /\ TokenFairness

-----------------------------------------------------------------------------
(* Properties.                                                             *)

(* A grant presents the stored refresh token, and one the server still     *)
(* accepts unless an answer was lost before: no two replicas, and no two   *)
(* callers of one, use up the same token (refresh_lock, FOR UPDATE).       *)
PresentedTokenIsAlive ==
    \A c \in Callers : caller[c].pc = "granting" =>
        /\ caller[c].token = stored
        /\ caller[c].token \in valid \/ lost

(* Why: the tenant row has one owner at a time, and between two owners the *)
(* stored token is alive, unless a rotated one got lost on the way.        *)
OneRowOwner ==
    \A c, d \in Callers :
        caller[c].pc \in {"granting", "granted"} /\ caller[d].pc \in {"granting", "granted"}
        => c = d

GrantedIsAlive == \A c \in Callers : caller[c].pc = "granted" => caller[c].token \in valid

StoredIsAlive ==
    \/ stored = 0 \/ lost \/ stored \in valid
    \/ \E c \in Callers : caller[c].pc = "granted"

(* Concurrent get() calls of a replica collapse onto one grant: nobody     *)
(* refreshes beside another, or while a fresh token is cached.             *)
SingleFlight ==
    \A c, d \in Callers :
        /\ caller[c].pc \in {"single", "granting", "granted"} => ~CachedAccess(c)
        /\ caller[c].pc \in Refreshing /\ caller[d].pc \in Refreshing /\ Home[c] = Home[d]
              => c = d

(* Every registry call ends, refresh and retry included.                   *)
CallsEnd == \A c \in Callers : caller[c].pc # "idle" ~> caller[c].pc = "idle"
=============================================================================
