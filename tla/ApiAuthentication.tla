------------------------- MODULE ApiAuthentication -------------------------
(***************************************************************************)
(* How the management API decides about a request: the realm's keys, the   *)
(* JwksCache that holds a copy of them, the calls that look a key up in it *)
(* and at times fetch the set anew, the kinds of principal the claims of a *)
(* token describe, and the tenant and the issuer a call may then reach.    *)
(*                                                                         *)
(* The realm is external: it adds keys, retires them and answers a request *)
(* for the set with the one it has at that moment, or not at all.  Its key *)
(* sets are numbered; a tick is ten seconds, the timeout of a fetch.       *)
(***************************************************************************)
EXTENDS Naturals

CONSTANTS
    Calls,       \* requests to the API in progress at a time
    Kids,        \* the realm's key ids, 1 .. n in the order they are made
    Ttl,         \* DEFAULT_JWKS_TTL
    Cooldown,    \* DEFAULT_JWKS_COOLDOWN
    Timeout,     \* JWKS_HTTP_TIMEOUT
    MaxVersion,  \* bound of the model on changes of the key set
    Tenants, Users, Accounts, Issuers,
    LinkedTo,    \* the user an account is linked to, or None
    AccountOf,   \* the tenant that owns an account
    IssuerOf,    \* the tenant that owns an issuer
    None         \* no such claim, row or scope

ASSUME KeyCacheAssumption ==
    /\ Kids \subseteq Nat /\ 1 \in Kids
    /\ Ttl \in Nat /\ Cooldown \in Nat /\ Timeout \in Nat /\ MaxVersion \in Nat \ {0}
    /\ Timeout < Cooldown /\ Cooldown <= Ttl

ASSUME OwnershipAssumption ==
    /\ LinkedTo \in [Accounts -> Users \union {None}]
    /\ AccountOf \in [Accounts -> Tenants] /\ IssuerOf \in [Issuers -> Tenants]
    /\ None \notin Tenants \union Users \union Accounts \union Issuers

VARIABLES
    published,  \* the realm's key set ...
    version,    \* ... and its number
    cache,      \* CacheState: the keys and the number of their set
    fetchedAge, \* time since fetched_at; Ttl is stale, or never
    attemptAge, \* time since last_attempt; Cooldown is long ago, or never
    tenants,    \* rows of tenants
    active,     \* the accounts that are active
    call        \* where each call is

keyVars  == <<published, version, cache, fetchedAge, attemptAge>>
jwksVars == <<keyVars, tenants, active, call>>

-----------------------------------------------------------------------------

KeySet == [keys : SUBSET Kids, version : 0 .. MaxVersion]

(* What a token says of its bearer; "blank" is a claim without content.  A *)
(* tenant token is only looked at for its tenant.                          *)
Claims ==
    [type : {"tenant", "other"}, tenant : Tenants, act : {"none"}, user : {None}]
    \union [type : {"first-party"}, tenant : {None}, act : {"none", "named", "blank"},
            user : Users \union {None, "blank"}]

(* A call that fetches remembers its kid, whether it has the key already,  *)
(* how long it has waited, and the realm's answer once there is one; later *)
(* it has its claims, and the tenant it is scoped to.                      *)
Call == [pc : {"idle", "fetching", "answered", "verified", "authenticated", "scoped"},
         kid : Kids, hit : BOOLEAN, age : 0 .. Timeout, answer : KeySet,
         claims : Claims \union {None}, scope : Tenants \union {None},
         verdict : {"none", "served", "refused", "unavailable"},
         reached : Issuers \union {None}]

JwksTypeOK ==
    /\ published \in SUBSET Kids /\ version \in 0 .. MaxVersion
    /\ cache \in KeySet
    /\ fetchedAge \in 0 .. Ttl /\ attemptAge \in 0 .. Cooldown
    /\ tenants \subseteq Tenants /\ active \subseteq Accounts
    /\ call \in [Calls -> Call]

NoKeys == [keys |-> {}, version |-> 0]
NoCall == [pc |-> "idle", kid |-> 1, hit |-> FALSE, age |-> 0, answer |-> NoKeys,
           claims |-> None, scope |-> None, verdict |-> "none", reached |-> None]

JwksInit ==
    /\ published = {1} /\ version = 1
    /\ cache = NoKeys
    /\ fetchedAge = Ttl /\ attemptAge = Cooldown
    /\ tenants = {AccountOf[a] : a \in Accounts} \union {IssuerOf[i] : i \in Issuers}
    /\ active = Accounts
    /\ call = [c \in Calls |-> NoCall]

-----------------------------------------------------------------------------
(* The realm.                                                              *)

Rotate(k) ==
    /\ k \in Kids
    /\ \A j \in published : j < k
    /\ version < MaxVersion
    /\ published' = published \union {k} /\ version' = version + 1
    /\ UNCHANGED <<cache, fetchedAge, attemptAge, tenants, active, call>>

Retire(k) ==
    /\ k \in published /\ \E j \in published : j > k
    /\ version < MaxVersion
    /\ published' = published \ {k} /\ version' = version + 1
    /\ UNCHANGED <<cache, fetchedAge, attemptAge, tenants, active, call>>

-----------------------------------------------------------------------------
(* jwk_for_kid.                                                            *)

(* The call ends with a verdict ...                                        *)
Ends(c, verdict) == call' = [call EXCEPT ![c] = [NoCall EXCEPT !.verdict = verdict]]

(* ... or goes on with the key, once it is done with the cache.            *)
Done(c, k, hit, keys) ==
    IF hit \/ k \in keys THEN call' = [call EXCEPT ![c] = [NoCall EXCEPT !.pc = "verified"]]
    ELSE Ends(c, IF keys = {} THEN "unavailable" ELSE "refused")

Hit(k) == k \in cache.keys
Stale  == fetchedAge = Ttl

(* Mutant: a key that is there is never looked up again.                   *)
NeedsRefreshOnMiss(k) == ~Hit(k)

(* A miss, or a hit in a cache that has outlived its TTL.                  *)
NeedsRefresh(k) == ~Hit(k) \/ Stale

(* Mutant: every call that needs the keys fetches them.                    *)
RefreshAlwaysDue == TRUE

(* refresh_if_due: the cooldown is over.                                   *)
RefreshDue == attemptAge = Cooldown

Fetching(c) == call[c].pc \in {"fetching", "answered"}

(* No bearer credential, or one that is not an EdDSA JWT with a kid: the   *)
(* request ends before any key is looked up.                               *)
Unreadable(c) ==
    /\ call[c].pc = "idle"
    /\ Ends(c, "refused")
    /\ UNCHANGED <<keyVars, tenants, active>>

(* A lookup that ends at once: no refresh is wanted, or none is due.       *)
Lookup(c, k) ==
    /\ call[c].pc = "idle"
    /\ NeedsRefresh(k) => ~RefreshDue
    /\ Done(c, k, Hit(k), cache.keys)
    /\ UNCHANGED <<keyVars, tenants, active>>

(* A lookup that claims the cooldown slot and leaves the lock to fetch.    *)
StartFetch(c, k) ==
    /\ call[c].pc = "idle"
    /\ NeedsRefresh(k) /\ RefreshDue
    /\ attemptAge' = 0
    /\ call' = [call EXCEPT ![c] = [NoCall EXCEPT !.pc = "fetching", !.kid = k, !.hit = Hit(k)]]
    /\ UNCHANGED <<published, version, cache, fetchedAge, tenants, active>>

(* External: the realm answers with its current set.                       *)
RealmAnswers(c) ==
    /\ call[c].pc = "fetching"
    /\ call' = [call EXCEPT ![c].pc = "answered",
                            ![c].answer = [keys |-> published, version |-> version]]
    /\ UNCHANGED <<keyVars, tenants, active>>

(* The answer replaces the whole set, and the kid is looked up again.      *)
StoreKeys(c) ==
    /\ call[c].pc = "answered"
    /\ cache' = call[c].answer /\ fetchedAge' = 0
    /\ Done(c, call[c].kid, call[c].hit, call[c].answer.keys)
    /\ UNCHANGED <<published, version, attemptAge, tenants, active>>

(* Mutant: a failed refresh drops what there was.                          *)
FetchFailsAndEvicts(c) ==
    /\ Fetching(c)
    /\ cache' = [cache EXCEPT !.keys = {}]
    /\ Done(c, call[c].kid, call[c].hit, {})
    /\ UNCHANGED <<published, version, fetchedAge, attemptAge, tenants, active>>

(* An error or the timeout: the keys stay as they are.                     *)
FetchFails(c) ==
    /\ Fetching(c)
    /\ Done(c, call[c].kid, call[c].hit, cache.keys)
    /\ UNCHANGED <<keyVars, tenants, active>>

(* Time passes; a fetch does not outlive its timeout.                      *)
Tick ==
    /\ \A c \in Calls : Fetching(c) => call[c].age < Timeout
    /\ fetchedAge' = IF fetchedAge = Ttl THEN Ttl ELSE fetchedAge + 1
    /\ attemptAge' = IF attemptAge = Cooldown THEN Cooldown ELSE attemptAge + 1
    /\ call' = [c \in Calls |-> IF Fetching(c) THEN [call[c] EXCEPT !.age = @ + 1] ELSE call[c]]
    /\ UNCHANGED <<published, version, cache, tenants, active>>

-----------------------------------------------------------------------------
(* The principal.                                                          *)

Administrative(cl) == cl.type = "first-party" /\ cl.act = "none" /\ cl.user = None

(* classify_first_party: neither claim, or both and both filled in.        *)
ClassifyFirstParty(cl) ==
    IF Administrative(cl) THEN "administrative"
    ELSE IF cl.act = "named" /\ cl.user \in Users THEN "actingAsUser" ELSE "invalid"

Principal(cl) ==
    CASE cl.type = "tenant"      -> "tenant"
      [] cl.type = "first-party" -> ClassifyFirstParty(cl)
      [] OTHER                   -> "invalid"

(* The signature, iss, aud, exp and nbf are right; then the claims decide. *)
ValidateClaims(c, cl) ==
    /\ call[c].pc = "verified"
    /\ IF Principal(cl) = "invalid" THEN Ends(c, "refused")
       ELSE call' = [call EXCEPT ![c].pc = "authenticated", ![c].claims = cl]
    /\ UNCHANGED <<keyVars, tenants, active>>

(* One of them is not.                                                     *)
TokenRefused(c) ==
    /\ call[c].pc = "verified"
    /\ Ends(c, "refused")
    /\ UNCHANGED <<keyVars, tenants, active>>

-----------------------------------------------------------------------------
(* The tenant and the issuer.                                              *)

ScopeTo(c, t) == call' = [call EXCEPT ![c].pc = "scoped", ![c].scope = t]

(* The tenant of the token has to exist.                                   *)
TenantFromToken(c) ==
    /\ Principal(call[c].claims) = "tenant"
    /\ IF call[c].claims.tenant \in tenants THEN ScopeTo(c, call[c].claims.tenant)
       ELSE Ends(c, "refused")

(* X-Tenant names any tenant that exists; without the header it is a 400.  *)
TenantFromHeader(c) ==
    /\ Principal(call[c].claims) = "administrative"
    /\ \/ \E t \in tenants : ScopeTo(c, t)
       \/ Ends(c, "refused")

(* Mutant: any active account will do, the user of the token is not asked. *)
TenantOfAnyAccount(c) ==
    /\ Principal(call[c].claims) = "actingAsUser"
    /\ \E a \in Accounts \union {None} :
          IF a \in active THEN ScopeTo(c, AccountOf[a]) ELSE Ends(c, "refused")

(* derive_tenant_for_acting_user: X-User-Account names an account, which   *)
(* is to be linked to the user of the token and active.                    *)
TenantOfActingUser(c) ==
    /\ Principal(call[c].claims) = "actingAsUser"
    /\ \E a \in Accounts \union {None} :
          IF a \in active /\ LinkedTo[a] = call[c].claims.user THEN ScopeTo(c, AccountOf[a])
          ELSE Ends(c, "refused")

TenantContext(c) ==
    /\ call[c].pc = "authenticated"
    /\ TenantFromToken(c) \/ TenantFromHeader(c) \/ TenantOfActingUser(c)
    /\ UNCHANGED <<keyVars, tenants, active>>

(* The endpoints of the BFF: either kind of first-party token, no tenant.  *)
FirstPartyContext(c) ==
    /\ call[c].pc = "authenticated"
    /\ Ends(c, IF Principal(call[c].claims) = "tenant" THEN "refused" ELSE "served")
    /\ UNCHANGED <<keyVars, tenants, active>>

ExistsForTenant(t, i) == i \in Issuers /\ IssuerOf[i] = t

(* acquire_pool_for_issuer: an issuer of another tenant is not found.      *)
AcquirePoolForIssuer(c, i) ==
    /\ call[c].pc = "scoped"
    /\ call' = [call EXCEPT ![c] =
          IF ExistsForTenant(call[c].scope, i)
          THEN [NoCall EXCEPT !.verdict = "served", !.reached = i]
          ELSE [NoCall EXCEPT !.verdict = "refused"]]
    /\ UNCHANGED <<keyVars, tenants, active>>

(* What a call with its key does next.                                     *)
GoesOn(c) ==
    \/ \E cl \in Claims : ValidateClaims(c, cl)
    \/ TokenRefused(c) \/ TenantContext(c) \/ FirstPartyContext(c)
    \/ \E i \in Issuers \union {None} : AcquirePoolForIssuer(c, i)

(* tenant create of the operator CLI.                                      *)
CreateTenant(t) ==
    /\ t \notin tenants
    /\ tenants' = tenants \union {t}
    /\ UNCHANGED <<keyVars, active, call>>

(* An account is deactivated, or activated again.                          *)
SetAccountState(a) ==
    /\ active' = IF a \in active THEN active \ {a} ELSE active \union {a}
    /\ UNCHANGED <<keyVars, tenants, call>>

-----------------------------------------------------------------------------

JwksNext ==
    \/ \E k \in Kids : Rotate(k) \/ Retire(k)
    \/ \E c \in Calls, k \in Kids : Lookup(c, k) \/ StartFetch(c, k)
    \/ \E c \in Calls : Unreadable(c) \/ RealmAnswers(c) \/ StoreKeys(c) \/ FetchFails(c)
    \/ Tick
    \/ \E c \in Calls : GoesOn(c)
    \/ \E t \in Tenants : CreateTenant(t)
    \/ \E a \in Accounts : SetAccountState(a)

JwksSpec == JwksInit /\ [][JwksNext]_jwksVars

(* Calls with tokens of each published key keep coming, a call that has    *)
(* its key runs to its end, time passes, and a realm that is asked again   *)
(* and again answers in time at last.                                      *)
JwksFairSpec ==
    /\ JwksSpec
    /\ WF_jwksVars(Tick)
    /\ \A c \in Calls : WF_jwksVars(GoesOn(c))
    /\ \A k \in Kids : SF_jwksVars(\E c \in Calls : k \in published /\ StartFetch(c, k))
    /\ SF_jwksVars(\E c \in Calls : RealmAnswers(c))
    /\ SF_jwksVars(\E c \in Calls : StoreKeys(c))

-----------------------------------------------------------------------------
(* The cache never goes back to an older key set: although the lock is not *)
(* held during a fetch, no late answer replaces a newer one (the cooldown  *)
(* outlasts the timeout), and a retired key is not let in again.           *)
CacheNeverGoesBack == [][cache'.version >= cache.version]_cache

(* A realm that is down takes no key away: once the cache is warm, no call *)
(* is told "unavailable", the answer that is meant for a cold start.       *)
OutageKeepsKeys ==
    [][\A c \in Calls : call'[c] # call[c] /\ call'[c].verdict = "unavailable"
                          => cache.version = 0]_jwksVars

(* What a token says decides, steps later, which issuers its call reaches. *)
(* A tenant token reaches those of its tenant.  A first-party token that   *)
(* has to do with a user, well-formed or not, reaches those of a tenant in *)
(* which that user has an account, active when the tenant was derived:     *)
(* naming the account of somebody else, or one that is not linked, does    *)
(* not help, and the freedom of X-Tenant is for tokens without a user.     *)
UserReachesOwnTenants ==
    [][\A c \in Calls :
          LET cl == call[c].claims
              OfUser == cl.type = "first-party" /\ ~Administrative(cl)
              Reaches(t, accounts) ==
                  /\ cl.type = "tenant" => t = cl.tenant
                  /\ OfUser => \E a \in accounts : LinkedTo[a] = cl.user /\ AccountOf[a] = t
          IN
          /\ call[c].pc = "authenticated" /\ call'[c].pc = "scoped"
             => Reaches(call'[c].scope, active)
          /\ call[c].pc = "scoped" /\ call'[c].reached # None
             => Reaches(IssuerOf[call'[c].reached], Accounts)]_jwksVars

(* While calls keep coming, the cache follows the realm: a rotated key is  *)
(* accepted, and a retired one refused, in the end.                        *)
CacheFollowsRealm == <>[](cache.keys = published)
=============================================================================
