------------------------ MODULE ManagementApi_proofs ------------------------
(***************************************************************************)
(* Proofs about the management API: how it decides about a request, for    *)
(* any number of calls, keys, tenants, accounts and issuers; and its list  *)
(* endpoints, for any finite table and any page size.  The two components  *)
(* share no state.                                                         *)
(***************************************************************************)
EXTENDS ApiAuthentication, Listings, FiniteSetTheorems, TLAPS

-----------------------------------------------------------------------------
(* The decision about a request.                                           *)

(* A cache that was ever filled holds a key, of a set not newer than the   *)
(* realm's; the realm always has one.                                      *)
CacheIsFilled ==
    /\ published # {}
    /\ cache.version <= version
    /\ cache.version # 0 => cache.keys # {}

(* A fetch under way is the last attempt, and the only one: the cooldown   *)
(* is not over before its timeout is.                                      *)
OneFetch ==
    /\ \A c \in Calls : Fetching(c) => attemptAge = call[c].age
    /\ \A c, d \in Calls : Fetching(c) /\ Fetching(d) => c = d

(* What the realm answered is not older than what the cache holds.         *)
AnswersAreNewer ==
    \A c \in Calls : call[c].pc = "answered" =>
        /\ call[c].answer.keys # {}
        /\ cache.version <= call[c].answer.version /\ call[c].answer.version <= version

(* A call under way has no verdict and has reached nothing.                *)
OpenCalls ==
    \A c \in Calls : call[c].pc # "idle" => call[c].verdict = "none" /\ call[c].reached = None

(* The tenant a call is scoped to is one its claims allow.                 *)
OfUser(cl) == cl.type = "first-party" /\ ~Administrative(cl)
Allows(cl, t, accounts) ==
    /\ cl.type = "tenant" => t = cl.tenant
    /\ OfUser(cl) => \E a \in accounts : LinkedTo[a] = cl.user /\ AccountOf[a] = t
ScopeFollowsClaims ==
    \A c \in Calls : call[c].pc = "scoped" => Allows(call[c].claims, call[c].scope, Accounts)

JwksInv == CacheIsFilled /\ OneFetch /\ AnswersAreNewer /\ OpenCalls /\ ScopeFollowsClaims

(* The records a call and the cache start with are well formed.            *)
LEMMA NoCallType == /\ NoKeys \in KeySet /\ NoCall \in Call
                    /\ \A v \in {"refused", "served", "unavailable"} :
                          [NoCall EXCEPT !.verdict = v] \in Call
<1>1. NoKeys \in KeySet
  BY KeyCacheAssumption DEF NoKeys, KeySet
<1>2. NoCall \in Call
  BY <1>1, KeyCacheAssumption DEF NoCall, Call
<1> QED
  BY <1>1, <1>2 DEF Call

(* Ends and Done leave a call well formed.                                 *)
LEMMA EndsType ==
    ASSUME call \in [Calls -> Call], NEW c \in Calls,
           NEW v \in {"refused", "served", "unavailable"}, Ends(c, v)
    PROVE  call' \in [Calls -> Call]
  BY NoCallType DEF Ends

LEMMA DoneType ==
    ASSUME call \in [Calls -> Call], NEW c \in Calls, NEW k, NEW hit, NEW keys,
           Done(c, k, hit, keys)
    PROVE  call' \in [Calls -> Call]
<1>1. [NoCall EXCEPT !.pc = "verified"] \in Call
  BY NoCallType DEF Call
<1> QED
  BY <1>1, NoCallType, EndsType DEF Done

(* What a call with its key does next leaves it well formed.               *)
LEMMA GoesOnType ==
    ASSUME JwksTypeOK, NEW c \in Calls, GoesOn(c)
    PROVE  /\ call' \in [Calls -> Call]
           /\ UNCHANGED <<keyVars, tenants, active>>
<1>1. ASSUME NEW cl \in Claims, ValidateClaims(c, cl) PROVE call' \in [Calls -> Call]
  BY <1>1, EndsType DEF ValidateClaims, JwksTypeOK, Call
<1>2. ASSUME TokenRefused(c) PROVE call' \in [Calls -> Call]
  BY <1>2, EndsType DEF TokenRefused, JwksTypeOK
<1>3. ASSUME TenantContext(c) PROVE call' \in [Calls -> Call]
  <2>1. ASSUME NEW t \in Tenants, ScopeTo(c, t) PROVE call' \in [Calls -> Call]
    <3>1. [call[c] EXCEPT !.pc = "scoped", !.scope = t] \in Call
      <4>1. call[c] \in Call
        BY DEF JwksTypeOK
      <4> QED
        BY <4>1 DEF Call
    <3>2. call' = [call EXCEPT ![c] = [call[c] EXCEPT !.pc = "scoped", !.scope = t]]
      BY <2>1 DEF ScopeTo
    <3> QED
      BY <3>1, <3>2 DEF JwksTypeOK
  <2>2. ASSUME Ends(c, "refused") PROVE call' \in [Calls -> Call]
    BY <2>2, EndsType DEF JwksTypeOK
  <2>3. CASE TenantFromToken(c)
    BY <2>1, <2>2, <2>3 DEF TenantFromToken, JwksTypeOK
  <2>4. CASE TenantFromHeader(c)
    BY <2>1, <2>2, <2>4 DEF TenantFromHeader, JwksTypeOK
  <2>5. CASE TenantOfActingUser(c)
    <3>1. \A a \in active : AccountOf[a] \in Tenants
      BY OwnershipAssumption DEF JwksTypeOK
    <3> QED
      BY <2>1, <2>2, <2>5, <3>1 DEF TenantOfActingUser
  <2> QED
    BY <1>3, <2>3, <2>4, <2>5 DEF TenantContext
<1>4. ASSUME FirstPartyContext(c) PROVE call' \in [Calls -> Call]
  BY <1>4, EndsType DEF FirstPartyContext, JwksTypeOK
<1>5. ASSUME NEW i \in Issuers \union {None}, AcquirePoolForIssuer(c, i)
      PROVE  call' \in [Calls -> Call]
  <2>1. [NoCall EXCEPT !.verdict = "served", !.reached = i] \in Call
    BY NoCallType DEF Call
  <2> QED
    BY <1>5, <2>1, NoCallType DEF AcquirePoolForIssuer, JwksTypeOK
<1>6. UNCHANGED <<keyVars, tenants, active>>
  BY DEF GoesOn, ValidateClaims, TokenRefused, TenantContext, FirstPartyContext,
         AcquirePoolForIssuer
<1> QED
  BY <1>1, <1>2, <1>3, <1>4, <1>5, <1>6 DEF GoesOn

(* The realm, the cache, its ages and the calls keep their types; in       *)
(* particular a fetch is never older than its timeout.                     *)
THEOREM JwksTypes == JwksSpec => []JwksTypeOK
<1>1. JwksInit => JwksTypeOK
  BY NoCallType, KeyCacheAssumption, OwnershipAssumption DEF JwksInit, JwksTypeOK
<1>2. JwksTypeOK /\ [JwksNext]_jwksVars => JwksTypeOK'
  <2> SUFFICES ASSUME JwksTypeOK, [JwksNext]_jwksVars PROVE JwksTypeOK'
    OBVIOUS
  <2>1. ASSUME NEW k \in Kids, Rotate(k) \/ Retire(k) PROVE JwksTypeOK'
    <3>1. published' \in SUBSET Kids
      BY <2>1 DEF Rotate, Retire, JwksTypeOK
    <3>2. version' \in 0 .. MaxVersion
      BY <2>1, KeyCacheAssumption DEF Rotate, Retire, JwksTypeOK
    <3> QED
      BY <2>1, <3>1, <3>2 DEF Rotate, Retire, JwksTypeOK
  <2>2. ASSUME NEW c \in Calls, NEW k \in Kids, Lookup(c, k) PROVE JwksTypeOK'
    BY <2>2, DoneType DEF Lookup, keyVars, JwksTypeOK
  <2>3. ASSUME NEW c \in Calls, NEW k \in Kids, StartFetch(c, k) PROVE JwksTypeOK'
    <3>1. Hit(k) \in BOOLEAN
      BY DEF Hit
    <3>2. [NoCall EXCEPT !.pc = "fetching", !.kid = k, !.hit = Hit(k)] \in Call
      BY <3>1, NoCallType DEF Call
    <3>3. call' \in [Calls -> Call]
      BY <2>3, <3>2 DEF StartFetch, JwksTypeOK
    <3>4. attemptAge' \in 0 .. Cooldown
      BY <2>3, KeyCacheAssumption DEF StartFetch
    <3> QED
      BY <2>3, <3>3, <3>4 DEF StartFetch, JwksTypeOK
  <2>4. ASSUME NEW c \in Calls, Unreadable(c) PROVE JwksTypeOK'
    BY <2>4, EndsType DEF Unreadable, keyVars, JwksTypeOK
  <2>5. ASSUME NEW c \in Calls, RealmAnswers(c) PROVE JwksTypeOK'
    <3>1. call' \in [Calls -> Call]
      <4> DEFINE a == [keys |-> published, version |-> version]
                 n == [call[c] EXCEPT !.pc = "answered", !.answer = a]
      <4>1. a \in KeySet
        BY DEF JwksTypeOK, KeySet
      <4>2. call' = [call EXCEPT ![c] = n]
        BY <2>5 DEF RealmAnswers
      <4> HIDE DEF a
      <4>3. call[c] \in Call
        BY DEF JwksTypeOK
      <4>4. n \in Call
        BY <4>1, <4>3 DEF Call
      <4> QED
        BY <4>2, <4>4 DEF JwksTypeOK
    <3> QED
      BY <2>5, <3>1 DEF RealmAnswers, keyVars, JwksTypeOK
  <2>6. ASSUME NEW c \in Calls, StoreKeys(c) PROVE JwksTypeOK'
    <3>1. call' \in [Calls -> Call]
      BY <2>6, DoneType DEF StoreKeys, JwksTypeOK
    <3>2. cache' \in KeySet /\ fetchedAge' \in 0 .. Ttl
      BY <2>6, KeyCacheAssumption DEF StoreKeys, JwksTypeOK, Call
    <3> QED
      BY <2>6, <3>1, <3>2 DEF StoreKeys, JwksTypeOK
  <2>7. ASSUME NEW c \in Calls, FetchFails(c) PROVE JwksTypeOK'
    BY <2>7, DoneType DEF FetchFails, keyVars, JwksTypeOK
  <2>8. ASSUME Tick PROVE JwksTypeOK'
    <3>1. fetchedAge' \in 0 .. Ttl /\ attemptAge' \in 0 .. Cooldown
      BY <2>8, KeyCacheAssumption DEF Tick, JwksTypeOK
    <3>2. ASSUME NEW c \in Calls, Fetching(c)
          PROVE  [call[c] EXCEPT !.age = @ + 1] \in Call
      BY <2>8, <3>2, KeyCacheAssumption DEF Tick, JwksTypeOK, Call
    <3>3. call' \in [Calls -> Call]
      BY <2>8, <3>2 DEF Tick, JwksTypeOK
    <3> QED
      BY <2>8, <3>1, <3>3 DEF Tick, JwksTypeOK
  <2>9. ASSUME NEW c \in Calls, GoesOn(c) PROVE JwksTypeOK'
    BY <2>9, GoesOnType DEF keyVars, JwksTypeOK
  <2>10. ASSUME NEW t \in Tenants, CreateTenant(t) PROVE JwksTypeOK'
    BY <2>10 DEF CreateTenant, keyVars, JwksTypeOK
  <2>11. ASSUME NEW a \in Accounts, SetAccountState(a) PROVE JwksTypeOK'
    BY <2>11 DEF SetAccountState, keyVars, JwksTypeOK
  <2>12. ASSUME UNCHANGED jwksVars PROVE JwksTypeOK'
    BY <2>12 DEF jwksVars, keyVars, JwksTypeOK
  <2> QED
    BY <2>1, <2>2, <2>3, <2>4, <2>5, <2>6, <2>7, <2>8, <2>9, <2>10, <2>11, <2>12
    DEF JwksNext
<1> QED
  BY <1>1, <1>2, PTL DEF JwksSpec

(* A lookup that is done ends its call, or leaves it with the key; told    *)
(* "unavailable" it had no key to choose from.                             *)
LEMMA DoneEffect ==
    ASSUME JwksTypeOK, NEW c \in Calls, NEW k, NEW hit, NEW keys, Done(c, k, hit, keys)
    PROVE  /\ \A d \in Calls : d # c => call'[d] = call[d]
           /\ call'[c].pc \in {"idle", "verified"} /\ call'[c].reached = None
           /\ call'[c].pc # "idle" => call'[c].verdict = "none"
           /\ call'[c].verdict = "unavailable" => keys = {}
  BY DEF Done, Ends, NoCall, JwksTypeOK

(* Told apart by its claims, a first-party token with a user in it never   *)
(* counts as a tenant's or as an administrative one, and a tenant's token  *)
(* never as a first-party one.                                             *)
LEMMA TokensAreToldApart ==
    ASSUME NEW cl
    PROVE  /\ OfUser(cl) => Principal(cl) \notin {"tenant", "administrative"}
           /\ cl.type = "tenant" => Principal(cl) = "tenant"
  BY DEF OfUser, Principal, ClassifyFirstParty

(* The three ways to derive a tenant respect the claims.                   *)
LEMMA DerivedFromClaims ==
    ASSUME JwksTypeOK, NEW c \in Calls, TenantContext(c), call'[c].pc = "scoped"
    PROVE  /\ call'[c].claims = call[c].claims
           /\ Allows(call[c].claims, call'[c].scope, active)
<1>1. \A v : Ends(c, v) => call'[c].pc = "idle"
  BY DEF Ends, NoCall, JwksTypeOK
<1>2. \A t : ScopeTo(c, t) => call'[c].scope = t /\ call'[c].claims = call[c].claims
  BY DEF ScopeTo, JwksTypeOK, Call
<1> DEFINE cl == call[c].claims
<1>3. CASE TenantFromToken(c)
  <2>1. Principal(cl) = "tenant" /\ ScopeTo(c, cl.tenant)
    BY <1>1, <1>3 DEF TenantFromToken
  <2> QED
    BY <1>2, <2>1, TokensAreToldApart DEF Allows
<1>4. CASE TenantFromHeader(c)
  <2>1. Principal(cl) = "administrative" /\ \E t : ScopeTo(c, t)
    BY <1>1, <1>4 DEF TenantFromHeader
  <2> QED
    BY <1>2, <2>1, TokensAreToldApart DEF Allows
<1>5. CASE TenantOfActingUser(c)
  <2>1. Principal(cl) = "actingAsUser"
    BY <1>5 DEF TenantOfActingUser
  <2>2. PICK a \in active : LinkedTo[a] = cl.user /\ ScopeTo(c, AccountOf[a])
    BY <1>1, <1>5 DEF TenantOfActingUser
  <2> QED
    BY <1>2, <2>1, <2>2, TokensAreToldApart DEF Allows
<1> QED
  BY <1>3, <1>4, <1>5 DEF TenantContext

(* A call that goes on is not fetching, and is never told "unavailable";   *)
(* once it is scoped, it is so by its claims.                              *)
LEMMA GoesOnEffect ==
    ASSUME JwksTypeOK, OpenCalls, NEW c \in Calls, GoesOn(c)
    PROVE  /\ \A d \in Calls : d # c => call'[d] = call[d]
           /\ ~Fetching(c) /\ ~Fetching(c)'
           /\ call'[c].pc # "idle" => call'[c].verdict = "none" /\ call'[c].reached = None
           /\ call'[c].verdict # "unavailable"
           /\ call'[c].pc = "scoped" => Allows(call'[c].claims, call'[c].scope, Accounts)
<1>1. ASSUME Ends(c, "refused") \/ Ends(c, "served")
      PROVE  /\ \A d \in Calls : d # c => call'[d] = call[d]
             /\ call'[c].pc = "idle" /\ call'[c].verdict # "unavailable"
  BY <1>1 DEF Ends, NoCall, JwksTypeOK
<1>2. ASSUME NEW t, ScopeTo(c, t)
      PROVE  /\ \A d \in Calls : d # c => call'[d] = call[d]
             /\ call'[c].pc = "scoped" /\ call'[c].verdict = call[c].verdict
             /\ call'[c].reached = call[c].reached
  BY <1>2 DEF ScopeTo, JwksTypeOK, Call
<1>3. ASSUME NEW cl \in Claims, ValidateClaims(c, cl)
      PROVE  /\ \A d \in Calls : d # c => call'[d] = call[d]
             /\ \/ call'[c].pc = "idle" /\ call'[c].verdict # "unavailable"
                \/ /\ call'[c].pc = "authenticated" /\ call'[c].verdict = call[c].verdict
                   /\ call'[c].reached = call[c].reached
  BY <1>1, <1>3 DEF ValidateClaims, JwksTypeOK, Call
<1>4. ASSUME NEW i, AcquirePoolForIssuer(c, i)
      PROVE  /\ \A d \in Calls : d # c => call'[d] = call[d]
             /\ call'[c].pc = "idle" /\ call'[c].verdict # "unavailable"
  BY <1>4 DEF AcquirePoolForIssuer, NoCall, JwksTypeOK
<1>5. call[c].pc \in {"verified", "authenticated", "scoped"}
  BY DEF GoesOn, ValidateClaims, TokenRefused, TenantContext, FirstPartyContext,
         AcquirePoolForIssuer
<1>6. call[c].verdict = "none" /\ call[c].reached = None
  BY <1>5 DEF OpenCalls
<1>7. \/ \E cl \in Claims : ValidateClaims(c, cl)
      \/ Ends(c, "refused") \/ Ends(c, "served")
      \/ \E t : ScopeTo(c, t)
      \/ \E i : AcquirePoolForIssuer(c, i)
  BY DEF GoesOn, TokenRefused, TenantContext, TenantFromToken, TenantFromHeader,
         TenantOfActingUser, FirstPartyContext
<1>8. ASSUME call'[c].pc = "scoped"
      PROVE  Allows(call'[c].claims, call'[c].scope, Accounts)
  <2>1. TenantContext(c)
    BY <1>1, <1>3, <1>4, <1>8 DEF GoesOn, TokenRefused, FirstPartyContext
  <2>2. active \subseteq Accounts
    BY DEF JwksTypeOK
  <2> QED
    BY <1>8, <2>1, <2>2, DerivedFromClaims DEF Allows
<1> QED
  BY <1>1, <1>2, <1>3, <1>4, <1>5, <1>6, <1>7, <1>8 DEF Fetching

(* A step of one call that leaves the cache alone and does not end in a    *)
(* fetch preserves the invariant.                                          *)
LEMMA CallStepPreserves ==
    ASSUME JwksTypeOK, JwksInv, NEW c \in Calls, UNCHANGED keyVars,
           \A d \in Calls : d # c => call'[d] = call[d],
           ~Fetching(c)',
           call'[c].pc # "idle" => call'[c].verdict = "none" /\ call'[c].reached = None,
           call'[c].pc = "scoped" => Allows(call'[c].claims, call'[c].scope, Accounts)
    PROVE  JwksInv'
<1> USE DEF JwksInv, keyVars
<1>1. \A d \in Calls : Fetching(d)' => d # c /\ Fetching(d) /\ call'[d] = call[d]
  BY DEF Fetching
<1>2. CacheIsFilled'
  BY DEF CacheIsFilled
<1>3. OneFetch'
  <2>1. \A d \in Calls : Fetching(d)' => attemptAge' = call'[d].age
    BY <1>1 DEF OneFetch
  <2>2. \A d, e \in Calls : Fetching(d)' /\ Fetching(e)' => d = e
    BY <1>1 DEF OneFetch
  <2> QED
    BY <2>1, <2>2 DEF OneFetch
<1>4. AnswersAreNewer'
  BY <1>1 DEF AnswersAreNewer, Fetching
<1>5. OpenCalls'
  BY DEF OpenCalls
<1>6. ScopeFollowsClaims'
  BY DEF ScopeFollowsClaims
<1> QED
  BY <1>2, <1>3, <1>4, <1>5, <1>6

(* The invariant that the action properties of the calls rest on.          *)
LEMMA JwksInvHolds == JwksSpec => []JwksInv
<1>1. JwksInit => JwksInv
  <2> SUFFICES ASSUME JwksInit PROVE JwksInv
    OBVIOUS
  <2>1. \A c \in Calls : call[c].pc = "idle" /\ ~Fetching(c)
    BY DEF JwksInit, NoCall, Fetching
  <2>2. published # {} /\ cache.version = 0 /\ version = 1
    BY DEF JwksInit, NoKeys
  <2> QED
    BY <2>1, <2>2
    DEF JwksInv, CacheIsFilled, OneFetch, AnswersAreNewer, OpenCalls, ScopeFollowsClaims
<1>2. JwksTypeOK /\ JwksInv /\ [JwksNext]_jwksVars => JwksInv'
  <2> SUFFICES ASSUME JwksTypeOK, JwksInv, [JwksNext]_jwksVars PROVE JwksInv'
    OBVIOUS
  <2>0. /\ version \in Nat /\ cache.version \in Nat /\ attemptAge \in Nat
        /\ \A c \in Calls : /\ call[c].age \in Nat /\ call[c].age <= Timeout
                            /\ call[c].answer.version \in Nat
    BY KeyCacheAssumption DEF JwksTypeOK, Call, KeySet
  <2>1. ASSUME NEW k \in Kids, Rotate(k) \/ Retire(k) PROVE JwksInv'
    <3>1. /\ published' # {} /\ version' = version + 1
          /\ UNCHANGED <<cache, attemptAge, call>>
      BY <2>1, KeyCacheAssumption DEF Rotate, Retire, JwksTypeOK
    <3>2. CacheIsFilled'
      BY <2>0, <3>1 DEF JwksInv, CacheIsFilled
    <3>3. AnswersAreNewer'
      BY <2>0, <3>1 DEF JwksInv, AnswersAreNewer
    <3>4. OneFetch' /\ OpenCalls' /\ ScopeFollowsClaims'
      BY <3>1 DEF JwksInv, OneFetch, OpenCalls, ScopeFollowsClaims, Fetching
    <3> QED
      BY <3>2, <3>3, <3>4 DEF JwksInv
  <2>2. ASSUME NEW c \in Calls, NEW k \in Kids, Lookup(c, k) PROVE JwksInv'
    BY <2>2, DoneEffect, CallStepPreserves DEF Lookup, Fetching
  <2>3. ASSUME NEW c \in Calls, NEW k \in Kids, StartFetch(c, k) PROVE JwksInv'
    <3>1. /\ attemptAge = Cooldown /\ attemptAge' = 0
          /\ UNCHANGED <<published, version, cache>>
          /\ \A d \in Calls : d # c => call'[d] = call[d]
          /\ call'[c].pc = "fetching" /\ call'[c].age = 0
          /\ call'[c].verdict = "none" /\ call'[c].reached = None
      BY <2>3 DEF StartFetch, RefreshDue, NoCall, JwksTypeOK
    <3>2. \A d \in Calls : ~Fetching(d)
      BY <2>0, <3>1, KeyCacheAssumption DEF JwksInv, OneFetch
    <3>3. \A d \in Calls : Fetching(d)' => d = c
      BY <3>1, <3>2 DEF Fetching
    <3>4. OneFetch'
      BY <3>1, <3>3 DEF OneFetch
    <3>5. CacheIsFilled' /\ OpenCalls' /\ ScopeFollowsClaims'
      BY <3>1 DEF JwksInv, CacheIsFilled, OpenCalls, ScopeFollowsClaims
    <3>6. AnswersAreNewer'
      BY <3>1, <3>3 DEF AnswersAreNewer, Fetching
    <3> QED
      BY <3>4, <3>5, <3>6 DEF JwksInv
  <2>4. ASSUME NEW c \in Calls, Unreadable(c) PROVE JwksInv'
    <3>1. \A d \in Calls : d # c => call'[d] = call[d]
      BY <2>4 DEF Unreadable, Ends, JwksTypeOK
    <3>2. call'[c].pc = "idle"
      BY <2>4 DEF Unreadable, Ends, NoCall, JwksTypeOK
    <3> QED
      BY <2>4, <3>1, <3>2, CallStepPreserves DEF Unreadable, Fetching
  <2>5. ASSUME NEW c \in Calls, RealmAnswers(c) PROVE JwksInv'
    <3>1. /\ UNCHANGED keyVars /\ call[c].pc = "fetching"
          /\ \A d \in Calls : d # c => call'[d] = call[d]
          /\ call'[c].pc = "answered" /\ call'[c].age = call[c].age
          /\ call'[c].verdict = call[c].verdict /\ call'[c].reached = call[c].reached
          /\ call'[c].answer.keys = published /\ call'[c].answer.version = version
      BY <2>5 DEF RealmAnswers, JwksTypeOK, Call
    <3>2. \A d \in Calls : (Fetching(d)' <=> Fetching(d)) /\ call'[d].age = call[d].age
      BY <3>1 DEF Fetching
    <3>3. OneFetch'
      BY <3>1, <3>2 DEF JwksInv, OneFetch, keyVars
    <3>4. CacheIsFilled' /\ OpenCalls' /\ ScopeFollowsClaims'
      BY <3>1 DEF JwksInv, CacheIsFilled, OpenCalls, ScopeFollowsClaims, keyVars
    <3>5. AnswersAreNewer'
      BY <2>0, <3>1 DEF JwksInv, AnswersAreNewer, CacheIsFilled, keyVars
    <3> QED
      BY <3>3, <3>4, <3>5 DEF JwksInv
  <2>6. ASSUME NEW c \in Calls, StoreKeys(c) PROVE JwksInv'
    <3>1. /\ call[c].pc = "answered" /\ cache' = call[c].answer
          /\ UNCHANGED <<published, version, attemptAge>>
          /\ \A d \in Calls : d # c => call'[d] = call[d]
          /\ call'[c].pc \in {"idle", "verified"}
          /\ call'[c].pc # "idle" => call'[c].verdict = "none" /\ call'[c].reached = None
      BY <2>6, DoneEffect DEF StoreKeys
    <3>2. \A d \in Calls : ~Fetching(d)'
      BY <3>1 DEF JwksInv, OneFetch, Fetching
    <3>3. OneFetch' /\ AnswersAreNewer'
      BY <3>2 DEF OneFetch, AnswersAreNewer, Fetching
    <3>4. CacheIsFilled' /\ OpenCalls' /\ ScopeFollowsClaims'
      BY <3>1 DEF JwksInv, CacheIsFilled, AnswersAreNewer, OpenCalls, ScopeFollowsClaims
    <3> QED
      BY <3>3, <3>4 DEF JwksInv
  <2>7. ASSUME NEW c \in Calls, FetchFails(c) PROVE JwksInv'
    BY <2>7, DoneEffect, CallStepPreserves DEF FetchFails, Fetching
  <2>8. ASSUME Tick PROVE JwksInv'
    <3>1. /\ UNCHANGED <<published, version, cache>>
          /\ \A c \in Calls :
                /\ call'[c].pc = call[c].pc /\ call'[c].answer = call[c].answer
                /\ call'[c].verdict = call[c].verdict /\ call'[c].reached = call[c].reached
                /\ call'[c].claims = call[c].claims /\ call'[c].scope = call[c].scope
          /\ \A c \in Calls : Fetching(c) => /\ call'[c].age = call[c].age + 1
                                             /\ call[c].age < Timeout
      BY <2>8 DEF Tick, JwksTypeOK, Call
    <3>2. \A c \in Calls : Fetching(c) => attemptAge' = attemptAge + 1
      BY <2>0, <2>8, <3>1, KeyCacheAssumption DEF Tick, JwksInv, OneFetch
    <3>3. \A c \in Calls : Fetching(c)' <=> Fetching(c)
      BY <3>1 DEF Fetching
    <3>4. OneFetch'
      BY <3>1, <3>2, <3>3 DEF JwksInv, OneFetch
    <3>5. CacheIsFilled' /\ AnswersAreNewer' /\ OpenCalls' /\ ScopeFollowsClaims'
      BY <3>1 DEF JwksInv, CacheIsFilled, AnswersAreNewer, OpenCalls, ScopeFollowsClaims
    <3> QED
      BY <3>4, <3>5 DEF JwksInv
  <2>9. ASSUME NEW c \in Calls, GoesOn(c) PROVE JwksInv'
    <3>1. OpenCalls
      BY DEF JwksInv
    <3> QED
      BY <2>9, <3>1, GoesOnType, GoesOnEffect, CallStepPreserves
  <2>10. ASSUME UNCHANGED <<keyVars, call>> PROVE JwksInv'
    BY <2>10
    DEF keyVars, JwksInv, CacheIsFilled, OneFetch, AnswersAreNewer, OpenCalls,
        ScopeFollowsClaims, Fetching
  <2> QED
    BY <2>1, <2>2, <2>3, <2>4, <2>5, <2>6, <2>7, <2>8, <2>9, <2>10
    DEF JwksNext, CreateTenant, SetAccountState, jwksVars
<1> QED
  BY <1>1, <1>2, JwksTypes, PTL DEF JwksSpec

(* ApiAuthentication!CacheNeverGoesBack: jwk_for_kid fetches without the   *)
(* lock and stores whatever came back, and still the cache never returns   *)
(* to an older key set, because the cooldown outlasts the timeout.         *)
THEOREM CacheIsMonotonic == JwksSpec => CacheNeverGoesBack
<1>1. JwksTypeOK /\ JwksInv /\ [JwksNext]_jwksVars => [cache'.version >= cache.version]_cache
  <2> SUFFICES ASSUME JwksTypeOK, JwksInv, [JwksNext]_jwksVars, cache' # cache
               PROVE  cache'.version >= cache.version
    OBVIOUS
  <2>1. PICK c \in Calls : StoreKeys(c)
    <3>1. \A c \in Calls : GoesOn(c) => UNCHANGED cache
      BY GoesOnType DEF keyVars
    <3> QED
      BY <3>1 DEF JwksNext, Rotate, Retire, Lookup, StartFetch, Unreadable, RealmAnswers,
                  FetchFails, Tick, CreateTenant, SetAccountState, jwksVars, keyVars
  <2>2. cache.version <= call[c].answer.version /\ cache' = call[c].answer
    BY <2>1 DEF StoreKeys, JwksInv, AnswersAreNewer
  <2>3. cache.version \in Nat /\ call[c].answer.version \in Nat
    BY DEF JwksTypeOK, Call, KeySet
  <2> QED
    BY <2>2, <2>3
<1> QED
  BY <1>1, JwksTypes, JwksInvHolds, PTL DEF JwksSpec, CacheNeverGoesBack

(* ApiAuthentication!OutageKeepsKeys: once a fetch has succeeded, no call  *)
(* is told that there are no keys, however often the realm fails later.    *)
THEOREM WarmCacheServes == JwksSpec => OutageKeepsKeys
<1> DEFINE Told(c) == call'[c] # call[c] /\ call'[c].verdict = "unavailable"
<1>1. JwksTypeOK /\ JwksInv /\ [JwksNext]_jwksVars =>
         [\A c \in Calls : Told(c) => cache.version = 0]_jwksVars
  <2> SUFFICES ASSUME JwksTypeOK, JwksInv, [JwksNext]_jwksVars, NEW c \in Calls, Told(c)
               PROVE  cache.version = 0
    OBVIOUS
  <2>0. /\ cache.keys = {} => cache.version = 0
        /\ \A d \in Calls : call[d].pc # "idle" => call[d].verdict # "unavailable"
        /\ \A d \in Calls : call[d].pc = "answered" => call[d].answer.keys # {}
    BY DEF JwksInv, CacheIsFilled, AnswersAreNewer, OpenCalls
  <2>1. ASSUME NEW d \in Calls, NEW k \in Kids, Lookup(d, k) PROVE cache.version = 0
    BY <2>0, <2>1, DoneEffect DEF Lookup
  <2>2. ASSUME NEW d \in Calls, FetchFails(d) PROVE cache.version = 0
    BY <2>0, <2>2, DoneEffect DEF FetchFails
  <2>3. ASSUME NEW d \in Calls, StoreKeys(d) PROVE FALSE
    BY <2>0, <2>3, DoneEffect DEF StoreKeys
  <2>4. ASSUME NEW d \in Calls, NEW k \in Kids, StartFetch(d, k) PROVE FALSE
    BY <2>4 DEF StartFetch, NoCall, JwksTypeOK
  <2>5. ASSUME NEW d \in Calls, RealmAnswers(d) PROVE FALSE
    BY <2>0, <2>5 DEF RealmAnswers, JwksTypeOK, Call
  <2>6. ASSUME NEW d \in Calls, Unreadable(d) PROVE FALSE
    BY <2>6 DEF Unreadable, Ends, NoCall, JwksTypeOK
  <2>7. ASSUME Tick PROVE FALSE
    BY <2>0, <2>7 DEF Tick, Fetching, JwksTypeOK, Call
  <2>8. ASSUME NEW d \in Calls, GoesOn(d) PROVE FALSE
    BY <2>8, GoesOnEffect DEF JwksInv
  <2>9. call' # call
    OBVIOUS
  <2> QED
    BY <2>1, <2>2, <2>3, <2>4, <2>5, <2>6, <2>7, <2>8, <2>9
    DEF JwksNext, Rotate, Retire, CreateTenant, SetAccountState, jwksVars
<1> QED
  BY <1>1, JwksTypes, JwksInvHolds, PTL DEF JwksSpec, OutageKeepsKeys

(* ApiAuthentication!UserReachesOwnTenants: whatever the headers say, a    *)
(* tenant's token reaches only issuers of its tenant, and a token with a   *)
(* user in it only those of a tenant where that user has an account, which *)
(* is active when the tenant is derived; for any tenants, users, accounts, *)
(* links and issuers.                                                      *)
THEOREM UsersStayInTheirTenants == JwksSpec => UserReachesOwnTenants
<1> DEFINE Kept(c) ==
              /\ call[c].pc = "authenticated" /\ call'[c].pc = "scoped"
                 => Allows(call[c].claims, call'[c].scope, active)
              /\ call[c].pc = "scoped" /\ call'[c].reached # None
                 => Allows(call[c].claims, IssuerOf[call'[c].reached], Accounts)
<1>1. JwksTypeOK /\ JwksInv /\ [JwksNext]_jwksVars =>
         [\A c \in Calls : Kept(c)]_jwksVars
  <2> SUFFICES ASSUME JwksTypeOK, JwksInv, [JwksNext]_jwksVars, NEW c \in Calls,
                      call[c].pc \in {"authenticated", "scoped"}
               PROVE  Kept(c)
    OBVIOUS
  <2>1. CASE call'[c] = call[c]
    BY <2>1 DEF JwksInv, OpenCalls
  <2>2. CASE call'[c] # call[c]
    <3>1. \A d \in Calls : \A k, hit, keys : Done(d, k, hit, keys) => d = c
      BY <2>2, DoneEffect
    <3>2. GoesOn(c)
      <4>1. \A d \in Calls : GoesOn(d) => d = c
        BY <2>2, GoesOnEffect DEF JwksInv
      <4>2. \A d \in Calls, k \in Kids : ~Lookup(d, k) /\ ~StartFetch(d, k)
        BY <2>2, <3>1 DEF Lookup, StartFetch, JwksTypeOK
      <4>3. \A d \in Calls : /\ ~Unreadable(d) /\ ~RealmAnswers(d)
                             /\ ~StoreKeys(d) /\ ~FetchFails(d)
        BY <2>2, <3>1
        DEF Unreadable, Ends, RealmAnswers, StoreKeys, FetchFails, Fetching, JwksTypeOK
      <4>4. ~Tick
        BY <2>2 DEF Tick, Fetching, JwksTypeOK
      <4> QED
        BY <2>2, <4>1, <4>2, <4>3, <4>4
        DEF JwksNext, Rotate, Retire, CreateTenant, SetAccountState, jwksVars
    <3>3. CASE call[c].pc = "authenticated"
      <4>1. TenantContext(c) \/ Ends(c, "refused") \/ Ends(c, "served")
        BY <3>2, <3>3
        DEF GoesOn, ValidateClaims, TokenRefused, FirstPartyContext, AcquirePoolForIssuer
      <4>2. \A v : Ends(c, v) => call'[c].pc = "idle"
        BY DEF Ends, NoCall, JwksTypeOK
      <4> QED
        BY <3>3, <4>1, <4>2, DerivedFromClaims
    <3>4. CASE call[c].pc = "scoped"
      <4>1. PICK i \in Issuers \union {None} : AcquirePoolForIssuer(c, i)
        BY <3>2, <3>4
        DEF GoesOn, ValidateClaims, TokenRefused, TenantContext, FirstPartyContext
      <4>2. ASSUME call'[c].reached # None
            PROVE  call'[c].reached = i /\ ExistsForTenant(call[c].scope, i)
        BY <4>1, <4>2 DEF AcquirePoolForIssuer, NoCall, JwksTypeOK
      <4>3. Allows(call[c].claims, call[c].scope, Accounts)
        BY <3>4 DEF JwksInv, ScopeFollowsClaims
      <4> QED
        BY <3>4, <4>2, <4>3 DEF ExistsForTenant
    <3> QED
      BY <3>3, <3>4
  <2> QED
    BY <2>1, <2>2
<1> QED
  BY <1>1, JwksTypes, JwksInvHolds, PTL DEF JwksSpec, UserReachesOwnTenants, Allows, OfUser

-----------------------------------------------------------------------------
(* The list endpoints.                                                     *)

(* Row r comes after row s in a listing.                                   *)
After(r, s) == Below(rows[r].created_at, r, rows[s].created_at, s)

TypeStates == {"absent", "drawn", "live", "retired"}

(* A drawn row has a time, which NoCursor has not; types have two states.  *)
RowsInv ==
    /\ walk.now <= clock
    /\ \A r \in Ids : rows[r].state # "absent" => rows[r].created_at >= 1
    /\ endpoint = "types" => \A r \in Ids : rows[r].state \in TypeStates

(* A steady row matches now, and did at the last request.                  *)
SteadyInv == \A r \in steady : Listed(rows[r], clock) /\ Listed(rows[r], walk.now)

(* What was returned lies at the cursor or before it.                      *)
ReturnedInv ==
    /\ \A r \in walk.returned : Visible(rows[r])
    /\ walk.pc # "done" /\ walk.cursor = NoCursor => walk.returned = {}
    /\ walk.cursor # NoCursor => \A r \in walk.returned : ~AfterCursor(r, walk.cursor)

(* What is still owed to the client lies behind the cursor.                *)
OwedInv ==
    /\ walk.pc = "idle" => steady = {} /\ walk.cursor = NoCursor
    /\ walk.pc \in {"asked", "next"} =>
          \A r \in steady : r \in walk.returned \/ AfterCursor(r, walk.cursor)
    /\ walk.pc = "done" => steady \subseteq walk.returned

(* A page that was read: its rows lie behind the cursor, what is owed is   *)
(* on it or behind all of it, and its copies are as the query found them.  *)
PageInv ==
    /\ walk.pc # "read" => walk.page = {}
    /\ walk.pc = "read" =>
          /\ walk.more => walk.page # {}
          /\ \A p \in walk.page : Visible(rows[p]) /\ AfterCursor(p, walk.cursor)
          /\ \A r \in steady : \/ r \in walk.returned \union walk.page
                               \/ walk.more /\ \A p \in walk.page : After(r, p)
          /\ \A p \in walk.page : Listed(walk.copy[p], walk.now)
          /\ endpoint = "types" => \A p \in walk.page : walk.copy[p].state \in TypeStates

ListInv == RowsInv /\ SteadyInv /\ ReturnedInv /\ OwedInv /\ PageInv /\ ShownAsAsked

(* The rows are totally ordered by (created_at, id).                       *)
LEMMA RowOrder ==
    ASSUME rows \in [Ids -> TableRow], NEW r \in Ids, NEW s \in Ids, NEW q \in Ids
    PROVE  /\ ~After(r, r)
           /\ After(r, s) \/ After(s, r) \/ r = s
           /\ After(r, s) /\ After(s, q) => After(r, q)
<1>1. r \in Nat /\ s \in Nat /\ q \in Nat
  BY ListingAssumption
<1>2. /\ rows[r].created_at \in Nat /\ rows[s].created_at \in Nat
      /\ rows[q].created_at \in Nat
  BY ListingAssumption DEF TableRow
<1> QED
  BY <1>1, <1>2 DEF After, Below

(* Of two rows of a set the later one has more of the set ahead of it.     *)
LEMMA RankOrder ==
    ASSUME rows \in [Ids -> TableRow], NEW S \in SUBSET Ids, NEW r \in S, NEW s \in S
    PROVE  /\ Ahead(r, S) \in Nat
           /\ After(r, s) => Ahead(s, S) < Ahead(r, S)
<1> DEFINE F(x) == {y \in S : After(x, y)}
<1>1. IsFiniteSet(S)
  BY ListingAssumption, FS_Subset
<1>2. \A x \in S : IsFiniteSet(F(x)) /\ Ahead(x, S) = Cardinality(F(x))
  <2> SUFFICES ASSUME NEW x \in S
               PROVE  IsFiniteSet(F(x)) /\ Ahead(x, S) = Cardinality(F(x))
    OBVIOUS
  <2>1. F(x) \in SUBSET S
    OBVIOUS
  <2>2. Ahead(x, S) = Cardinality(F(x))
    BY DEF Ahead, After
  <2> QED
    BY <1>1, <2>1, <2>2, FS_Subset
<1>3. Ahead(r, S) \in Nat /\ Ahead(s, S) \in Nat
  BY <1>2, FS_CardinalityType
<1>4. ASSUME After(r, s) PROVE Ahead(s, S) < Ahead(r, S)
  <2>1. F(s) \in SUBSET F(r)
    BY <1>4, RowOrder
  <2>2. s \in F(r) /\ s \notin F(s)
    BY <1>4, RowOrder
  <2>3. F(s) # F(r)
    BY <2>2
  <2> HIDE DEF F
  <2>4. Cardinality(F(s)) <= Cardinality(F(r)) /\ Cardinality(F(s)) # Cardinality(F(r))
    BY <1>2, <2>1, <2>3, FS_Subset
  <2> QED
    BY <1>2, <1>3, <2>4
<1> QED
  BY <1>3, <1>4

(* The rows of a set take the ranks from 0 to its size less one.           *)
LEMMA RanksAreTaken ==
    ASSUME rows \in [Ids -> TableRow], NEW S \in SUBSET Ids
    PROVE  /\ IsFiniteSet(S) /\ Cardinality(S) \in Nat
           /\ \A r \in S : Ahead(r, S) \in 0 .. Cardinality(S) - 1
           /\ \A n \in 0 .. Cardinality(S) - 1 : \E r \in S : Ahead(r, S) = n
<1> DEFINE N == Cardinality(S)
           T == 0 .. N - 1
           f == [r \in S |-> Ahead(r, S)]
<1>1. IsFiniteSet(S) /\ N \in Nat
  BY ListingAssumption, FS_Subset, FS_CardinalityType
<1>2. \A r \in S : Ahead(r, S) \in T
  <2> SUFFICES ASSUME NEW r \in S PROVE Ahead(r, S) \in T
    OBVIOUS
  <2> DEFINE A == {y \in S : After(r, y)}
  <2>1. A \in SUBSET S /\ r \notin A
    BY RowOrder
  <2>2. Ahead(r, S) = Cardinality(A)
    BY DEF Ahead, After
  <2>3. Cardinality(A) <= N /\ Cardinality(A) # N
    <3> HIDE DEF A
    <3> QED
      BY <1>1, <2>1, FS_Subset
  <2>4. Ahead(r, S) \in Nat
    BY RankOrder
  <2> QED
    BY <1>1, <2>2, <2>3, <2>4
<1>3. \A r, s \in S : Ahead(r, S) = Ahead(s, S) => r = s
  <2> SUFFICES ASSUME NEW r \in S, NEW s \in S, r # s PROVE Ahead(r, S) # Ahead(s, S)
    OBVIOUS
  <2>1. After(r, s) \/ After(s, r)
    BY RowOrder
  <2>2. Ahead(r, S) \in Nat /\ Ahead(s, S) \in Nat
    BY RankOrder
  <2>3. CASE After(r, s)
    BY <2>2, <2>3, RankOrder
  <2>4. CASE After(s, r)
    BY <2>2, <2>4, RankOrder
  <2> QED
    BY <2>1, <2>3, <2>4
<1>4. f \in Injection(S, T)
  <2>1. f \in [S -> T]
    BY <1>2
  <2>2. \A r, s \in S : f[r] = f[s] => r = s
    BY <1>3
  <2> HIDE DEF f, T
  <2> QED
    BY <2>1, <2>2 DEF Injection, IsInjective
<1>5. IsFiniteSet(T) /\ Cardinality(T) = N
  <2> HIDE DEF N
  <2>1. 0 \in Int /\ N - 1 \in Int
    BY <1>1
  <2>2. /\ IsFiniteSet(0 .. N - 1)
        /\ Cardinality(0 .. N - 1) = IF 0 > N - 1 THEN 0 ELSE N - 1 - 0 + 1
    BY <2>1, FS_Interval
  <2> QED
    BY <1>1, <2>2
<1>6. f \in Surjection(S, T)
  <2> HIDE DEF f, T
  <2> QED
    BY <1>4, <1>5, FS_Injection
<1>7. \A n \in T : \E r \in S : f[r] = n
  BY <1>6 DEF Surjection
<1> QED
  BY <1>1, <1>2, <1>7

(* A page: at most Limit rows, the first ones of the set; there is one if  *)
(* the set has any, and what is left out lies behind all of it.            *)
LEMMA PageFacts ==
    ASSUME rows \in [Ids -> TableRow], NEW S \in SUBSET Ids
    PROVE  /\ PageOf(S) \subseteq S
           /\ Cardinality(PageOf(S)) <= Limit
           /\ Cardinality(S) > Limit => PageOf(S) # {}
           /\ \A r \in S \ PageOf(S) :
                 Cardinality(S) > Limit /\ \A p \in PageOf(S) : After(r, p)
<1> DEFINE P == PageOf(S)
           T == 0 .. Limit - 1
           f == [r \in P |-> Ahead(r, S)]
<1>1. P \subseteq S /\ P \in SUBSET Ids
  BY DEF PageOf
<1>2. \A r \in S : Ahead(r, S) \in 0 .. Cardinality(S) - 1 /\ Cardinality(S) \in Nat
  BY RanksAreTaken
<1>3. Cardinality(P) <= Limit
  <2>1. \A r \in P : f[r] \in T
    BY <1>2, ListingAssumption DEF PageOf
  <2>2. \A r, s \in P : f[r] = f[s] => r = s
    <3> SUFFICES ASSUME NEW r \in P, NEW s \in P, r # s PROVE f[r] # f[s]
      OBVIOUS
    <3>1. After(r, s) \/ After(s, r)
      BY <1>1, RowOrder
    <3>2. Ahead(r, S) \in Nat /\ Ahead(s, S) \in Nat
      BY <1>1, RankOrder
    <3>3. Ahead(r, S) # Ahead(s, S)
      BY <1>1, <3>1, <3>2, RankOrder
    <3> QED
      BY <3>3
  <2>3. f \in Injection(P, T)
    <3>1. f \in [P -> T]
      BY <2>1
    <3> QED
      BY <2>2, <3>1 DEF Injection, IsInjective
  <2>4. IsFiniteSet(T) /\ Cardinality(T) = Limit
    BY ListingAssumption, FS_Interval
  <2> HIDE DEF f, T, P
  <2> QED
    BY <2>3, <2>4, FS_Injection
<1>4. ASSUME Cardinality(S) > Limit PROVE P # {}
  <2>1. 0 \in 0 .. Cardinality(S) - 1
    BY <1>4, ListingAssumption, RanksAreTaken
  <2>2. PICK r \in S : Ahead(r, S) = 0
    BY <2>1, RanksAreTaken
  <2> QED
    BY <2>2, ListingAssumption DEF PageOf
<1>5. ASSUME NEW r \in S \ P
      PROVE  Cardinality(S) > Limit /\ \A p \in P : After(r, p)
  <2>1. Ahead(r, S) >= Limit /\ Ahead(r, S) \in Nat
    BY <1>2, ListingAssumption DEF PageOf
  <2>2. Cardinality(S) > Limit
    BY <1>2, <2>1, ListingAssumption
  <2>3. ASSUME NEW p \in P PROVE After(r, p)
    <3>1. Ahead(p, S) < Limit /\ Ahead(p, S) \in Nat /\ p \in S /\ r # p
      BY <1>2 DEF PageOf
    <3>2. ~After(p, r)
      BY <2>1, <3>1, RankOrder, ListingAssumption
    <3> QED
      BY <3>1, <3>2, RowOrder
  <2> QED
    BY <2>2, <2>3
<1> QED
  BY <1>1, <1>3, <1>4, <1>5

(* page.items.last() is a row of the page that none comes after.           *)
LEMMA LastFacts ==
    ASSUME rows \in [Ids -> TableRow], NEW P \in SUBSET Ids, P # {}
    PROVE  LastOf(P) \in P /\ \A p \in P : ~After(p, LastOf(P))
<1> DEFINE n == Cardinality(P) - 1
<1>1. /\ IsFiniteSet(P) /\ Cardinality(P) \in Nat
      /\ \A r \in P : Ahead(r, P) \in 0 .. n
      /\ \A m \in 0 .. n : \E r \in P : Ahead(r, P) = m
  BY RanksAreTaken
<1>2. n \in 0 .. n
  BY <1>1, FS_EmptySet
<1>3. \E r \in P : Ahead(r, P) = n
  BY <1>1, <1>2
<1>4. LastOf(P) \in P /\ Ahead(LastOf(P), P) = n
  BY <1>3 DEF LastOf
<1>5. ASSUME NEW p \in P PROVE ~After(p, LastOf(P))
  BY <1>1, <1>4, RankOrder
<1> QED
  BY <1>4, <1>5

(* The states a row moves between, and the one it is inserted with.        *)
LEMMA MoveFacts ==
    ASSUME endpoint \in Endpoints, NEW x, NEW s, <<x, s>> \in Moves(endpoint)
    PROVE  /\ x \notin {"absent", "drawn"} /\ s \notin {"absent", "drawn", "pending"}
           /\ endpoint = "types" => s \in TypeStates
<1> USE DEF Moves, TypeStates
<1>1. CASE endpoint = "issuers"
  BY <1>1
<1>2. CASE endpoint = "types"
  BY <1>2
<1>3. CASE endpoint = "credentials"
  BY <1>3
<1>4. CASE endpoint = "accounts"
  BY <1>4
<1>5. CASE endpoint = "invitations"
  BY <1>5
<1>6. CASE endpoint = "offers"
  BY <1>6
<1> QED
  BY <1>1, <1>2, <1>3, <1>4, <1>5, <1>6, ListingAssumption

LEMMA FirstStateFacts ==
    ASSUME endpoint \in Endpoints
    PROVE  /\ FirstState(endpoint) \in RowStates \ {"absent", "drawn"}
           /\ endpoint = "types" => FirstState(endpoint) \in TypeStates
  BY ListingAssumption DEF FirstState, RowStates, TypeStates

(* A row that matches matched before as well, unless it was to expire.     *)
LEMMA ListedEarlier ==
    ASSUME endpoint \in Endpoints, NEW row \in TableRow,
           NEW early \in Nat, NEW late \in Nat, early <= late, Listed(row, late),
           row.state # "pending" \/ filter # "expired"
    PROVE  Listed(row, early)
<1>1. row.created_at \in Nat /\ Lifetime \in Nat
  BY ListingAssumption DEF TableRow
<1>2. Expired(row, early) => Expired(row, late)
  BY <1>1 DEF Expired
<1>3. OfferListed(row, filter, late) => OfferListed(row, filter, early)
  BY <1>2 DEF OfferListed
<1> QED
  BY <1>3, ListingAssumption DEF Listed

(* What a step of the table leaves as it is: the time of a visible row.    *)
KeysStay ==
    \A q \in Ids : Visible(rows[q]) =>
        Visible(rows'[q]) /\ rows'[q].created_at = rows[q].created_at

(* A step of the table or of the clock keeps what is said of the walk.     *)
LEMMA TablePreserves ==
    ASSUME ListTypeOK, ListInv, UNCHANGED <<endpoint, filter, walk>>,
           steady' \subseteq steady, KeysStay
    PROVE  ReturnedInv' /\ OwedInv' /\ PageInv' /\ ShownAsAsked'
<1>1. /\ \A r \in steady : r \in Ids /\ Visible(rows[r])
      /\ \A r \in walk.returned : r \in Ids /\ Visible(rows[r])
      /\ \A p \in walk.page : p \in Ids
      /\ walk.pc = "read" => \A p \in walk.page : Visible(rows[p])
  BY DEF ListTypeOK, Walk, ListInv, SteadyInv, ReturnedInv, PageInv, Listed
<1>2. \A q \in Ids : Visible(rows[q]) =>
         /\ Visible(rows[q])'
         /\ AfterCursor(q, walk.cursor)' <=> AfterCursor(q, walk.cursor)
  BY DEF KeysStay, AfterCursor, Visible
<1>3. \A q, p \in Ids : Visible(rows[q]) /\ Visible(rows[p]) => (After(q, p)' <=> After(q, p))
  BY DEF KeysStay, After
<1>4. ReturnedInv'
  BY <1>1, <1>2 DEF ListInv, ReturnedInv
<1>5. OwedInv'
  BY <1>1, <1>2 DEF ListInv, OwedInv
<1>6. PageInv'
  <2>1. \A row, now : Listed(row, now)' <=> Listed(row, now)
    BY DEF Listed
  <2>2. walk'.pc # "read" => walk'.page = {}
    BY DEF ListInv, PageInv
  <2> SUFFICES ASSUME walk.pc = "read" PROVE PageInv'
    BY <2>2 DEF PageInv
  <2>3. /\ walk.more => walk.page # {}
        /\ \A p \in walk.page : Visible(rows[p])' /\ AfterCursor(p, walk.cursor)'
    BY <1>1, <1>2 DEF ListInv, PageInv
  <2>4. \A r \in steady' : \/ r \in walk.returned \union walk.page
                           \/ walk.more /\ \A p \in walk.page : After(r, p)'
    BY <1>1, <1>3 DEF ListInv, PageInv
  <2>5. /\ \A p \in walk.page : Listed(walk.copy[p], walk.now)'
        /\ endpoint = "types" => \A p \in walk.page : walk.copy[p].state \in TypeStates
    BY DEF ListInv, PageInv, Listed
  <2> QED
    BY <2>3, <2>4, <2>5 DEF PageInv
<1>7. ShownAsAsked'
  BY DEF ListInv, ShownAsAsked
<1> QED
  BY <1>4, <1>5, <1>6, <1>7

(* Drawing, inserting and changing a row.                                  *)
LEMMA TableStep ==
    ASSUME ListTypeOK, ListInv, NEW r \in Ids,
           DrawRow(r) \/ InsertRow(r) \/ \E s \in RowStates : ChangeRow(r, s)
    PROVE  ListTypeOK' /\ ListInv'
<1>0. clock \in Nat /\ clock >= 1 /\ walk.now \in Nat /\ walk.now <= clock
  BY ListingAssumption DEF ListTypeOK, ListInv, RowsInv, Walk
<1>1. /\ UNCHANGED <<endpoint, filter, clock, walk>> /\ steady' \subseteq steady
      /\ \A q \in Ids : q # r => rows'[q] = rows[q]
  BY DEF DrawRow, InsertRow, ChangeRow, Remain, ListTypeOK
<1> DEFINE WellFormed ==
              /\ rows'[r] \in TableRow
              /\ rows'[r].state # "absent" => rows'[r].created_at >= 1
              /\ endpoint = "types" => rows'[r].state \in TypeStates
              /\ Visible(rows[r]) =>
                    Visible(rows'[r]) /\ rows'[r].created_at = rows[r].created_at
<1>2. WellFormed
  <2>1. CASE DrawRow(r)
    <3>1. rows'[r] = [state |-> "drawn", created_at |-> clock] /\ rows[r].state = "absent"
      BY <2>1 DEF DrawRow, ListTypeOK
    <3> QED
      BY <1>0, <3>1 DEF ListTypeOK, TableRow, RowStates, TypeStates, Visible
  <2>2. CASE InsertRow(r)
    <3>1. /\ rows'[r] = [rows[r] EXCEPT !.state = FirstState(endpoint)]
          /\ rows[r].state = "drawn"
      BY <2>2 DEF InsertRow, ListTypeOK
    <3>2. rows[r] \in TableRow /\ rows[r].created_at >= 1
      BY <3>1 DEF ListTypeOK, ListInv, RowsInv
    <3> QED
      BY <3>1, <3>2, FirstStateFacts DEF ListTypeOK, TableRow, Visible
  <2>3. ASSUME NEW s \in RowStates, ChangeRow(r, s) PROVE WellFormed
    <3>1. /\ rows'[r] = [rows[r] EXCEPT !.state = s]
          /\ <<rows[r].state, s>> \in Moves(endpoint)
      BY <2>3 DEF ChangeRow, ListTypeOK
    <3>2. /\ rows[r].state \notin {"absent", "drawn"}
          /\ s \notin {"absent", "drawn"}
          /\ endpoint = "types" => s \in TypeStates
      BY <3>1, MoveFacts DEF ListTypeOK
    <3>3. rows[r] \in TableRow /\ rows[r].created_at >= 1
      BY <3>2 DEF ListTypeOK, ListInv, RowsInv
    <3> QED
      BY <3>1, <3>2, <3>3 DEF TableRow, Visible
  <2> QED
    BY <2>1, <2>2, <2>3
<1>3. ListTypeOK'
  <2>1. rows' \in [Ids -> TableRow]
    BY <1>1, <1>2 DEF ListTypeOK, DrawRow, InsertRow, ChangeRow
  <2> QED
    BY <1>1, <2>1 DEF ListTypeOK
<1>4. KeysStay
  BY <1>1, <1>2 DEF KeysStay
<1>5. RowsInv'
  BY <1>1, <1>2 DEF ListInv, RowsInv
<1>6. SteadyInv'
  <2> SUFFICES ASSUME NEW q \in steady'
               PROVE  Listed(rows'[q], clock) /\ Listed(rows'[q], walk.now)
    BY <1>1 DEF SteadyInv, Listed
  <2>1. q \in Ids /\ Listed(rows[q], clock) /\ Listed(rows[q], walk.now)
    BY <1>1 DEF ListTypeOK, ListInv, SteadyInv
  <2>2. CASE q # r
    BY <1>1, <2>1, <2>2
  <2>3. CASE q = r
    <3>1. Visible(rows[r])
      BY <2>1, <2>3 DEF Listed
    <3>2. PICK s \in RowStates : ChangeRow(r, s)
      BY <3>1 DEF DrawRow, InsertRow, Visible
    <3>3. Listed(rows'[r], clock)
      BY <1>1, <2>3, <3>2 DEF ChangeRow, Remain
    <3>4. rows'[r].state # "pending"
      BY <3>2, MoveFacts DEF ChangeRow, ListTypeOK, TableRow
    <3>5. Listed(rows'[r], walk.now)
      BY <1>0, <1>2, <3>3, <3>4, ListedEarlier DEF ListTypeOK
    <3> QED
      BY <2>3, <3>3, <3>5
  <2> QED
    BY <2>2, <2>3
<1> QED
  BY <1>1, <1>3, <1>4, <1>5, <1>6, TablePreserves DEF ListInv

(* The clock.                                                              *)
LEMMA PassStep ==
    ASSUME ListTypeOK, ListInv, Pass
    PROVE  ListTypeOK' /\ ListInv'
<1>1. /\ UNCHANGED <<endpoint, filter, rows, walk>> /\ steady' \subseteq steady
      /\ clock' = clock + 1 /\ clock < MaxTime
      /\ \A r \in steady' : Listed(rows[r], clock')
  BY DEF Pass, Remain
<1>2. ListTypeOK'
  BY <1>1, ListingAssumption DEF ListTypeOK
<1>3. KeysStay
  BY <1>1 DEF KeysStay
<1>4. RowsInv'
  BY <1>1, ListingAssumption DEF ListTypeOK, ListInv, RowsInv, Walk
<1>5. SteadyInv'
  BY <1>1 DEF ListInv, SteadyInv, Listed
<1> QED
  BY <1>1, <1>2, <1>3, <1>4, <1>5, TablePreserves DEF ListInv

(* A request is made: without a cursor, or with that of the last page.     *)
LEMMA AskStep ==
    ASSUME ListTypeOK, ListInv, AskFirst \/ AskNext
    PROVE  ListTypeOK' /\ ListInv'
<1>1. /\ UNCHANGED <<endpoint, filter, rows, clock>>
      /\ walk.pc \in {"idle", "next"}
      /\ walk' = [walk EXCEPT !.pc = "asked", !.now = clock]
  BY DEF AskFirst, AskNext
<1>2. /\ walk'.pc = "asked" /\ walk'.now = clock /\ walk'.cursor = walk.cursor
      /\ walk'.page = walk.page /\ walk'.returned = walk.returned
      /\ walk'.shown = walk.shown
  BY <1>1 DEF ListTypeOK, Walk
<1>3. walk' \in Walk
  <2>1. clock \in 0 .. MaxTime /\ walk \in Walk
    BY ListingAssumption DEF ListTypeOK
  <2> QED
    BY <1>1, <2>1 DEF Walk
<1>4. steady' \subseteq Ids /\ \A r \in steady' : Listed(rows[r], clock)
  BY DEF AskFirst, AskNext, ListTypeOK, ListInv, SteadyInv
<1>5. ListTypeOK'
  BY <1>1, <1>2, <1>3, <1>4 DEF ListTypeOK
<1>6. RowsInv'
  BY <1>1, <1>2, ListingAssumption DEF ListInv, RowsInv, ListTypeOK
<1>7. SteadyInv'
  BY <1>1, <1>2, <1>4 DEF SteadyInv, Listed
<1>8. ReturnedInv'
  BY <1>1, <1>2 DEF ListInv, ReturnedInv, AfterCursor
<1>9. OwedInv'
  <2>1. \A r \in steady' : r \in walk.returned \/ AfterCursor(r, walk.cursor)
    BY DEF AskFirst, AskNext, ListInv, OwedInv, AfterCursor
  <2> QED
    BY <1>1, <1>2, <2>1 DEF OwedInv, AfterCursor
<1>10. PageInv' /\ ShownAsAsked'
  BY <1>1, <1>2 DEF ListInv, PageInv, ShownAsAsked
<1> QED
  BY <1>5, <1>6, <1>7, <1>8, <1>9, <1>10 DEF ListInv

(* The SELECT.                                                             *)
LEMMA QueryStep ==
    ASSUME ListTypeOK, ListInv, Query
    PROVE  ListTypeOK' /\ ListInv'
<1> DEFINE C == Candidates
           page == PageOf(C)
           copy == [r \in Ids |-> IF r \in page THEN rows[r] ELSE NoRows[r]]
           more == Cardinality(C) > Limit
<1>1. /\ UNCHANGED <<endpoint, filter, rows, clock, steady>> /\ walk.pc = "asked"
      /\ walk' = [walk EXCEPT !.pc = "read", !.page = page, !.copy = copy, !.more = more]
  BY DEF Query
<1>2. C \in SUBSET Ids /\ rows \in [Ids -> TableRow]
  BY DEF Candidates, ListTypeOK
<1>3. /\ page \subseteq C /\ Cardinality(page) <= Limit
      /\ more => page # {}
      /\ \A r \in C \ page : more /\ \A p \in page : After(r, p)
  <2> HIDE DEF C
  <2> QED
    BY <1>2, PageFacts
<1>4. \A r \in C : Listed(rows[r], walk.now) /\ AfterCursor(r, walk.cursor)
  BY DEF Candidates
<1>5. copy \in [Ids -> TableRow] /\ \A p \in page : copy[p] = rows[p]
  <2>1. \A r \in Ids : NoRows[r] \in TableRow
    BY ListingAssumption DEF NoRows, TableRow, RowStates
  <2> HIDE DEF page
  <2> QED
    BY <1>2, <1>3, <2>1
<1>6. more \in BOOLEAN
  OBVIOUS
<1> HIDE DEF C, page, copy, more
<1>7. /\ walk'.pc = "read" /\ walk'.page = page /\ walk'.copy = copy /\ walk'.more = more
      /\ walk'.now = walk.now /\ walk'.cursor = walk.cursor
      /\ walk'.returned = walk.returned /\ walk'.shown = walk.shown
  BY <1>1 DEF ListTypeOK, Walk
<1>8. walk' \in Walk
  BY <1>1, <1>2, <1>3, <1>5, <1>6 DEF ListTypeOK, Walk
<1>9. ListTypeOK'
  BY <1>1, <1>3, <1>7, <1>8 DEF ListTypeOK
<1>10. RowsInv' /\ ShownAsAsked'
  BY <1>1, <1>7 DEF ListInv, RowsInv, ShownAsAsked
<1>11. SteadyInv'
  BY <1>1, <1>7 DEF ListInv, SteadyInv, Listed
<1>12. ReturnedInv' /\ OwedInv'
  BY <1>1, <1>7 DEF ListInv, ReturnedInv, OwedInv, AfterCursor
<1>13. PageInv'
  <2>1. \A p \in page : Visible(rows[p]) /\ AfterCursor(p, walk.cursor) /\ p \in Ids
    BY <1>2, <1>3, <1>4 DEF Listed
  <2>2. ASSUME NEW r \in steady
        PROVE  \/ r \in walk.returned \union page
               \/ more /\ \A p \in page : After(r, p)
    <3>1. Listed(rows[r], walk.now) /\ r \in Ids
      BY DEF ListInv, SteadyInv, ListTypeOK
    <3>2. r \in walk.returned \/ AfterCursor(r, walk.cursor)
      BY <1>1 DEF ListInv, OwedInv
    <3>3. r \in walk.returned \/ r \in C
      BY <3>1, <3>2 DEF C, Candidates
    <3> QED
      BY <1>3, <3>3
  <2>3. \A p \in page : Listed(copy[p], walk.now)
    BY <1>3, <1>4, <1>5
  <2>4. endpoint = "types" => \A p \in page : copy[p].state \in TypeStates
    BY <1>5, <2>1 DEF ListInv, RowsInv
  <2> QED
    BY <1>1, <1>3, <1>7, <2>1, <2>2, <2>3, <2>4 DEF PageInv, AfterCursor, After, Listed
<1> QED
  BY <1>9, <1>10, <1>11, <1>12, <1>13 DEF ListInv

(* The answer, when the states it shows fit the filter.                    *)
LEMMA AnswerStep ==
    ASSUME ListTypeOK, ListInv, NEW states \in [Ids -> Shown], Answer(states),
           filter # "any" => \A p \in walk.page : states[p] = filter
    PROVE  ListTypeOK' /\ ListInv'
<1> DEFINE P == walk.page
           last == LastOf(P)
           cursor == IF walk.more THEN [at |-> rows[last].created_at, id |-> last]
                                  ELSE NoCursor
           shown == {states[r] : r \in P}
<1>1. /\ UNCHANGED <<endpoint, filter, rows, clock, steady>> /\ walk.pc = "read"
      /\ walk' = [walk EXCEPT !.pc = IF walk.more THEN "next" ELSE "done",
                              !.cursor = cursor, !.shown = shown,
                              !.returned = walk.returned \union P,
                              !.page = {}, !.copy = NoRows]
  BY DEF Answer, ListTypeOK, Walk
<1>2. P \in SUBSET Ids /\ rows \in [Ids -> TableRow] /\ walk.more \in BOOLEAN
  BY DEF ListTypeOK, Walk
<1>3. /\ walk.more => P # {}
      /\ \A p \in P : Visible(rows[p]) /\ AfterCursor(p, walk.cursor)
      /\ \A r \in steady : \/ r \in walk.returned \union P
                           \/ walk.more /\ \A p \in P : After(r, p)
  BY <1>1 DEF ListInv, PageInv
<1>4. walk.more => last \in P /\ \A p \in P : ~After(p, last)
  <2> HIDE DEF P
  <2> QED
    BY <1>2, <1>3, LastFacts
<1>5. shown \in SUBSET Shown /\ (filter # "any" => shown \subseteq {filter})
  BY <1>2
<1> HIDE DEF P, last, shown
<1>6. cursor \in Cursor /\ (walk.more => cursor # NoCursor)
  <2>1. NoCursor \in Cursor
    BY DEF Cursor
  <2>2. ASSUME walk.more
        PROVE  [at |-> rows[last].created_at, id |-> last] \in Cursor \ {NoCursor}
    <3>1. last \in Ids /\ rows[last] \in TableRow /\ Visible(rows[last])
      BY <1>2, <1>3, <1>4, <2>2
    <3>2. rows[last].created_at \in 0 .. MaxTime /\ rows[last].created_at >= 1
      BY <3>1 DEF TableRow, ListInv, RowsInv, Visible
    <3> QED
      BY <3>1, <3>2 DEF Cursor, NoCursor
  <2> QED
    BY <2>1, <2>2
<1>7. ASSUME walk.more
      PROVE  \A r \in Ids : AfterCursor(r, cursor) <=> After(r, last)
  BY <1>6, <1>7 DEF AfterCursor, After
<1> HIDE DEF cursor
<1>8. /\ walk'.pc = IF walk.more THEN "next" ELSE "done"
      /\ walk'.cursor = cursor /\ walk'.shown = shown /\ walk'.page = {}
      /\ walk'.returned = walk.returned \union P /\ walk'.now = walk.now
  BY <1>1 DEF ListTypeOK, Walk
<1>9. ListTypeOK'
  <2>1. NoRows \in [Ids -> TableRow]
    BY ListingAssumption DEF NoRows, TableRow, RowStates
  <2>2. walk' \in Walk
    BY <1>1, <1>2, <1>5, <1>6, <2>1 DEF ListTypeOK, Walk
  <2>3. Cardinality({}) <= Limit
    BY ListingAssumption, FS_EmptySet
  <2> QED
    BY <1>1, <1>8, <2>2, <2>3 DEF ListTypeOK
<1>10. RowsInv' /\ ShownAsAsked'
  BY <1>1, <1>5, <1>8 DEF ListInv, RowsInv, ShownAsAsked
<1>11. SteadyInv'
  BY <1>1, <1>8 DEF ListInv, SteadyInv, Listed
<1>12. ReturnedInv'
  <2>1. \A r \in walk.returned \union P : r \in Ids /\ Visible(rows[r])
    BY <1>2, <1>3 DEF ListInv, ReturnedInv, ListTypeOK, Walk
  <2>2. ASSUME walk.more, NEW r \in walk.returned PROVE ~After(r, last)
    <3>1. walk.cursor # NoCursor /\ ~AfterCursor(r, walk.cursor)
      BY <1>1, <2>2 DEF ListInv, ReturnedInv
    <3>2. last \in P /\ AfterCursor(last, walk.cursor)
      BY <1>3, <1>4, <2>2
    <3>3. r \in Nat /\ last \in Nat /\ walk.cursor.id \in Nat
      BY <1>2, <2>1, <3>1, <3>2, ListingAssumption DEF ListTypeOK, Walk, Cursor
    <3>4. /\ rows[r].created_at \in Nat /\ rows[last].created_at \in Nat
          /\ walk.cursor.at \in Nat
      BY <1>2, <2>1, <3>1, <3>2, ListingAssumption
      DEF ListTypeOK, Walk, Cursor, TableRow
    <3> QED
      BY <3>1, <3>2, <3>3, <3>4 DEF AfterCursor, After, Below
  <2>3. walk.more => \A r \in walk.returned \union P : ~AfterCursor(r, cursor)
    BY <1>4, <1>7, <2>1, <2>2
  <2>4. cursor # NoCursor => walk.more
    BY DEF cursor
  <2> QED
    BY <1>1, <1>6, <1>8, <2>1, <2>3, <2>4 DEF ReturnedInv, AfterCursor
<1>13. OwedInv'
  <2>1. ASSUME walk.more, NEW r \in steady
        PROVE  r \in walk.returned \union P \/ AfterCursor(r, cursor)
    BY <1>3, <1>4, <1>7, <2>1 DEF ListTypeOK
  <2>2. ~walk.more => steady \subseteq walk.returned \union P
    BY <1>3
  <2> QED
    BY <1>1, <1>8, <2>1, <2>2 DEF OwedInv, AfterCursor
<1>14. PageInv'
  BY <1>8 DEF PageInv
<1> QED
  BY <1>9, <1>10, <1>11, <1>12, <1>13, <1>14 DEF ListInv

(* The six handlers show their rows in a state that fits the filter.       *)
LEMMA HandlerStep ==
    ASSUME ListTypeOK, ListInv,
           \/ ListIssuers \/ ListTypes \/ ListCredentials
           \/ ListAccounts \/ ListInvitations \/ ListOffers
    PROVE  ListTypeOK' /\ ListInv'
<1>1. walk.pc = "read" /\ walk.copy \in [Ids -> TableRow] /\ walk.page \subseteq Ids
  BY DEF ListIssuers, ListTypes, ListCredentials, ListAccounts, ListInvitations,
         ListOffers, Answer, ListTypeOK, Walk
<1>2. /\ \A p \in walk.page : Listed(walk.copy[p], walk.now)
      /\ endpoint = "types" => \A p \in walk.page : walk.copy[p].state \in TypeStates
  BY <1>1 DEF ListInv, PageInv
<1>3. Stored \in [Ids -> Shown] /\ \A p \in Ids : Stored[p] = walk.copy[p].state
  BY <1>1 DEF Stored, Shown, TableRow
<1>4. \A now : [r \in Ids |-> Observed(walk.copy[r], now)] \in [Ids -> Shown]
  BY <1>1 DEF Observed, Shown, TableRow
<1>5. CASE ListIssuers \/ ListAccounts
  <2>1. filter = "any" /\ Answer(Stored)
    BY <1>5 DEF ListIssuers, ListAccounts, ListTypeOK, Filters
  <2> QED
    BY <1>3, <2>1, AnswerStep
<1>6. CASE ListTypes
  <2>1. endpoint = "types" /\ filter \in {"any", "live"} /\ Answer(Stored)
    BY <1>6 DEF ListTypes, ListTypeOK, Filters
  <2>2. filter # "any" => \A p \in walk.page : walk.copy[p].state = filter
    BY <1>2, <2>1 DEF Listed, TypeListed, Visible, TypeStates
  <2> QED
    BY <1>1, <1>3, <2>1, <2>2, AnswerStep
<1>7. CASE ListCredentials
  <2>1. endpoint = "credentials" /\ Answer(Stored)
    BY <1>7 DEF ListCredentials
  <2>2. filter # "any" => \A p \in walk.page : walk.copy[p].state = filter
    BY <1>2, <2>1 DEF Listed, CredentialListed
  <2> QED
    BY <1>1, <1>3, <2>1, <2>2, AnswerStep
<1>8. CASE ListInvitations
  <2>1. filter = "any" /\ Answer([r \in Ids |-> Observed(walk.copy[r], clock)])
    BY <1>8 DEF ListInvitations, ListTypeOK, Filters
  <2> QED
    BY <1>4, <2>1, AnswerStep
<1>9. CASE ListOffers
  <2> DEFINE states == [r \in Ids |-> Observed(walk.copy[r], walk.now)]
  <2>1. endpoint = "offers" /\ Answer(states)
    BY <1>9 DEF ListOffers
  <2>2. filter # "any" => \A p \in walk.page : Observed(walk.copy[p], walk.now) = filter
    BY <1>2, <2>1 DEF Listed, OfferListed, Observed
  <2>3. filter # "any" => \A p \in walk.page : states[p] = filter
    BY <1>1, <2>2
  <2>4. states \in [Ids -> Shown]
    BY <1>4
  <2> HIDE DEF states
  <2> QED
    BY <2>1, <2>3, <2>4, AnswerStep
<1> QED
  BY <1>5, <1>6, <1>7, <1>8, <1>9

(* The walks keep their types and their invariant.                         *)
LEMMA ListInvHolds == ListSpec => [](ListTypeOK /\ ListInv)
<1>1. ListInit => ListTypeOK /\ ListInv
  <2> SUFFICES ASSUME ListInit PROVE ListTypeOK /\ ListInv
    OBVIOUS
  <2>1. NoRows \in [Ids -> TableRow] /\ \A r \in Ids : NoRows[r].state = "absent"
    BY ListingAssumption DEF NoRows, TableRow, RowStates
  <2>2. walk \in Walk
    BY <2>1, ListingAssumption DEF ListInit, Walk, Cursor
  <2>3. Cardinality(walk.page) <= Limit
    BY ListingAssumption, FS_EmptySet DEF ListInit
  <2>4. ListTypeOK
    BY <2>1, <2>2, <2>3, ListingAssumption DEF ListInit, ListTypeOK
  <2>5. RowsInv
    BY <2>1 DEF ListInit, RowsInv, TypeStates
  <2>6. SteadyInv /\ ReturnedInv /\ OwedInv /\ PageInv /\ ShownAsAsked
    BY DEF ListInit, SteadyInv, ReturnedInv, OwedInv, PageInv, ShownAsAsked
  <2> QED
    BY <2>4, <2>5, <2>6 DEF ListInv
<1>2. (ListTypeOK /\ ListInv) /\ [ListNext]_listVars => (ListTypeOK /\ ListInv)'
  <2> SUFFICES ASSUME ListTypeOK, ListInv, [ListNext]_listVars
               PROVE  ListTypeOK' /\ ListInv'
    OBVIOUS
  <2>1. CASE UNCHANGED listVars
    <3>1. KeysStay
      BY <2>1 DEF listVars, KeysStay
    <3>2. ListTypeOK' /\ RowsInv'
      BY <2>1 DEF listVars, ListTypeOK, ListInv, RowsInv
    <3>3. SteadyInv'
      BY <2>1 DEF listVars, ListInv, SteadyInv, Listed
    <3> QED
      BY <2>1, <3>1, <3>2, <3>3, TablePreserves DEF listVars, ListInv
  <2>2. CASE ListNext
    BY <2>2, TableStep, PassStep, AskStep, QueryStep, HandlerStep DEF ListNext
  <2> QED
    BY <2>1, <2>2
<1> QED
  BY <1>1, <1>2, PTL DEF ListSpec

(* The table, the walk and its cursor keep their types, for any table and  *)
(* page size; in particular no page has more than Limit rows.              *)
THEOREM ListingTypes == ListSpec => []ListTypeOK
  BY ListInvHolds, PTL

(* Listings!NoRowTwice: rows inserted late, with a time older than the     *)
(* cursor's, or sharing its time, make no endpoint return a row again.     *)
THEOREM PagesAreDisjoint == ListSpec => []NoRowTwice
<1>1. ListTypeOK /\ ListInv => NoRowTwice
  <2> SUFFICES ASSUME ListTypeOK, ListInv, NEW p \in walk.page, p \in walk.returned
               PROVE  FALSE
    BY DEF NoRowTwice
  <2>1. walk.pc = "read" /\ AfterCursor(p, walk.cursor)
    BY DEF ListInv, PageInv
  <2> QED
    BY <2>1 DEF ListInv, ReturnedInv
<1> QED
  BY <1>1, ListInvHolds, PTL

(* Listings!NothingSkipped: a row that matched the filter throughout the   *)
(* walk is on one of its pages, wherever the page boundaries fell.         *)
THEOREM WalksAreComplete == ListSpec => []NothingSkipped
<1>1. ListInv => NothingSkipped
  BY DEF ListInv, OwedInv, NothingSkipped
<1> QED
  BY <1>1, ListInvHolds, PTL

(* Listings!ShownAsAsked: every row of a filtered listing is shown in the  *)
(* state that was asked for, also an offer that expires in the meantime.   *)
THEOREM FiltersAreHonoured == ListSpec => []ShownAsAsked
<1>1. ListInv => ShownAsAsked
  BY DEF ListInv
<1> QED
  BY <1>1, ListInvHolds, PTL
=============================================================================
