--------------------------- MODULE CredentialTypes ---------------------------
(***************************************************************************)
(* The tenant's catalogue: credential types and their edits, assignments   *)
(* to issuers, retirement, and the process-wide cache of compiled JSON     *)
(* Schema validators that offer creation consults.                         *)
(*                                                                         *)
(* Every edit is one UPDATE.  It carries a timestamp drawn before the row  *)
(* is written (NOW() is the start of the statement, which may then wait    *)
(* for the row; retire draws its own before it opens the transaction), so  *)
(* updated_at need not grow from one write to the next.  Drawn timestamps  *)
(* are distinct: two edits in the same microsecond are left out.           *)
(***************************************************************************)
EXTENDS Naturals, FiniteSets

CONSTANTS
    Types,      \* credential-type ids
    Vcts,       \* values of the vct column
    Schemas,    \* claim schemas that compile
    Issuers,    \* the tenant's issuers
    Edits,      \* management requests that change the catalogue
    OfferCalls, \* POST /credential-offers requests under way together
    MaxClock    \* bound on the timestamps drawn

ASSUME CatalogueAssumption ==
    /\ Types # {} /\ Vcts # {} /\ Schemas # {} /\ Issuers # {}
    /\ MaxClock \in Nat

VARIABLES
    types,     \* credential_types
    assigned,  \* issuer_credential_types
    edit,      \* what each management request is about to write
    call,      \* the offer requests
    cache,     \* ValidatorCache.inner
    clock      \* the next timestamp to be drawn

rowVars       == <<types, assigned>>
catalogueVars == <<rowVars, edit, call, cache, clock>>

-----------------------------------------------------------------------------

SomeVct    == CHOOSE v \in Vcts : TRUE
SomeSchema == CHOOSE s \in Schemas : TRUE
SomeType   == CHOOSE t \in Types : TRUE
SomeIssuer == CHOOSE i \in Issuers : TRUE

CredentialType == [state : {"absent", "live", "retired"}, vct : Vcts,
                   schema : Schemas, updated_at : 0 .. MaxClock]

Edit == [op : {"none", "patch", "schema", "display", "claims", "retire", "assign"},
         type : Types, vct : Vcts, schema : Schemas, issuer : Issuers,
         at : 0 .. MaxClock]

(* An offer request: the row it read, and the schema behind the validator. *)
OfferCall == [pc : {"idle", "typed", "assigned", "missed", "validating"},
              type : Types, issuer : Issuers, schema : Schemas,
              updated_at : 0 .. MaxClock, validator : Schemas]

(* ValidatorCacheEntry: at most one per type; updated_at 0 stands for none.*)
CacheEntry == [schema : Schemas, schema_updated_at : 0 .. MaxClock]

(* Drawn stamps are below the clock: nothing is dated in the future.       *)
CatalogueTypeOK ==
    /\ types \in [Types -> CredentialType]
    /\ assigned \subseteq Issuers \X Types
    /\ edit \in [Edits -> Edit]
    /\ call \in [OfferCalls -> OfferCall]
    /\ cache \in [Types -> CacheEntry]
    /\ clock \in 1 .. MaxClock + 1
    /\ \A t \in Types : types[t].updated_at < clock /\ cache[t].schema_updated_at < clock

NoEdit == [op |-> "none", type |-> SomeType, vct |-> SomeVct, schema |-> SomeSchema,
           issuer |-> SomeIssuer, at |-> 0]
NoCall == [pc |-> "idle", type |-> SomeType, issuer |-> SomeIssuer,
           schema |-> SomeSchema, updated_at |-> 0, validator |-> SomeSchema]
NoEntry == [schema |-> SomeSchema, schema_updated_at |-> 0]

CatalogueInit ==
    /\ types = [t \in Types |-> [state |-> "absent", vct |-> SomeVct,
                                 schema |-> SomeSchema, updated_at |-> 0]]
    /\ assigned = {}
    /\ edit = [e \in Edits |-> NoEdit]
    /\ call = [q \in OfferCalls |-> NoCall]
    /\ cache = [t \in Types |-> NoEntry]
    /\ clock = 1

-----------------------------------------------------------------------------
(* Management requests.                                                    *)

Exists(t) == types[t].state # "absent"

(* find_by_id_for_tenant, then the filter on retired_at.                   *)
Offerable(t) == types[t].state = "live"

(* credential_types_tenant_vct_uniq: retired types keep their vct.         *)
VctFree(t, v) == \A u \in Types \ {t} : Exists(u) => types[u].vct # v

(* create: the schema is compiled before the INSERT, which the UNIQUE      *)
(* constraint may turn into a conflict.                                    *)
CreateType(t, v, s) ==
    /\ ~Exists(t)
    /\ VctFree(t, v)
    /\ clock <= MaxClock
    /\ types' = [types EXCEPT ![t] = [state |-> "live", vct |-> v, schema |-> s,
                                      updated_at |-> clock]]
    /\ clock' = clock + 1
    /\ UNCHANGED <<assigned, edit, call, cache>>

(* A request that has passed its checks and drawn its timestamp.           *)
Begin(e, w) ==
    /\ edit[e].op = "none"
    /\ clock <= MaxClock
    /\ edit' = [edit EXCEPT ![e] = [w EXCEPT !.at = clock]]
    /\ clock' = clock + 1
    /\ UNCHANGED <<rowVars, call, cache>>

Patch(e, t, v)     == Begin(e, [NoEdit EXCEPT !.op = "patch", !.type = t, !.vct = v])
PutSchema(e, t, s) == Begin(e, [NoEdit EXCEPT !.op = "schema", !.type = t, !.schema = s])
PutDisplay(e, t)   == Begin(e, [NoEdit EXCEPT !.op = "display", !.type = t])
PutClaims(e, t)    == Begin(e, [NoEdit EXCEPT !.op = "claims", !.type = t])
Retire(e, t)       == Begin(e, [NoEdit EXCEPT !.op = "retire", !.type = t])

(* assign: tenant_owns_pair is a statement of its own and does not look at *)
(* retired_at.                                                             *)
Assign(e, i, t) ==
    /\ edit[e].op = "none"
    /\ Exists(t)
    /\ edit' = [edit EXCEPT ![e] = [NoEdit EXCEPT !.op = "assign", !.type = t,
                                                   !.issuer = i]]
    /\ UNCHANGED <<rowVars, call, cache, clock>>

(* Ends request e and puts row in place of the one it was about.           *)
Write(e, row) ==
    /\ types' = [types EXCEPT ![edit[e].type] = row]
    /\ edit' = [edit EXCEPT ![e] = NoEdit]
    /\ UNCHANGED <<call, cache, clock>>

Row(e)     == types[edit[e].type]
Stamped(e) == [Row(e) EXCEPT !.updated_at = edit[e].at]

UpdateStructured(e) ==
    /\ edit[e].op = "patch"
    /\ Exists(edit[e].type)
    /\ VctFree(edit[e].type, edit[e].vct)
    /\ Write(e, [Stamped(e) EXCEPT !.vct = edit[e].vct])
    /\ UNCHANGED assigned

(* Mutant: the new schema is written without a new updated_at.             *)
UpdateBlobSchemaSilently(e) ==
    /\ edit[e].op = "schema"
    /\ Exists(edit[e].type)
    /\ Write(e, [Row(e) EXCEPT !.schema = edit[e].schema])
    /\ UNCHANGED assigned

UpdateBlobSchema(e) ==
    /\ edit[e].op = "schema"
    /\ Exists(edit[e].type)
    /\ Write(e, [Stamped(e) EXCEPT !.schema = edit[e].schema])
    /\ UNCHANGED assigned

(* The two documents are not told apart; what matters is the new stamp.    *)
UpdateBlobDisplay(e) ==
    /\ edit[e].op = "display"
    /\ Exists(edit[e].type)
    /\ Write(e, Stamped(e))
    /\ UNCHANGED assigned

UpdateBlobClaims(e) ==
    /\ edit[e].op = "claims"
    /\ Exists(edit[e].type)
    /\ Write(e, Stamped(e))
    /\ UNCHANGED assigned

(* One transaction: retired_at, and every assignment of the type deleted.  *)
RetireRow(e) ==
    /\ edit[e].op = "retire"
    /\ Exists(edit[e].type)
    /\ Write(e, [Stamped(e) EXCEPT !.state = "retired"])
    /\ assigned' = {p \in assigned : p[2] # edit[e].type}

(* The INSERT takes no lock that the UPDATE of retire conflicts with.      *)
AssignInsert(e) ==
    /\ edit[e].op = "assign"
    /\ assigned' = assigned \union {<<edit[e].issuer, edit[e].type>>}
    /\ edit' = [edit EXCEPT ![e] = NoEdit]
    /\ UNCHANGED <<types, call, cache, clock>>

(* No row with this id (404), or its vct taken by another type (409).      *)
EditRefused(e) ==
    /\ edit[e].op # "none"
    /\ \/ ~Exists(edit[e].type)
       \/ edit[e].op = "patch" /\ ~VctFree(edit[e].type, edit[e].vct)
    /\ edit' = [edit EXCEPT ![e] = NoEdit]
    /\ UNCHANGED <<rowVars, call, cache, clock>>

Unassign(i, t) ==
    /\ <<i, t>> \in assigned
    /\ assigned' = assigned \ {<<i, t>>}
    /\ UNCHANGED <<types, edit, call, cache, clock>>

-----------------------------------------------------------------------------
(* Offer creation and the validator cache.                                 *)

Go(q, c) ==
    /\ call' = [call EXCEPT ![q] = c]
    /\ UNCHANGED <<rowVars, edit, clock>>

(* Probe (2): the row is read once; what follows works on this copy.       *)
ProbeType(q, i, t) ==
    /\ call[q].pc = "idle"
    /\ Offerable(t)
    /\ Go(q, [NoCall EXCEPT !.pc = "typed", !.type = t, !.issuer = i,
                            !.schema = types[t].schema,
                            !.updated_at = types[t].updated_at])
    /\ UNCHANGED cache

(* Probe (3): is_assigned, a statement of its own; a miss is a conflict.   *)
ProbeAssigned(q) ==
    /\ call[q].pc = "typed"
    /\ Go(q, IF <<call[q].issuer, call[q].type>> \in assigned
             THEN [call[q] EXCEPT !.pc = "assigned"] ELSE NoCall)
    /\ UNCHANGED cache

(* Mutant: an entry compiled from a later edit will do.                    *)
FreshOrNewer(q) ==
    LET entry == cache[call[q].type]
    IN  entry.schema_updated_at # 0 /\ entry.schema_updated_at >= call[q].updated_at

(* The entry was compiled from the row version the request read.           *)
Fresh(q) ==
    LET entry == cache[call[q].type]
    IN  entry.schema_updated_at # 0 /\ entry.schema_updated_at = call[q].updated_at

Take(q, s) == Go(q, [call[q] EXCEPT !.pc = "validating", !.validator = s])

(* get_or_compile, the part under the read lock.                           *)
CacheLookup(q) ==
    /\ call[q].pc = "assigned"
    /\ IF Fresh(q) THEN Take(q, cache[call[q].type].schema)
                   ELSE Go(q, [call[q] EXCEPT !.pc = "missed"])
    /\ UNCHANGED cache

(* get_or_compile under the write lock: look again, else compile from the  *)
(* copy of the row and replace the entry, whichever edit it came from.     *)
CompileAndInsert(q) ==
    /\ call[q].pc = "missed"
    /\ IF Fresh(q)
       THEN Take(q, cache[call[q].type].schema) /\ UNCHANGED cache
       ELSE /\ Take(q, call[q].schema)
            /\ cache' = [cache EXCEPT ![call[q].type] =
                            [schema |-> call[q].schema,
                             schema_updated_at |-> call[q].updated_at]]

(* The claims fit and the offer is inserted, or they do not (422).         *)
OfferAnswered(q) ==
    /\ call[q].pc = "validating"
    /\ Go(q, NoCall)
    /\ UNCHANGED cache

-----------------------------------------------------------------------------

(* The process restarts: its requests end, the cache starts out empty.     *)
RestartApi ==
    /\ edit' = [e \in Edits |-> NoEdit]
    /\ call' = [q \in OfferCalls |-> NoCall]
    /\ cache' = [t \in Types |-> NoEntry]
    /\ UNCHANGED <<rowVars, clock>>

CatalogueNext ==
    \/ \E t \in Types, v \in Vcts, s \in Schemas : CreateType(t, v, s)
    \/ \E e \in Edits, t \in Types :
          \/ \E v \in Vcts : Patch(e, t, v)
          \/ \E s \in Schemas : PutSchema(e, t, s)
          \/ PutDisplay(e, t) \/ PutClaims(e, t) \/ Retire(e, t)
          \/ \E i \in Issuers : Assign(e, i, t)
    \/ \E e \in Edits :
          \/ UpdateStructured(e) \/ UpdateBlobSchema(e) \/ UpdateBlobDisplay(e)
          \/ UpdateBlobClaims(e) \/ RetireRow(e) \/ AssignInsert(e) \/ EditRefused(e)
    \/ \E q \in OfferCalls :
          \/ \E i \in Issuers, t \in Types : ProbeType(q, i, t)
          \/ ProbeAssigned(q) \/ CacheLookup(q) \/ CompileAndInsert(q) \/ OfferAnswered(q)
    \/ \E i \in Issuers, t \in Types : Unassign(i, t)
    \/ RestartApi

CatalogueSpec == CatalogueInit /\ [][CatalogueNext]_catalogueVars

-----------------------------------------------------------------------------
(* Properties.                                                             *)

(* The claims of an offer are checked against the schema of the row the    *)
(* request read, although requests that read an older version may replace  *)
(* a newer cache entry, and edits may commit out of the order of their     *)
(* timestamps (get_or_compile compares for equality).                      *)
ValidatorOfReadRow ==
    \A q \in OfferCalls : call[q].pc = "validating" => call[q].validator = call[q].schema

(* An entry that a request reading the row now would accept was compiled   *)
(* from the schema the row has now: no edit of the schema can hide behind  *)
(* an unchanged updated_at.                                                *)
MatchingEntryIsCurrent ==
    \A t \in Types :
       cache[t].schema_updated_at # 0 /\ cache[t].schema_updated_at = types[t].updated_at
          => cache[t].schema = types[t].schema
=============================================================================
