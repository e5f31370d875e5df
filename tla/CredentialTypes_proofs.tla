----------------------- MODULE CredentialTypes_proofs -----------------------
(***************************************************************************)
(* Proofs about the validator cache and the metadata document of module    *)
(* CredentialTypes, for any number of types, edits and offer requests.     *)
(***************************************************************************)
EXTENDS CredentialTypes, TLAPS

(* Somebody has schema s of type t under the stamp a: the row itself, the  *)
(* cache, or an offer request that has read the row.                       *)
Holds(t, a, s) ==
    \/ types[t].updated_at = a /\ types[t].schema = s
    \/ cache[t].schema_updated_at = a /\ cache[t].schema = s
    \/ \E q \in OfferCalls : call[q].type = t /\ call[q].updated_at = a /\ call[q].schema = s

(* A stamp tells the versions of a row apart; 0 is nobody's stamp.         *)
OneSchemaPerStamp ==
    \A t \in Types : \A a, r, s : a # 0 /\ Holds(t, a, r) /\ Holds(t, a, s) => r = s

StampsAreDrawn == \A t \in Types : \A a, s : Holds(t, a, s) => a < clock

(* The request has drawn a stamp that its UPDATE will write.               *)
Stamping(e) == edit[e].op \notin {"none", "assign"}

(* A stamp drawn and not written yet is on no version and is nobody else's.*)
PendingStampsAreUnused ==
    \A e \in Edits : Stamping(e) =>
        /\ edit[e].at # 0 /\ edit[e].at < clock
        /\ \A t \in Types : \A s : ~Holds(t, edit[e].at, s)
        /\ \A f \in Edits : f # e /\ Stamping(f) => edit[f].at # edit[e].at

CatalogueInv ==
    /\ CatalogueTypeOK
    /\ OneSchemaPerStamp
    /\ StampsAreDrawn
    /\ PendingStampsAreUnused
    /\ ValidatorOfReadRow

(* The constants the model fills unused fields with have their types.      *)
LEMMA FillersTyped ==
    /\ SomeType \in Types /\ SomeVct \in Vcts /\ SomeSchema \in Schemas
    /\ SomeIssuer \in Issuers
  BY CatalogueAssumption DEF SomeType, SomeVct, SomeSchema, SomeIssuer

(* The records the edits, the calls and the cache start with are well      *)
(* formed.                                                                 *)
LEMMA EmptyRecordsTyped == NoEdit \in Edit /\ NoCall \in OfferCall /\ NoEntry \in CacheEntry
  BY FillersTyped, CatalogueAssumption
  DEF NoEdit, Edit, NoCall, OfferCall, NoEntry, CacheEntry

(* The invariant holds of the empty catalogue.                             *)
LEMMA CatalogueInvInitially == CatalogueInit => CatalogueInv
<1> SUFFICES ASSUME CatalogueInit PROVE CatalogueInv
  OBVIOUS
<1>1. CatalogueTypeOK
  <2>1. types \in [Types -> CredentialType] /\ \A t \in Types : types[t].updated_at = 0
    BY FillersTyped, CatalogueAssumption DEF CatalogueInit, CredentialType
  <2>2. cache \in [Types -> CacheEntry] /\ \A t \in Types : cache[t].schema_updated_at = 0
    BY EmptyRecordsTyped DEF CatalogueInit, NoEntry
  <2> QED
    BY <2>1, <2>2, EmptyRecordsTyped, CatalogueAssumption
    DEF CatalogueInit, CatalogueTypeOK
<1>2. \A t \in Types : \A a, s : Holds(t, a, s) => a = 0
  BY DEF CatalogueInit, Holds, NoCall, NoEntry
<1>3. \A e \in Edits : ~Stamping(e)
  BY DEF CatalogueInit, Stamping, NoEdit
<1>4. ValidatorOfReadRow
  BY DEF CatalogueInit, ValidatorOfReadRow, NoCall
<1>5. clock = 1
  BY DEF CatalogueInit
<1> QED
  BY <1>1, <1>2, <1>3, <1>4, <1>5
  DEF CatalogueInv, OneSchemaPerStamp, StampsAreDrawn, PendingStampsAreUnused

(* Nobody gets a version that nobody had: versions may be copied and       *)
(* dropped, stamps may be drawn and edits may end.                         *)
LEMMA NoNewVersion ==
    ASSUME CatalogueInv, clock' \in Nat, clock <= clock',
           \A t \in Types : \A a, s : Holds(t, a, s)' => a = 0 \/ Holds(t, a, s),
           \A e \in Edits : Stamping(e)' => Stamping(e) /\ edit'[e].at = edit[e].at
    PROVE  OneSchemaPerStamp' /\ StampsAreDrawn' /\ PendingStampsAreUnused'
<1>1. clock \in Nat /\ clock > 0
  BY DEF CatalogueInv, CatalogueTypeOK
<1>2. OneSchemaPerStamp'
  BY DEF CatalogueInv, OneSchemaPerStamp
<1>3. \A t \in Types : \A a, s : Holds(t, a, s) => a \in Nat
  BY DEF CatalogueInv, CatalogueTypeOK, Holds, CredentialType, CacheEntry, OfferCall
<1>4. \A e \in Edits : edit[e].at \in Nat
  BY DEF CatalogueInv, CatalogueTypeOK, Edit
<1>5. StampsAreDrawn'
  BY <1>1, <1>3 DEF CatalogueInv, StampsAreDrawn
<1>6. PendingStampsAreUnused'
  BY <1>1, <1>4 DEF CatalogueInv, PendingStampsAreUnused
<1> QED
  BY <1>2, <1>5, <1>6

(* One new version, under a stamp that is on no version and that no other  *)
(* edit will write.                                                        *)
LEMMA OneNewVersion ==
    ASSUME CatalogueInv, clock' \in Nat, clock <= clock',
           NEW n \in Nat, n < clock', NEW u \in Types, NEW z,
           \A t \in Types : \A a, s :
              Holds(t, a, s)' => Holds(t, a, s) \/ (t = u /\ a = n /\ s = z),
           \A t \in Types : \A s : ~Holds(t, n, s),
           \A e \in Edits :
              Stamping(e)' => Stamping(e) /\ edit'[e].at = edit[e].at /\ edit[e].at # n
    PROVE  OneSchemaPerStamp' /\ StampsAreDrawn' /\ PendingStampsAreUnused'
<1>1. clock \in Nat
  BY DEF CatalogueInv, CatalogueTypeOK
<1>2. OneSchemaPerStamp'
  BY DEF CatalogueInv, OneSchemaPerStamp
<1>3. \A t \in Types : \A a, s : Holds(t, a, s) => a \in Nat
  BY DEF CatalogueInv, CatalogueTypeOK, Holds, CredentialType, CacheEntry, OfferCall
<1>4. \A e \in Edits : edit[e].at \in Nat
  BY DEF CatalogueInv, CatalogueTypeOK, Edit
<1>5. StampsAreDrawn'
  BY <1>1, <1>3 DEF CatalogueInv, StampsAreDrawn
<1>6. PendingStampsAreUnused'
  BY <1>1, <1>4 DEF CatalogueInv, PendingStampsAreUnused
<1> QED
  BY <1>2, <1>5, <1>6

(* An edit draws its stamp.                                                *)
LEMMA BeginPreserves ==
    ASSUME CatalogueInv, NEW e \in Edits, NEW w \in Edit, Begin(e, w) PROVE CatalogueInv'
<1>1. /\ clock \in 1 .. MaxClock /\ clock' = clock + 1
      /\ edit' = [edit EXCEPT ![e] = [w EXCEPT !.at = clock]]
      /\ UNCHANGED <<types, assigned, call, cache>>
  BY CatalogueAssumption DEF Begin, rowVars, CatalogueInv, CatalogueTypeOK
<1>2. [w EXCEPT !.at = clock] \in Edit /\ [w EXCEPT !.at = clock].at = clock
  BY <1>1 DEF Edit
<1>3. /\ edit'[e].at = clock /\ edit' \in [Edits -> Edit]
      /\ \A f \in Edits : f # e => edit'[f] = edit[f]
  BY <1>1, <1>2 DEF CatalogueInv, CatalogueTypeOK
<1>4. \A t \in Types : \A a, s : Holds(t, a, s)' <=> Holds(t, a, s)
  BY <1>1 DEF Holds
<1>5. CatalogueTypeOK' /\ ValidatorOfReadRow'
  <2>1. \A t \in Types : types[t].updated_at \in Nat /\ cache[t].schema_updated_at \in Nat
    BY DEF CatalogueInv, CatalogueTypeOK, CredentialType, CacheEntry
  <2> QED
    BY <1>1, <1>3, <2>1, CatalogueAssumption
    DEF CatalogueInv, CatalogueTypeOK, ValidatorOfReadRow
<1>6. \A t \in Types : \A a, s : Holds(t, a, s) => a \in Nat
  BY DEF CatalogueInv, CatalogueTypeOK, Holds, CredentialType, CacheEntry, OfferCall
<1>7. OneSchemaPerStamp' /\ StampsAreDrawn'
  BY <1>1, <1>4, <1>6 DEF CatalogueInv, OneSchemaPerStamp, StampsAreDrawn
<1>8. \A t \in Types : \A s : ~Holds(t, clock, s)
  BY <1>1, <1>6 DEF CatalogueInv, StampsAreDrawn
<1>9. \A f \in Edits : f # e => (Stamping(f)' <=> Stamping(f)) /\ edit[f].at \in Nat
  BY <1>3 DEF Stamping, CatalogueInv, CatalogueTypeOK, Edit
<1>10. PendingStampsAreUnused'
  <2>1. /\ edit'[e].at # 0 /\ edit'[e].at < clock'
        /\ (\A t \in Types : \A s : ~Holds(t, edit[e].at, s))'
    BY <1>1, <1>3, <1>8 DEF Holds
  <2>2. ASSUME NEW f \in Edits, f # e, Stamping(f)'
        PROVE  /\ edit'[f].at = edit[f].at /\ edit[f].at # 0 /\ edit[f].at < clock
               /\ edit[f].at < clock' /\ edit[f].at # edit'[e].at
               /\ (\A t \in Types : \A s : ~Holds(t, edit[f].at, s))'
    BY <1>1, <1>3, <1>9, <2>2 DEF CatalogueInv, PendingStampsAreUnused, Holds
  <2>3. ASSUME NEW f \in Edits, NEW g \in Edits, f # e, g # e, f # g,
               Stamping(f)', Stamping(g)'
        PROVE  edit'[f].at # edit'[g].at
    BY <1>3, <1>9, <2>3 DEF CatalogueInv, PendingStampsAreUnused
  <2> QED
    BY <2>1, <2>2, <2>3 DEF PendingStampsAreUnused
<1> QED
  BY <1>5, <1>7, <1>10 DEF CatalogueInv

(* The UPDATE of an edit writes its stamp with the row.                    *)
LEMMA WritePreserves ==
    ASSUME CatalogueInv, NEW e \in Edits, Stamping(e), NEW row \in CredentialType,
           row.updated_at = edit[e].at, Write(e, row), assigned' \subseteq Issuers \X Types
    PROVE  CatalogueInv'
<1> DEFINE u == edit[e].type
           n == edit[e].at
<1>1. /\ u \in Types /\ n \in Nat /\ n < clock /\ clock \in Nat /\ clock' = clock
      /\ \A t \in Types : \A s : ~Holds(t, n, s)
      /\ \A f \in Edits : f # e /\ Stamping(f) => edit[f].at # n
  <2>1. edit[e] \in Edit /\ clock \in Nat /\ clock' = clock
    BY DEF CatalogueInv, CatalogueTypeOK, Write
  <2>2. n < clock /\ \A f \in Edits : f # e /\ Stamping(f) => edit[f].at # n
    BY DEF CatalogueInv, PendingStampsAreUnused
  <2>3. \A t \in Types : \A s : ~Holds(t, n, s)
    BY DEF CatalogueInv, PendingStampsAreUnused
  <2> QED
    BY <2>1, <2>2, <2>3 DEF Edit
<1>2. /\ types' \in [Types -> CredentialType]
      /\ types'[u] = row /\ \A t \in Types : t # u => types'[t] = types[t]
      /\ edit' \in [Edits -> Edit] /\ edit'[e] = NoEdit
      /\ \A f \in Edits : f # e => edit'[f] = edit[f]
      /\ UNCHANGED <<call, cache, clock>>
  BY <1>1, EmptyRecordsTyped DEF Write, CatalogueInv, CatalogueTypeOK
<1> HIDE DEF u, n
<1>3. row.updated_at = n
  BY DEF n
<1>4. \A t \in Types : \A a, s :
         Holds(t, a, s)' => Holds(t, a, s) \/ (t = u /\ a = n /\ s = row.schema)
  BY <1>2, <1>3 DEF Holds
<1>5. \A f \in Edits : Stamping(f)' => Stamping(f) /\ f # e /\ edit'[f].at = edit[f].at
  BY <1>2 DEF Stamping, NoEdit
<1>6. OneSchemaPerStamp' /\ StampsAreDrawn' /\ PendingStampsAreUnused'
  BY <1>1, <1>4, <1>5, OneNewVersion
<1>7. CatalogueTypeOK' /\ ValidatorOfReadRow'
  BY <1>1, <1>2, <1>3 DEF CatalogueInv, CatalogueTypeOK, ValidatorOfReadRow
<1> QED
  BY <1>6, <1>7 DEF CatalogueInv

(* Offer requests and the cache only pass versions on.                     *)
LEMMA CallPreserves ==
    ASSUME CatalogueInv, NEW q \in OfferCalls, NEW c \in OfferCall, Go(q, c),
           c.updated_at = 0 \/ Holds(c.type, c.updated_at, c.schema),
           c.pc = "validating" => c.validator = c.schema,
           cache' \in [Types -> CacheEntry],
           \A t \in Types : Holds(t, cache'[t].schema_updated_at, cache'[t].schema)
    PROVE  CatalogueInv'
<1>1. /\ call' \in [OfferCalls -> OfferCall]
      /\ call'[q] = c /\ \A p \in OfferCalls : p # q => call'[p] = call[p]
      /\ UNCHANGED <<types, assigned, edit, clock>>
  BY DEF Go, rowVars, CatalogueInv, CatalogueTypeOK
<1>2. \A t \in Types : \A a, s : Holds(t, a, s)' => a = 0 \/ Holds(t, a, s)
  BY <1>1 DEF Holds
<1>3. \A f \in Edits : Stamping(f)' => Stamping(f) /\ edit'[f].at = edit[f].at
  BY <1>1 DEF Stamping
<1>4. clock \in Nat
  BY DEF CatalogueInv, CatalogueTypeOK
<1>5. OneSchemaPerStamp' /\ StampsAreDrawn' /\ PendingStampsAreUnused'
  BY <1>1, <1>2, <1>3, <1>4, NoNewVersion
<1>6. \A t \in Types : cache'[t].schema_updated_at < clock
  BY DEF CatalogueInv, StampsAreDrawn
<1>7. CatalogueTypeOK' /\ ValidatorOfReadRow'
  BY <1>1, <1>6 DEF CatalogueInv, CatalogueTypeOK, ValidatorOfReadRow
<1> QED
  BY <1>5, <1>7 DEF CatalogueInv

(* Every edit begins with a well-formed request.                           *)
LEMMA EditsTyped ==
    ASSUME NEW t \in Types, NEW v \in Vcts, NEW s \in Schemas, NEW i \in Issuers
    PROVE  /\ [NoEdit EXCEPT !.op = "patch", !.type = t, !.vct = v] \in Edit
           /\ [NoEdit EXCEPT !.op = "schema", !.type = t, !.schema = s] \in Edit
           /\ [NoEdit EXCEPT !.op = "display", !.type = t] \in Edit
           /\ [NoEdit EXCEPT !.op = "claims", !.type = t] \in Edit
           /\ [NoEdit EXCEPT !.op = "retire", !.type = t] \in Edit
           /\ [NoEdit EXCEPT !.op = "assign", !.type = t, !.issuer = i] \in Edit
<1> USE EmptyRecordsTyped DEF Edit
<1>1. [NoEdit EXCEPT !.op = "patch", !.type = t, !.vct = v] \in Edit
  OBVIOUS
<1>2. [NoEdit EXCEPT !.op = "schema", !.type = t, !.schema = s] \in Edit
  OBVIOUS
<1>3. \A op \in {"display", "claims", "retire"} :
         [NoEdit EXCEPT !.op = op, !.type = t] \in Edit
  OBVIOUS
<1>4. [NoEdit EXCEPT !.op = "assign", !.type = t, !.issuer = i] \in Edit
  OBVIOUS
<1> QED
  BY <1>1, <1>2, <1>3, <1>4

(* A request without a stamp begins or ends, or assignments change: no     *)
(* version is touched.                                                     *)
LEMMA AsidePreserves ==
    ASSUME CatalogueInv, UNCHANGED <<types, call, cache, clock>>,
           assigned' \subseteq Issuers \X Types,
           edit' \in [Edits -> Edit],
           \A f \in Edits : Stamping(f)' => Stamping(f) /\ edit'[f].at = edit[f].at
    PROVE  CatalogueInv'
<1>1. \A t \in Types : \A a, s : Holds(t, a, s)' => a = 0 \/ Holds(t, a, s)
  BY DEF Holds
<1>2. clock \in Nat
  BY DEF CatalogueInv, CatalogueTypeOK
<1>3. OneSchemaPerStamp' /\ StampsAreDrawn' /\ PendingStampsAreUnused'
  BY <1>1, <1>2, NoNewVersion
<1>4. CatalogueTypeOK' /\ ValidatorOfReadRow'
  BY DEF CatalogueInv, CatalogueTypeOK, ValidatorOfReadRow
<1> QED
  BY <1>3, <1>4 DEF CatalogueInv

(* create: the first version of a row.                                     *)
LEMMA CreatePreserves ==
    ASSUME CatalogueInv, NEW t \in Types, NEW v \in Vcts, NEW s \in Schemas,
           CreateType(t, v, s)
    PROVE  CatalogueInv'
<1> DEFINE row == [state |-> "live", vct |-> v, schema |-> s, updated_at |-> clock]
<1>1. /\ clock \in 1 .. MaxClock /\ clock' = clock + 1
      /\ types' = [types EXCEPT ![t] = row]
      /\ UNCHANGED <<assigned, edit, call, cache>>
  BY CatalogueAssumption DEF CreateType, CatalogueInv, CatalogueTypeOK
<1>2. row \in CredentialType /\ row.updated_at = clock /\ row.schema = s
  BY <1>1 DEF CredentialType
<1> HIDE DEF row
<1>3. /\ types' \in [Types -> CredentialType] /\ types'[t] = row
      /\ \A u \in Types : u # t => types'[u] = types[u]
  BY <1>1, <1>2 DEF CatalogueInv, CatalogueTypeOK
<1>4. \A u \in Types : \A a, z :
         Holds(u, a, z)' => Holds(u, a, z) \/ (u = t /\ a = clock /\ z = s)
  BY <1>1, <1>2, <1>3 DEF Holds
<1>5. \A u \in Types : \A z : ~Holds(u, clock, z)
  BY <1>1 DEF CatalogueInv, StampsAreDrawn
<1>6. \A e \in Edits :
         Stamping(e)' => Stamping(e) /\ edit'[e].at = edit[e].at /\ edit[e].at # clock
  BY <1>1 DEF Stamping, CatalogueInv, PendingStampsAreUnused
<1>7. OneSchemaPerStamp' /\ StampsAreDrawn' /\ PendingStampsAreUnused'
  BY <1>1, <1>4, <1>5, <1>6, OneNewVersion
<1>8. \A u \in Types : /\ types[u].updated_at \in Nat /\ cache[u].schema_updated_at \in Nat
                        /\ types[u].updated_at < clock /\ cache[u].schema_updated_at < clock
  BY DEF CatalogueInv, CatalogueTypeOK, CredentialType, CacheEntry
<1>9. \A u \in Types : types'[u].updated_at < clock' /\ cache[u].schema_updated_at < clock'
  BY <1>1, <1>2, <1>3, <1>8
<1>10. CatalogueTypeOK' /\ ValidatorOfReadRow'
  BY <1>1, <1>3, <1>9, CatalogueAssumption
  DEF CatalogueInv, CatalogueTypeOK, ValidatorOfReadRow
<1> QED
  BY <1>7, <1>10 DEF CatalogueInv

(* Every step keeps the invariant.                                         *)
LEMMA CatalogueStep == CatalogueInv /\ [CatalogueNext]_catalogueVars => CatalogueInv'
<1> SUFFICES ASSUME CatalogueInv, [CatalogueNext]_catalogueVars PROVE CatalogueInv'
  OBVIOUS
<1>1. ASSUME NEW e \in Edits, NEW t \in Types,
             \/ \E v \in Vcts : Patch(e, t, v)
             \/ \E s \in Schemas : PutSchema(e, t, s)
             \/ PutDisplay(e, t) \/ PutClaims(e, t) \/ Retire(e, t)
      PROVE  CatalogueInv'
  BY <1>1, EditsTyped, FillersTyped, BeginPreserves
  DEF Patch, PutSchema, PutDisplay, PutClaims, Retire
<1>2. ASSUME NEW e \in Edits, NEW t \in Types, NEW i \in Issuers, Assign(e, i, t)
      PROVE  CatalogueInv'
  <2> DEFINE w == [NoEdit EXCEPT !.op = "assign", !.type = t, !.issuer = i]
  <2>1. w \in Edit /\ w.op = "assign"
    BY EditsTyped, FillersTyped DEF NoEdit
  <2>2. /\ edit' = [edit EXCEPT ![e] = w]
        /\ UNCHANGED <<types, assigned, call, cache, clock>>
    BY <1>2 DEF Assign, rowVars
  <2> HIDE DEF w
  <2>3. /\ edit' \in [Edits -> Edit]
        /\ \A f \in Edits : Stamping(f)' => Stamping(f) /\ edit'[f].at = edit[f].at
    BY <2>1, <2>2 DEF Stamping, CatalogueInv, CatalogueTypeOK
  <2> QED
    BY <2>2, <2>3, AsidePreserves DEF CatalogueInv, CatalogueTypeOK
<1>3. ASSUME NEW e \in Edits,
             \/ UpdateStructured(e) \/ UpdateBlobSchema(e) \/ UpdateBlobDisplay(e)
             \/ UpdateBlobClaims(e) \/ RetireRow(e)
      PROVE  CatalogueInv'
  <2>1. edit[e] \in Edit /\ Row(e) \in CredentialType /\ Stamping(e)
    BY <1>3 DEF CatalogueInv, CatalogueTypeOK, Row, Edit, Stamping, UpdateStructured,
                UpdateBlobSchema, UpdateBlobDisplay, UpdateBlobClaims, RetireRow
  <2>2. Stamped(e) \in CredentialType /\ Stamped(e).updated_at = edit[e].at
    BY <2>1 DEF Stamped, CredentialType, Edit
  <2>3. \A row \in CredentialType, v \in Vcts, s \in Schemas :
           /\ [row EXCEPT !.vct = v] \in CredentialType
           /\ [row EXCEPT !.schema = s] \in CredentialType
           /\ [row EXCEPT !.state = "retired"] \in CredentialType
           /\ [row EXCEPT !.vct = v].updated_at = row.updated_at
           /\ [row EXCEPT !.schema = s].updated_at = row.updated_at
           /\ [row EXCEPT !.state = "retired"].updated_at = row.updated_at
    BY DEF CredentialType
  <2>4. edit[e].vct \in Vcts /\ edit[e].schema \in Schemas
    BY <2>1 DEF Edit
  <2>5. \E row \in CredentialType : row.updated_at = edit[e].at /\ Write(e, row)
    BY <1>3, <2>2, <2>3, <2>4 DEF UpdateStructured, UpdateBlobSchema, UpdateBlobDisplay,
                                  UpdateBlobClaims, RetireRow
  <2>6. assigned' \subseteq assigned
    BY <1>3 DEF UpdateStructured, UpdateBlobSchema, UpdateBlobDisplay, UpdateBlobClaims,
                RetireRow
  <2>7. assigned' \subseteq Issuers \X Types
    BY <2>6 DEF CatalogueInv, CatalogueTypeOK
  <2> QED
    BY <2>1, <2>5, <2>7, WritePreserves
<1>4. ASSUME NEW e \in Edits, AssignInsert(e) \/ EditRefused(e) PROVE CatalogueInv'
  <2>1. /\ edit' = [edit EXCEPT ![e] = NoEdit] /\ edit[e] \in Edit
        /\ UNCHANGED <<types, call, cache, clock>>
        /\ assigned' \subseteq assigned \union {<<edit[e].issuer, edit[e].type>>}
    BY <1>4 DEF AssignInsert, EditRefused, rowVars, CatalogueInv, CatalogueTypeOK
  <2>2. assigned' \subseteq Issuers \X Types
    BY <2>1 DEF CatalogueInv, CatalogueTypeOK, Edit
  <2>3. NoEdit.op = "none"
    BY DEF NoEdit
  <2>4. /\ edit' \in [Edits -> Edit]
        /\ \A f \in Edits : Stamping(f)' => Stamping(f) /\ edit'[f].at = edit[f].at
    BY <2>1, <2>3, EmptyRecordsTyped DEF Stamping, CatalogueInv, CatalogueTypeOK
  <2> QED
    BY <2>1, <2>2, <2>4, AsidePreserves DEF CatalogueInv, CatalogueTypeOK
<1>5. ASSUME NEW q \in OfferCalls, NEW i \in Issuers, NEW t \in Types, ProbeType(q, i, t)
      PROVE  CatalogueInv'
  <2> DEFINE c == [NoCall EXCEPT !.pc = "typed", !.type = t, !.issuer = i,
                                 !.schema = types[t].schema,
                                 !.updated_at = types[t].updated_at]
  <2>1. types[t] \in CredentialType
    BY DEF CatalogueInv, CatalogueTypeOK
  <2>2. /\ c \in OfferCall /\ c.pc = "typed" /\ c.type = t
        /\ c.updated_at = types[t].updated_at /\ c.schema = types[t].schema
    BY <2>1, FillersTyped DEF NoCall, OfferCall, CredentialType
  <2>3. Go(q, c) /\ UNCHANGED cache
    BY <1>5 DEF ProbeType
  <2> HIDE DEF c
  <2>4. /\ Holds(c.type, c.updated_at, c.schema)
        /\ \A u \in Types : Holds(u, cache'[u].schema_updated_at, cache'[u].schema)
    BY <2>2, <2>3 DEF Holds
  <2> QED
    BY <2>2, <2>3, <2>4, CallPreserves DEF CatalogueInv, CatalogueTypeOK
<1>6. ASSUME NEW q \in OfferCalls,
             ProbeAssigned(q) \/ CacheLookup(q) \/ CompileAndInsert(q) \/ OfferAnswered(q)
      PROVE  CatalogueInv'
  <2> DEFINE Passes(c) ==
               /\ c \in OfferCall
               /\ c.updated_at = 0 \/ Holds(c.type, c.updated_at, c.schema)
               /\ c.pc = "validating" => c.validator = c.schema
  <2>1. /\ call[q] \in OfferCall
        /\ Holds(call[q].type, call[q].updated_at, call[q].schema)
        /\ cache[call[q].type] \in CacheEntry
        /\ \A t \in Types : Holds(t, cache[t].schema_updated_at, cache[t].schema)
    BY DEF CatalogueInv, CatalogueTypeOK, Holds, OfferCall
  <2>2. Passes(NoCall)
    BY EmptyRecordsTyped DEF NoCall
  <2>3. Passes([call[q] EXCEPT !.pc = "assigned"]) /\ Passes([call[q] EXCEPT !.pc = "missed"])
    BY <2>1 DEF OfferCall
  <2>4. Passes([call[q] EXCEPT !.pc = "validating", !.validator = call[q].schema])
    BY <2>1 DEF OfferCall
  <2>5. Fresh(q) => cache[call[q].type].schema = call[q].schema
    BY <2>1 DEF Fresh, CatalogueInv, OneSchemaPerStamp, OfferCall
  <2> HIDE DEF Passes
  <2>6. \E c : Passes(c) /\ Go(q, c)
    BY <1>6, <2>2, <2>3, <2>4, <2>5
    DEF ProbeAssigned, CacheLookup, CompileAndInsert, OfferAnswered, Take
  <2>7. \/ UNCHANGED cache
        \/ cache' = [cache EXCEPT ![call[q].type] =
                        [schema |-> call[q].schema, schema_updated_at |-> call[q].updated_at]]
    BY <1>6 DEF ProbeAssigned, CacheLookup, CompileAndInsert, OfferAnswered
  <2>8. /\ cache' \in [Types -> CacheEntry]
        /\ \A t \in Types : Holds(t, cache'[t].schema_updated_at, cache'[t].schema)
    <3>1. call[q].type \in Types
      BY <2>1 DEF OfferCall
    <3>2. [schema |-> call[q].schema, schema_updated_at |-> call[q].updated_at] \in CacheEntry
      BY <2>1 DEF OfferCall, CacheEntry
    <3>3. cache \in [Types -> CacheEntry]
      BY DEF CatalogueInv, CatalogueTypeOK
    <3>4. \A t \in Types : \/ cache'[t] = cache[t]
                           \/ /\ t = call[q].type
                              /\ cache'[t].schema_updated_at = call[q].updated_at
                              /\ cache'[t].schema = call[q].schema
      BY <2>7, <3>1, <3>3
    <3> QED
      BY <2>1, <2>7, <3>1, <3>2, <3>3, <3>4
  <2> QED
    BY <2>6, <2>8, CallPreserves DEF Passes
<1>7. ASSUME NEW i \in Issuers, NEW t \in Types, Unassign(i, t) PROVE CatalogueInv'
  <2>1. /\ UNCHANGED <<types, edit, call, cache, clock>>
        /\ assigned' \subseteq assigned
    BY <1>7 DEF Unassign
  <2>2. assigned' \subseteq Issuers \X Types
    BY <2>1 DEF CatalogueInv, CatalogueTypeOK
  <2>3. \A f \in Edits : Stamping(f)' => Stamping(f) /\ edit'[f].at = edit[f].at
    BY <2>1 DEF Stamping
  <2> QED
    BY <2>1, <2>2, <2>3, AsidePreserves DEF CatalogueInv, CatalogueTypeOK
<1>8. ASSUME RestartApi PROVE CatalogueInv'
  <2>1. /\ \A e \in Edits : edit'[e] = NoEdit
        /\ \A q \in OfferCalls : call'[q] = NoCall
        /\ \A t \in Types : cache'[t] = NoEntry
        /\ UNCHANGED <<types, assigned, clock>>
    BY <1>8 DEF RestartApi, rowVars
  <2>2. NoEdit.op = "none" /\ NoCall.updated_at = 0 /\ NoEntry.schema_updated_at = 0
        /\ NoCall.pc = "idle"
    BY DEF NoEdit, NoCall, NoEntry
  <2>3. \A t \in Types : \A a, s : Holds(t, a, s)' => a = 0 \/ Holds(t, a, s)
    BY <2>1, <2>2 DEF Holds
  <2>4. \A f \in Edits : ~Stamping(f)'
    BY <2>1, <2>2 DEF Stamping
  <2>5. clock \in Nat /\ clock > 0
    BY DEF CatalogueInv, CatalogueTypeOK
  <2>6. OneSchemaPerStamp' /\ StampsAreDrawn' /\ PendingStampsAreUnused'
    BY <2>1, <2>3, <2>4, <2>5, NoNewVersion
  <2>7. CatalogueTypeOK'
    <3>1. /\ edit' \in [Edits -> Edit] /\ call' \in [OfferCalls -> OfferCall]
          /\ cache' \in [Types -> CacheEntry]
      BY <1>8, EmptyRecordsTyped DEF RestartApi
    <3> QED
      BY <2>1, <2>2, <2>5, <3>1 DEF CatalogueInv, CatalogueTypeOK
  <2>8. ValidatorOfReadRow'
    BY <2>1, <2>2 DEF ValidatorOfReadRow
  <2> QED
    BY <2>6, <2>7, <2>8 DEF CatalogueInv
<1>9. CASE UNCHANGED catalogueVars
  <2>1. UNCHANGED <<types, assigned, edit, call, cache, clock>>
    BY <1>9 DEF catalogueVars, rowVars
  <2>2. \A f \in Edits : Stamping(f)' => Stamping(f) /\ edit'[f].at = edit[f].at
    BY <2>1 DEF Stamping
  <2> QED
    BY <2>1, <2>2, AsidePreserves DEF CatalogueInv, CatalogueTypeOK
<1> QED
  BY <1>1, <1>2, <1>3, <1>4, <1>5, <1>6, <1>7, <1>8, <1>9, CreatePreserves
  DEF CatalogueNext

(* CredentialTypes!ValidatorOfReadRow: get_or_compile hands a request the  *)
(* validator of the row version the request has read.                      *)
THEOREM ValidatorsMatchTheRow == CatalogueSpec => []ValidatorOfReadRow
<1>1. CatalogueInv => ValidatorOfReadRow
  BY DEF CatalogueInv
<1> QED
  BY <1>1, CatalogueInvInitially, CatalogueStep, PTL DEF CatalogueSpec

(* CredentialTypes!MatchingEntryIsCurrent: a cache entry under the row's   *)
(* updated_at was compiled from the row's schema.                          *)
THEOREM EntriesAreCurrent == CatalogueSpec => []MatchingEntryIsCurrent
<1>1. CatalogueInv => MatchingEntryIsCurrent
  BY DEF CatalogueInv, OneSchemaPerStamp, Holds, MatchingEntryIsCurrent
<1> QED
  BY <1>1, CatalogueInvInitially, CatalogueStep, PTL DEF CatalogueSpec
=============================================================================
