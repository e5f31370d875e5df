------------------------------ MODULE Listings ------------------------------
(***************************************************************************)
(* The cursor-paginated list endpoints of the management API.  A client    *)
(* walks through a listing page by page while rows are inserted, change    *)
(* their state and expire.  Pages are ordered by (created_at, id), newest  *)
(* first; the cursor is the key of the last row of the page before.        *)
(*                                                                         *)
(* created_at is drawn by the process that builds the row, before the      *)
(* INSERT commits: a row may become visible below a newer one, and several *)
(* rows may carry the same timestamp.                                      *)
(***************************************************************************)
EXTENDS Naturals, FiniteSets

CONSTANTS
    Ids,       \* row ids, compared as the id column is
    Endpoints, \* the listings considered
    Limit,     \* page size
    Lifetime,  \* from created_at to expires_at (offers and invitations)
    MaxTime    \* bound on the clock

ASSUME ListingAssumption ==
    /\ Ids \subseteq Nat /\ IsFiniteSet(Ids)
    /\ Endpoints \subseteq {"issuers", "types", "credentials", "accounts",
                            "invitations", "offers"}
    /\ Limit \in Nat \ {0} /\ Lifetime \in Nat /\ MaxTime \in Nat \ {0}

VARIABLES
    endpoint, \* the listing this walk is about
    filter,   \* the state asked for, "any" for none
    rows,     \* the table
    clock,
    walk,     \* the client's walk and the request of it that is under way
    steady    \* history: rows that matched when the walk began and ever since

listVars == <<endpoint, filter, rows, clock, walk, steady>>

-----------------------------------------------------------------------------

(* The states of a row, and what the endpoints that change it allow.       *)
Moves(k) ==
    CASE k = "issuers"     -> {<<"active", "deactivated">>}
      [] k = "types"       -> {<<"live", "retired">>}
      [] k = "credentials" -> {<<"active", "suspended">>, <<"suspended", "active">>,
                               <<"active", "revoked">>, <<"suspended", "revoked">>}
      [] k = "accounts"    -> {<<"active", "deactivated">>, <<"deactivated", "active">>}
      [] k = "invitations" -> {<<"pending", "accepted">>, <<"pending", "revoked">>}
      [] k = "offers"      -> {<<"pending", "issued">>, <<"pending", "cancelled">>}

FirstState(k) ==
    CASE k \in {"issuers", "credentials", "accounts"} -> "active"
      [] k = "types" -> "live"
      [] k \in {"invitations", "offers"} -> "pending"

RowStates == {"absent", "drawn", "active", "deactivated", "live", "retired",
              "suspended", "revoked", "pending", "accepted", "issued", "cancelled"}

(* The filters an endpoint accepts; "expired" is an observed state only.   *)
Filters(k) ==
    CASE k = "types"       -> {"any", "live"}
      [] k = "credentials" -> {"any", "active", "suspended", "revoked"}
      [] k = "offers"      -> {"any", "pending", "expired", "issued", "cancelled"}
      [] OTHER             -> {"any"}

TableRow == [state : RowStates, created_at : 0 .. MaxTime]

Visible(row) == row.state \notin {"absent", "drawn"}

(* DecodedCursor.                                                          *)
NoCursor == [at |-> 0, id |-> 0]
Cursor   == [at : 0 .. MaxTime, id : Ids] \union {NoCursor}

Shown == RowStates \union {"expired"}

Walk == [pc : {"idle", "asked", "read", "next", "done"}, cursor : Cursor,
         now : 0 .. MaxTime, page : SUBSET Ids, copy : [Ids -> TableRow],
         more : BOOLEAN, returned : SUBSET Ids, shown : SUBSET Shown]

(* A page holds Limit rows at most.                                        *)
ListTypeOK ==
    /\ endpoint \in Endpoints /\ filter \in Filters(endpoint)
    /\ rows \in [Ids -> TableRow]
    /\ clock \in 1 .. MaxTime
    /\ walk \in Walk
    /\ Cardinality(walk.page) <= Limit
    /\ steady \subseteq Ids

NoRows == [r \in Ids |-> [state |-> "absent", created_at |-> 0]]

ListInit ==
    /\ endpoint \in Endpoints
    /\ filter \in Filters(endpoint)
    /\ rows = NoRows
    /\ clock = 1
    /\ walk = [pc |-> "idle", cursor |-> NoCursor, now |-> 1,
               page |-> {}, copy |-> NoRows, more |-> FALSE, returned |-> {},
               shown |-> {}]
    /\ steady = {}

-----------------------------------------------------------------------------
(* What each query selects.                                                *)

Expired(row, now) == now >= row.created_at + Lifetime

(* observed_state of an offer or an invitation.                            *)
Observed(row, now) ==
    IF row.state = "pending" /\ Expired(row, now) THEN "expired" ELSE row.state

(* state IS NOT NULL: rows written by persist_issuer always have one.      *)
IssuerListed(row)           == TRUE
TypeListed(row, f)          == f = "any" \/ row.state # "retired"
CredentialListed(row, f)    == f = "any" \/ row.state = f
AccountListed(row)          == TRUE
InvitationListed(row)       == TRUE
OfferListed(row, f, now) ==
    \/ f = "any"
    \/ f = "pending" /\ row.state = "pending" /\ ~Expired(row, now)
    \/ f = "expired" /\ row.state = "pending" /\ Expired(row, now)
    \/ f \in {"issued", "cancelled"} /\ row.state = f

Listed(row, now) ==
    /\ Visible(row)
    /\ CASE endpoint = "issuers"     -> IssuerListed(row)
         [] endpoint = "types"       -> TypeListed(row, filter)
         [] endpoint = "credentials" -> CredentialListed(row, filter)
         [] endpoint = "accounts"    -> AccountListed(row)
         [] endpoint = "invitations" -> InvitationListed(row)
         [] endpoint = "offers"      -> OfferListed(row, filter, now)

(* Row comparison (created_at, id) < (at, id).                             *)
Below(at1, id1, at2, id2) == at1 < at2 \/ (at1 = at2 /\ id1 < id2)

(* Mutant: the cursor row itself is let through again.                     *)
AfterCursorInclusive(r, c) ==
    \/ c = NoCursor
    \/ Below(rows[r].created_at, r, c.at, c.id)
    \/ rows[r].created_at = c.at /\ r = c.id

(* Mutant: only the timestamps are compared.                               *)
AfterCursorByTime(r, c) == c = NoCursor \/ rows[r].created_at < c.at

AfterCursor(r, c) == c = NoCursor \/ Below(rows[r].created_at, r, c.at, c.id)

Candidates == {r \in Ids : Listed(rows[r], walk.now) /\ AfterCursor(r, walk.cursor)}

(* ORDER BY created_at DESC, id DESC: how many of S come before r.         *)
Ahead(r, S) ==
    Cardinality({s \in S : Below(rows[r].created_at, r, rows[s].created_at, s)})

PageOf(S) == {r \in S : Ahead(r, S) < Limit}

(* page.items.last().                                                      *)
LastOf(P) == CHOOSE r \in P : Ahead(r, P) = Cardinality(P) - 1

-----------------------------------------------------------------------------
(* The table changes.                                                      *)

Remain == steady' = {r \in steady : Listed(rows'[r], clock')}

DrawRow(r) ==
    /\ rows[r].state = "absent"
    /\ rows' = [rows EXCEPT ![r] = [state |-> "drawn", created_at |-> clock]]
    /\ UNCHANGED <<endpoint, filter, clock, walk, steady>>

InsertRow(r) ==
    /\ rows[r].state = "drawn"
    /\ rows' = [rows EXCEPT ![r].state = FirstState(endpoint)]
    /\ UNCHANGED <<endpoint, filter, clock, walk, steady>>

ChangeRow(r, s) ==
    /\ <<rows[r].state, s>> \in Moves(endpoint)
    /\ rows' = [rows EXCEPT ![r].state = s]
    /\ UNCHANGED <<endpoint, filter, clock, walk>>
    /\ Remain

Pass ==
    /\ clock < MaxTime
    /\ clock' = clock + 1
    /\ UNCHANGED <<endpoint, filter, rows, walk>>
    /\ Remain

-----------------------------------------------------------------------------
(* One page: the request with its cursor, the query, the answer.           *)

(* A walk begins without a cursor.  The handler of the offers takes now    *)
(* before the query; here every request does, the others do not use it.    *)
AskFirst ==
    /\ walk.pc = "idle"
    /\ walk' = [walk EXCEPT !.pc = "asked", !.now = clock]
    /\ steady' = {r \in Ids : Listed(rows[r], clock)}
    /\ UNCHANGED <<endpoint, filter, rows, clock>>

AskNext ==
    /\ walk.pc = "next"
    /\ walk' = [walk EXCEPT !.pc = "asked", !.now = clock]
    /\ UNCHANGED <<endpoint, filter, rows, clock, steady>>

(* The SELECT: a page of copies, and whether there was a row too many.     *)
Query ==
    /\ walk.pc = "asked"
    /\ LET page == PageOf(Candidates)
       IN  walk' = [walk EXCEPT
              !.pc = "read", !.page = page,
              !.copy = [r \in Ids |-> IF r \in page THEN rows[r] ELSE NoRows[r]],
              !.more = Cardinality(Candidates) > Limit]
    /\ UNCHANGED <<endpoint, filter, rows, clock, steady>>

(* The next cursor and the items, each shown in the state states gives it. *)
Answer(states) ==
    /\ walk.pc = "read"
    /\ walk' = [walk EXCEPT
          !.pc = IF walk.more THEN "next" ELSE "done",
          !.cursor = IF walk.more
                     THEN [at |-> rows[LastOf(walk.page)].created_at,
                           id |-> LastOf(walk.page)]
                     ELSE NoCursor,
          !.shown = {states[r] : r \in walk.page},
          !.returned = @ \union walk.page,
          !.page = {}, !.copy = NoRows]
    /\ UNCHANGED <<endpoint, filter, rows, clock, steady>>

Stored == [r \in Ids |-> walk.copy[r].state]

ListIssuers     == endpoint = "issuers" /\ Answer(Stored)
ListTypes       == endpoint = "types" /\ Answer(Stored)
ListCredentials == endpoint = "credentials" /\ Answer(Stored)
ListAccounts    == endpoint = "accounts" /\ Answer(Stored)

(* The response is rendered with a now taken after the query.              *)
ListInvitations ==
    /\ endpoint = "invitations"
    /\ Answer([r \in Ids |-> Observed(walk.copy[r], clock)])

(* Mutant: the response is rendered with a now of its own.                 *)
ListOffersLateNow ==
    /\ endpoint = "offers"
    /\ Answer([r \in Ids |-> Observed(walk.copy[r], clock)])

ListOffers ==
    /\ endpoint = "offers"
    /\ Answer([r \in Ids |-> Observed(walk.copy[r], walk.now)])

ListNext ==
    \/ \E r \in Ids : DrawRow(r) \/ InsertRow(r) \/ \E s \in RowStates : ChangeRow(r, s)
    \/ Pass
    \/ AskFirst \/ AskNext \/ Query
    \/ ListIssuers \/ ListTypes \/ ListCredentials \/ ListAccounts
    \/ ListInvitations \/ ListOffers

ListSpec == ListInit /\ [][ListNext]_listVars

-----------------------------------------------------------------------------
(* Properties.                                                             *)

(* No row is returned twice, whatever is inserted or changed between two   *)
(* pages of the walk.                                                      *)
NoRowTwice == walk.page \intersect walk.returned = {}

(* A walk that has come to its end has returned every row that matched the *)
(* filter from the first request to the last, also when page boundaries    *)
(* fall between rows of the same timestamp or rows leave the filter.       *)
NothingSkipped == walk.pc = "done" => steady \subseteq walk.returned

(* A listing filtered by state shows every row in the state asked for: the *)
(* query of the offers and their rendering agree on when they expire.      *)
ShownAsAsked == filter # "any" => walk.shown \subseteq {filter}

=============================================================================
