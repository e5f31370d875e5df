# Verification of swiyu-issuer

swiyu-issuer is a multi-tenant credential issuer for the Swiss trust
infrastructure: a Rust service (`src/api`) with a management API, an OID4VCI
API for wallets and a background worker, on one Postgres database, and a web
front end (`src/web`: a BFF and an SPA). This directory holds TLA+ models of its
stateful parts, the TLC runs that check them and TLAPS proofs about all of them.

    tlc -workers 2 -config <run>.cfg <MC module>     # a run of PROJECT.json
    tlapm <name>_proofs.tla                          # the proofs of a module of section 4

`PROJECT.json` lists components, runs, mutants, hazards, findings and theorems,
and maps every definition to the lines it models.

## 1. Inventory

| Component | State it keeps | Operations | Module |
|---|---|---|---|
| Operation-task queue, dispatch loop (`worker/runner.rs`, `worker/outcome.rs`, `persistence/operation_tasks.rs`, `domain/operation_task.rs`) | rows: state, current step, next_attempt_at, created_at, state_data | submit, claim (`FOR UPDATE SKIP LOCKED`), run a step, advance / complete / retry / fail | `OperationTasks`, abstract `TaskLifecycle` |
| create_issuer saga (`worker/create_issuer`) | state_data; DIDs, DID logs and status-list entries at the registries; issuer and status-list rows | 7 steps | `CreateIssuerSaga` |
| rotate_keys, deactivate_issuer sagas (`worker/rotate_keys`, `worker/deactivate_issuer`, `worker/didlog_common.rs`, `api_management/issuers.rs`) | issuer row, DID log, state_data | 4 + 3 steps, two submit handlers | `KeySagas` |
| Status lists (`persistence/status_lists.rs`, `issued_credentials.rs`, `worker/status_list_publisher.rs`) | credential rows, bitstrings, allocated_count, committed / published version, publish timer | allocate an index; suspend, unsuspend, revoke; publish rounds | `StatusLists` |
| Offers and issuance (`api_management/credential_offers.rs`, `api_oidc`, `mark_deactivated`) | offers, access tokens, nonces, credentials, allocated_count, issuer state | create, cancel, expire; GET the offer; POST /token; POST /credential; bulk cancel | `CredentialIssuance` |
| OAuth2 token provider (`domain/oauth2`, `cli/tenant`) | cached access token and refresh mutex per replica; refresh token in the tenant row | get, refresh, invalidate and retry on 401, import | `TokenProvider` |
| Credential types (`api_management/credential_types.rs`, `persistence/credential_types.rs`, `issuer_credential_types.rs`, `state/validators.rs`) | type rows, assignments, compiled validators per process | create, four kinds of edit, retire, assign, unassign, offer creation up to validation | `CredentialTypes` |
| List endpoints (`api_management/cursor.rs`, six `list` handlers) | none of their own; a walk spans requests | first page, next page | `Listings` |
| User accounts, invitations (`api_management/user_accounts.rs`, `invitations.rs`, `linking.rs`) | account and invitation rows | create, patch, activate, deactivate; invite, revoke, accept; resolve | `UserAccounts` |
| API authentication (`api_management/token_validator.rs`, `auth.rs`) | JWKS cache; tenants, accounts and issuers as it reads them | look a key up, refresh, classify, derive the tenant, check ownership | `ApiAuthentication` |
| Web BFF (`src/web/bff`) | pending logins, session records | login, callback, logout, select an account, call for a user | `BffSessions` (over `UserAccounts`) |
| Signing and secret-encryption engines | keys | generate, sign, encrypt | calls that answer or fail |
| Operator CLI, admin SPA | | | section 7 |

How they interact. The management handlers insert operation tasks; the dispatch
loop, the only one of the process, claims one at a time and runs its saga step,
which calls the identifier and status registries through the token provider and writes the
issuer, offer and status-list rows. Issuance allocates an index in the issuer's list in
its own transaction. Lifecycle requests rewrite the list's bitstring; the
publisher copies dirty lists and PUTs them. A browser talks to the BFF, which keeps
the session and calls the management API with an exchanged token and the selected account;
the API decides on each call whether the account is the user's and active. Everything
shared is a row in Postgres at READ COMMITTED, a cache or session of one process, or an answer
of a registry or of the realm that may be lost.

What is hard here:

* steps are repeated after a crash, a lost answer or a timer, from state_data
  written earlier; the sagas depend on each step recognising its own effect;
* the claim's lock ends before the step, and outcomes are written by id only;
* two sagas of one issuer alternate, and each looks only at the tail of the log;
* handlers read without a lock, check, and write later (lifecycle requests, invitations,
  assignments, offer creation);
* a publish round works on a copy while the list changes, and its answer may be lost;
* issuance and deactivation lock offers, lists and the issuer (through foreign
  keys) in different orders;
* a refresh token may be used once only, by callers on several replicas;
* caches are keyed on timestamps drawn before the write, or refreshed outside their lock;
* overlapping requests of a browser write whole session records back.

What makes each component correct:

* queue: the copy a step is decided from is the row; the rows follow the
  lifecycle a poller relies on; every task is settled in the end;
* create_issuer: row and published genesis entry agree, the genesis entry
  never changes, a completed creation is usable;
* key sagas: the issuer signs with published keys, a repeated PUT adds no second
  entry, a deactivated issuer is frozen and its log closed;
* status lists: bit and row agree, a clean list is what the registry serves,
  dirty lists get there, revocation is final;
* issuance: one credential per offer, no slot lost or doubled, old offers die with
  the issuer, nobody waits for a lock for ever;
* token provider: only live tokens are presented, one refresh at a time, calls end;
* credential types: claims are checked against the row that was read, no schema edit hides
  behind a cached validator;
* listings: a walk returns no row twice and skips none that was there throughout;
* accounts: an account is linked once, by one invitation, for good;
* API authentication: the key cache follows the realm and never goes back, an outage takes no key
  away, a token reaches the issuers of its tenant, or of its user's tenants, only;
* BFF: a session is the session of one login, and one login gives one session.

## 2. Modules and how they correspond to the code

An action is a database transaction, or the part of a handler between two points
where others can interfere: an unlocked read and its later write, a
row lock and the commit, a call to another service and the record of its answer.

`OperationTasks`. `task[t]` is the row; `worker[w]` is the dispatch loop with
the copy it claimed. `FindNextAcquirable` and `SetAcquired` are the two halves of
`acquire_next`, `Load`/`LoadFails` is `execute_task`, `RunStep` the step
function, `ApplyOutcome` is `outcome.rs::apply`. Time is reduced to
what the code compares with it: a retry timer (`null`, `future`, `passed`) and the
24-hour cap (`aged`). `Crash` is a restart, or a failed write of the outcome. The step
data and what steps do belong to the saga modules, which extend this one.

`TaskLifecycle` is the abstract specification: created, started, advanced one
step at a time, completed after the last or failed, and never touched again.

`CreateIssuerSaga` and `KeySagas` compose the queue with the sagas: `RunStep` is
conjoined with what the step does. Things minted
outside (DIDs, key triples, entries, keys) are numbered. Every external effect
may happen with its answer lost (`DoneOrLost`, the second branch of `PutEntry`). `advance_step`
merges the patch into state_data and moves the step in one UPDATE
(`ApplyCreateOutcome`, `ApplySagaOutcome`). In `KeySagas` the roles
Authentication and Assertion travel together as `other`: the code treats them alike, and only
the Authorized key signs entries and is compared with the tail. `SubmitCheck` and
`SubmitInsert` are the two statements of the submit handlers; the check looks at the latest task
of its type only (`InFlight`). `settled[t]` is a history variable: the tasks that had ended when `t` was
submitted.

`StatusLists`. A lifecycle request is `Find` (no lock), `SetState` (credential lock),
`ReadBitstring` (list lock), `WriteBitAndCommit`; a publish round is
`AcquireNextDirty` (lease, copy), `UpdateStatusListEntry`, `Record...`. Two-bit
statuses are values of a function on slots; encoding and compression are left out. A request is
made once, so that changes come to an end.

`CredentialIssuance`. A wallet: `FetchOffer` (GET of the offer, which hands out the code),
POST /token as `FindByPreAuthCode`, `InsertToken`,
`InsertNonce`, POST /credential as `FindToken`, `CheckOffer`, `ConsumeNonce`, then
the transaction `LockOffer`, `AllocateSlot`, `InsertCredential`,
`CommitIssuance`. mark_deactivated: `LockIssuer`, `CancelAllAndCommit`. The
KEY SHARE locks of foreign keys and Postgres's deadlock detection are part of the model.
Proof parsing, signing and building may fail (`RequestFails`); what they compute is
cryptography.

`TokenProvider`. Per caller: cache look-up, refresh mutex, second look, row lock,
grant, commit, cache store, and one retry after a 401; per replica: expiry and
restart; for the operator: the import command, plain and `--only-if-empty`.

`CredentialTypes`. A management request draws its timestamp (`Patch`, `PutSchema`, ...) and writes the
row later (`UpdateStructured`, `UpdateBlobSchema`, ...), since NOW() is the start of a
statement that may wait for the row; `updated_at` may therefore go back. `assign` checks, then
inserts. An offer request reads the type, probes the assignment, looks into the cache
under the read lock and compiles under the write lock. Two edits in the same microsecond are
left out, and so is what a schema says: it is a value.

`Listings`. One client walks through one of the six listings (`endpoint`, `filter`); a request
is asked, queries, and is rendered, in three steps. Rows draw `created_at` before they become
visible, several may share it, and they change state as their endpoints allow. Offers and
invitations expire by the clock (`Observed`).

`UserAccounts`. Handlers are split between reads and guarded writes. InvitationTtl and
the clock decide expiry, with the code's two comparisons (`<` in `expire_pending_if_due`, `>=` in
`observed_state`).

`ApiAuthentication`. The realm numbers its key sets. `Lookup`, `StartFetch`, `StoreKeys` and
`FetchFails` are `jwk_for_kid` with `refresh_if_due`, which does not hold the lock during the
fetch. `ClassifyFirstParty` is evaluated on every combination of absent, blank and filled claims.
`TenantContext`, `FirstPartyContext` and `AcquirePoolForIssuer` are the extractors and the
ownership check. A tick is the timeout of a fetch (10 s); the cooldown is three of them, as in
the code, the TTL four instead of sixty.

`BffSessions`. One browser with a cookie. The session layer gives each request a copy of the
record and writes a changed copy back as a whole after the response (`Saved`, external);
requests overlap. `Admit` is the management API's decision, on the accounts of `UserAccounts`,
which change meanwhile.

## 3. Runs

| Run | Instance | What it shows |
|---|---|---|
| `status_lists` | 2 lists of 2 slots, 2 credentials in one of them or in both, 2 requests, 1 publisher, fair | `StatusTypeOK` (a list fills up), `BitMatchesState`, `CleanMeansPublished`, `DirtyListsArePublished` |
| `status_revocation_race` | 1 credential, 2 requests | finding: `RevocationIsFinal` is violated |
| `issuance_race` | 2 offers, 2 wallets, 2 requests, 2 slots of which 0, 1 or 2 are already used | `OneCredentialPerOffer`, `SlotsWithoutGaps`, `OldOffersDieWithIssuer`, `LocksAreReleased` |
| `keys_mixed` | a rotation of all roles and a deactivation on one queue, log of 4 entries, fair | queue: `CopyAgreesWithRow`, `ImplementsLifecycle`, `EventuallySettled`; sagas: `DeactivatedMeansClosed`, `NoRepeatedTail`, `EntriesSignedByPublishedKey`, `DeactivatedIsFrozen` |
| `keys_overlap` | 2 rotations of one issuer, one of all roles and one of the Authorized key alone, side by side or one after the other, log of 5 entries | `IssuerKeysArePublished`, `CompletedRotationIsInForce` |
| `create_retries` | 1 creation, up to 3 DIDs, triples, entries, list rows | `IssuerRowMatchesLog`, `GenesisIsStable`, `CompletedIsUsable` with every step repeated |
| `token_refresh` | 3 callers on 2 replicas, 3 refresh tokens, fair | `PresentedTokenIsAlive`, `SingleFlight`, `CallsEnd` |
| `catalogue` | 1 type, 2 schemas, 2 edits and 2 offer requests at a time, 4 timestamps | `ValidatorOfReadRow`, `MatchingEntryIsCurrent` |
| `listings` | each of the 6 endpoints with each filter, 3 rows, pages of 1, 3 ticks | `NoRowTwice`, `NothingSkipped`, `ShownAsAsked` |
| `accounts_linking` | 2 accounts of a tenant, 2 users, 3 invitations, 2 requests | `LinkIsFinal`, `LinkedByOneInvitation` |
| `bff_sessions` | 2 logins as 2 users, 2 overlapping requests, 3 accounts in 2 tenants | `SessionCoherent`, `OneSessionPerLogin` |
| `api_keys` | 2 calls, 2 keys, 2 changes of the key set, 3 tenants, 2 users with an account each in another tenant, fair | `OutageKeepsKeys`, `CacheNeverGoesBack`, `CacheFollowsRealm`, `UserReachesOwnTenants` |

Every property relates two actors, or one of them and a crash, a lost answer or the clock;
two or three of a kind are enough to make them meet. The third invitation is for one that
replaces an expired one while a third is accepted; three rows with pages of one make page boundaries
fall inside and outside a run of equal timestamps; the third tenant is one that does not exist at
first; two accounts of one user let a stale selection differ from the current one; a second list
is what a publisher may prefer to a dirty one.

Bounds. `MaxVersion` (of the realm's key set), `MaxKeys`, `MaxLog`, `MaxMinted`, `MaxTokens`, `MaxClock`, `MaxTime` and `MaxSessions` stop an action
that would exceed them; each leaves room for one effect that is repeated once and one that comes after it.
`CHECK_DEADLOCK FALSE` because these systems may come to rest: every task settled,
every offer spent, every bound reached.

The type invariants `IssuanceTypeOK`, `KeyTypeOK`, `CreateTypeOK`, `AccountTypeOK`, `WebTypeOK`,
`JwksTypeOK`, `CatalogueTypeOK` and `ListTypeOK` and the inductive invariant `StatusInv` hold on the
same instances (add them to the cfg); the runs keep to the properties that say more.

Every property of a passing run has a mutant: a variant of one mapped definition,
written next to it ("Mutant: ..."), under which the property fails.

Fairness.
* `KeyFairness` (and `TaskFairness`): the loop polls and timers run out (weak). What a loop is about to do
  over and over it does in the end (strong): the supervisor restarts the process, and a
  crash does not strike at the same place for ever. Strong fairness of `Load` assumes
  that every row decodes (section 6 for one that does not).
* `StatusFairness`: transactions of requests end, timers run out and the publisher polls (weak). Lock waiters
  are served in turn, so recording a success is strongly fair; a publisher that PUTs again and again is
  acknowledged at last. Which dirty list a round takes is not a matter of fairness but of the query. No fairness makes a
  request be made.
* `TokenFairness`: tokio's mutex and Postgres serve waiters in order; steps of a
  caller are weakly fair.
* `JwksFairSpec`: time passes; calls run to their end; calls with tokens of every published key keep
  coming; a realm asked again and again answers in time at last. The realm's changes are not fair.

## 4. Proofs

Each theorem holds for every value of the constants that meets the named assumptions of its module: any number
of tasks, offers, accounts, requests, and any bound. What is assumed besides is in the statement.
`PROJECT.json` lists the theorems with the property each one states.

| Module | Theorems | Inductive invariant |
|---|---|---|
| `OperationTasks_proofs` | `TaskTypes`; with `OneWorker`: `CopyIsCurrent`, `QueueImplementsLifecycle`, `PollersCanRelyOnIt` | `QueueInv` |
| `CreateIssuerSaga_proofs` | `CreationsRunOnTheQueue`; with `OneWorker`: `RowsMatchTheLog`, `CompletedIssuersAreUsable`, `GenesisEntriesAreFinal` | `CreateInv` |
| `KeySagas_proofs` | `KeySagasRunOnTheQueue`; with `OneWorker`: `PublishesOnceInARow`, `SignersArePublic`, `DeactivationIsPublished`, `DeactivationIsFinal`, `RowKeysArePublished`, `CompletedRotationsHold` | `LogInv`, `OwnInv` |
| `Publishing_proofs` (of `StatusLists`) | `StatusTypes`, `BitsFollowStates`; with `OnePublisher`: `CleanListsArePublished`; with `[]OneRequestPerCredential`: `RevocationHoldsWithoutOverlap` | `StatusInv`, `PublishInv`, `StillAllowed` |
| `Publishing_proofs` (of `TokenProvider`) | `TokenTypes`, `OnlyLiveTokensArePresented`, `RefreshesAreSingleFlight` | `RowInv` |
| `CredentialIssuance_proofs` | `OffersIssueOnce`, `SlotsAreConsecutive`, `DeactivationKillsOffers` | `IssuanceInv` |
| `CredentialTypes_proofs` | `ValidatorsMatchTheRow`, `EntriesAreCurrent` | `CatalogueInv` |
| `BffSessions_proofs` (also of `UserAccounts`) | `LinksAreFinal`, `LinkedOnce`; `SessionsAreCoherent`, `LoginsEndOnce` | `LinkInv`, `WebInv` |
| `ManagementApi_proofs` (of `ApiAuthentication`) | `JwksTypes`, `CacheIsMonotonic`, `WarmCacheServes`, `UsersStayInTheirTenants` | `JwksInv` |
| `ManagementApi_proofs` (of `Listings`) | `ListingTypes`, `PagesAreDisjoint`, `WalksAreComplete`, `FiltersAreHonoured` | `ListInv` |

`Publishing_proofs` and `ManagementApi_proofs` each extend two components that share no variable.

Queue. `CopyAgreesWithRow` is not inductive alone: a claimed row must be known to be
live when `SetAcquired` copies it. `QueueInv` adds `ClaimedIsLive`, and `AbsentIsNew`
for the refinement of `Submit`. One loop is what makes the unconditional UPDATEs
safe: with two loops `CopyAgreesWithRow` is false (section 6). The refinement maps `state` and `step` to the row's
columns. `PollersCanRelyOnIt` then follows from the abstract steps alone: completed means that all steps of the saga were
recorded as done, steps go up by one, ends are final.

Sagas. Every step of a saga module is a step of the queue or leaves it alone (`CreationsRunOnTheQueue`,
`KeySagasRunOnTheQueue`), so the theorems about `TaskSpec` hold of the sagas and their proofs start from
`QueueInv`. The effects of all steps are first summed up in one formula (`CreateEffect`, `SagaEffect`: what
may be published, minted or written, and what is true when the step says done), which is then all the invariants need.

* `CreateInv`: the entry publish_didlog and persist_issuer derive is a function of the DID, the keys and created_at,
  and each of them is final once its step is behind the task (`ResultsOK`, `StepsOK`); what the registry serves was
  derived by a task that owns the DID (`RegistryOK`, `DidsOK`), so that a PUT that replaces a log puts the same log there.
* `LogInv`: a task is past its publish step only with its key, or the deactivation, public (`StepsOK`, with
  `ResultsOK` for a step that ran and is not recorded yet), and an entry carries the keys of its rotation (`EntriesOK`). It
  holds of any mixture of tasks, overlapping or not.
* `OwnInv`: rotations may overlap, and what keeps them apart is that generated keys are new (`KeysAreMinted`,
  `MintedIsFresh`): until a rotation with a new Authorized key is swapped in, nobody else has that key, so an update key that
  makes publish_rotation skip its PUT is the task's own (`KeyIsOwn`) and the rotation has an entry when it swaps
  (`RotationsPublish`). A task that had ended when another was submitted does not write again (`SettledAreOver`), hence
  the row holds the keys of a rotation that was not over then (`RowIsInForce`). Neither theorem asks that rotations come one
  at a time; what an overlap may still do is in section 6.

Status lists. `StatusInv`: slots are distinct (`SlotsAreDistinct`), those above `allocated_count` are untouched
(`FreeSlotsAreValid`), and while a request holds a list's row lock nobody else does and its copy is the bitstring
(`LockedListIsMine`). Without the last, a bit written from a stale copy could not be excluded. `PublishInv` follows a
round: its list stays dirty to its end, its copy is the bitstring unless a commit came after it, and what was
acknowledged is served (`RoundOK`). The binary starts one publish loop; with two, a PUT after the lease ran
out breaks it (section 6). `RevocationIsFinal` is false (section 5); `RevocationHoldsWithoutOverlap` says that
overlapping requests for one credential are the only way to break it. Its invariant, `StillAllowed`, is what a lock at the
read would give: what `find` saw still allows the operation.

Issuance. `IssuanceInv` is the lock discipline: who is in the transaction holds the offer alone and found
it pending (`LockedOfferIsMine`), who holds the list has the next free index (`LockedListIsMine`), a presented token does
not change (`TokensAreFinal`), and in a deactivated issuer only later offers are pending (`PendingAreLate`).

Token provider. `PresentedTokenIsAlive` needs the whole passage of a token through the tenant row: one owner of
the row (`OneRowOwner`), a live token in its hand after the grant (`GrantedIsAlive`), a live one
in the row between owners unless one got lost (`StoredIsAlive`). `SingleFlight` is inductive given the types.

Credential types. `updated_at` may go back, so an order of timestamps is of no use. What holds is that a stamp
tells the versions apart: row, cache and requests that hold the same stamp hold the same schema (`OneSchemaPerStamp`),
and a stamp drawn by a waiting UPDATE is nowhere yet (`PendingStampsAreUnused`).

Accounts and BFF. `LinkInv`: an account has one pending invitation (`OnePending`), hence whoever is about to link by an
invitation still pending finds the account unlinked (`LinkingIsUnlinked`). `WebInv` says of the copies of overlapping
requests what `SessionCoherent` says of the records (`CopiesOK`), and that a login is used up by the request that took it
(`LoginsOnce`). `LinksAreFinal` enters there: the accounts change under the sessions, the links do not.

API authentication. `CacheNeverGoesBack` cannot be seen from the cache: an answer older than it might be on its way. None
is, because a fetch under way is the last attempt (`OneFetch`: the age of the attempt is the age of the fetch, at most
`Timeout`), the next one starts only after `Cooldown`, and `Timeout < Cooldown`; so an answer is never older than the
cache (`AnswersAreNewer`). `CacheIsFilled` (a filled cache, and the realm, have a key) gives `OutageKeepsKeys`, and
`OpenCalls` (no verdict, no issuer before the end) with `ScopeFollowsClaims` (the tenant a call is scoped to is one its
claims allow) gives `UserReachesOwnTenants`: the claims are read in one step, the tenant derived in a second and the issuer
reached in a third, while accounts are deactivated and tenants made.

Listings. The rows are ordered by (created_at, id); `RanksAreTaken` shows that the rows of a finite set take exactly the
ranks from 0 up (the rank is an injection between sets of one size, so no induction is needed). Hence a page has at most
`Limit` rows, is not empty when there are more, and all rows left out lie behind all of it (`PageFacts`, `LastFacts`).
`ListInv` then follows a walk: what was returned lies at the cursor or before it (`ReturnedInv`), what is owed behind it
(`OwedInv`) or, once a page is read, on the page or behind it (`PageInv`). A steady row must match at the clock and at the
request's own now (`SteadyInv`): a row asked for as expired would otherwise not be found by a query whose now is older.

Assumptions on the constants. Sets that a model chooses a filler from are not empty, those that are counted are finite,
and bounds are numbers. `NullAssumption` and `NoSessionAssumption` say that SQL's NULL is not a row and no
session record. `KeyCacheAssumption` holds of the code's constants (10 s, 30 s, 600 s). `KeyAssumption`: the id of the saga that wrote the first entry is no task's id.

Only model-checked: liveness (`DirtyListsArePublished`, `EventuallySettled`, `CallsEnd`, `CacheFollowsRealm`) and
`LocksAreReleased`, because fairness and the latter need ENABLED, which the prover does not have. Every other property of a
passing run is a theorem.

## 5. Finding

**Revocation can be undone** (`status_revocation_race`). `run_lifecycle_op` reads the
credential without a lock and `set_state` writes by id, so a suspend that read `active` before a
revocation committed sets the credential, and its bit, from revoked to suspended; this is the run's trace. An unsuspend
that read `suspended` sets it to active in the same way. The handler's comment says revocation cannot be undone. Without two such requests at a time it
cannot (`RevocationHoldsWithoutOverlap`, section 4).

## 6. Known divergences and other behaviours met while modelling

Not runs of their own; each can be reproduced by stating the property, which for the first three is in
the module, or by enlarging a constant.

Code against its documents or comments:

* A rotation without the Authorized key fails when it runs alone: the already-rotated test
  (`rotate_keys/didlog_builder.rs:136`) compares the tail's update key with the unchanged Authorized key.
  `aspect-issuer.md:45`: "A rotation rotates **one, two, or all three** of the issuer's keys".
  `KeySagas!RotationsAreNotRefused` fails with `Rotates <- OtherRoles`.
* A deactivation that failed in its last step cannot be repeated: the log is closed, the row is still
  active, and every new task ends at its first step as already deactivated
  (`KeySagas!DeactivationsAreNotRefused`, with `Rotations = {}`). `issuers.rs:217`: "the BA wants the issuer
  deactivated, so submit a fresh attempt".
* An offer created after its issuer was deactivated can be redeemed; no endpoint looks at the state
  (`CredentialIssuance!NoIssuanceOnceDeactivated`). `aspect-credential-management.md:100`: "that gate sits on the
  issuance path". Offers of before are safe (`OldOffersDieWithIssuer`).
* A second dispatch loop (`Workers = {w1, w2}`) can claim an in_progress row while its step
  runs and overwrite its terminal state (`operation_tasks.rs:292`); `aspect-issuer.md:95` calls
  multi-worker dispatch "a mechanical change rather than a redesign".
* A row that does not decode, or an unknown step, is claimed and dropped for ever
  (`runner.rs:288`), where `impl-issuer.md:207` has a terminal failure.
* A full list ends issuance with an error, where the spec describes a roll-over to a new one.
* `domain/user_account.rs:41` calls deactivation one-way; there is an activate endpoint. The identity's names are
  said to be refreshed on each login; `refresh_idp_names` has no caller.
* The filter on retired types in `build_credential_configurations` is called "defence in depth, not a load-bearing
  filter" (`impl-credential-type.md:220`), because retire deletes the assignments (`RetireRow`). It is what keeps retired types out of the metadata:
  `assign` does not look at `retired_at`, and one that has passed its check inserts after the retirement
  (`AssignInsert`). An offer request that read the type before its retirement gets past the
  assignment probe in the same way.
* The dev seeding of the CLI speaks of "every active issuer" and also takes deactivated ones;
  run again after a timeout it enqueues a second creation.

Races the code admits, without a promise against them:

* The first run of a later step is counted as attempt 1, since `advance_step` leaves
  the row in_progress (`operation_task.rs:278`).
* A rotation in flight beside a deactivation is appended to the closed log; a publish
  resumed behind another saga's entry is appended again (only the tail is inspected); after a
  rotation published but not swapped, entries are signed by a key already rotated out, though by one
  that was once published (`EntriesSignedByPublishedKey`).
* Two submissions may both find no task in flight (`issuers.rs:301`), although "a duplicate submission
  for the same issuer should return the existing task" (`operation_tasks.rs:73`); and since only the latest task is looked at, a third is admitted while an
  older one is still live. Two rotations then alternate (`keys_overlap`): t2 swaps its keys and the answer is lost; t1 publishes,
  swaps and completes; t2's swap_keys is repeated and puts its older keys, rotated out by the log's tail, back into the
  row. They are still a published version (`IssuerKeysArePublished`) of a rotation that was in flight beside t1
  (`CompletedRotationIsInForce`). Beside another rotation one without the Authorized key passes the already-rotated test
  of its first steps and may complete with keys that are in no entry; the properties, and the theorems, name that exception.
* With lifecycle requests that never stop, a list that is dirtied again and again is taken before one whose
  retry timer has passed (NULLS FIRST, `status_lists.rs:340`), so the other may wait as long as they go on.
  `DirtyListsArePublished` is about what happens once they stop.
* A lost answer mints a second DID or status-list entry. A creation that fails after
  persist_issuer leaves an active issuer without a list.
* A token inserted without its nonce makes the offer unredeemable (UNIQUE offer_id). A second POST /token may
  leave a token row behind an issued offer; it cannot be redeemed.
* Two publishers can leave the registry behind a clean row (`status_lists.rs:318`).
* The refresh token is used up when the grant's answer or the commit is lost (`lost` in
  `TokenProvider`; `aspect-authn.md:105`); `--only-if-empty` decides on an unlocked read.
* Of two concurrent PATCHes of an account one may be lost (`PatchRead`, `PatchWrite`). `link_identity` does not
  ask whether the account is active.
* While the first fetch of the keys is under way, other calls get 503; a call made during another's refresh may
  get 401 for a new key. The BFF fetches its login keys at startup only (`login.rs:105`).
* A late save can undo a selection of an account, bring a logged-out session back, or lose renewed
  tokens; it cannot mix two logins (`SessionCoherent`).
* A poller may see an offer expired and then issued: the issuance judges expiry by its own, earlier now.
* A row inserted late with an older `created_at` may fall behind the cursor of a walk; `NothingSkipped` is about rows
  that were there throughout.

## 7. Abstractions and what is not modelled

* The registries, the authorization server, the realm, the session layer and Postgres are external. A PUT takes
  effect while its sender waits for the answer, never later. A grant rotates the refresh
  token; its seven-day lifetime and its revocation by the operator are left out.
* The sagas run under one dispatch loop, as in the code. Some early returns of
  steps (state_data that already holds the step's result) are then never taken,
  because the patch and the step are written together; they are in the models all the same.
* The attempts counter of a task is left out; it feeds the delay of the backoff, which the model leaves open, and the
  answer to a poller. It saturates as a u32 and is written `as i32` into an INT column (`operation_tasks.rs:169`): past
  2^31 claims of one step it would turn negative and the row would stop decoding.
* The connection pool is left out. POST /credential holds one connection while it begins its transaction on a
  second (`credential.rs:211`): as many requests as the pool has connections wait for each other until the
  acquire times out, which is `RequestFails`.
* Encodings, signatures, SD-JWT, DID-log hashes, JSON schemas and HTTP are left out. Tenant isolation is
  modelled where it is decided (`ApiAuthentication`); the other queries repeat it as a WHERE clause.
* A session's idle and absolute lifetimes both end it (`SessionEnds`); the code checks the absolute one where it requires a
  session, and `select_account` does not. The PKCE verifier and the OIDC nonce belong to a login
  and are not values of their own.
* Not modelled: the signing engines (a generated key is a number, a signature is
  its key; whether a Vault key is left behind by a failed generation is not visible to the service) and the
  secret encryption engines (cryptography, I/O); the CLI's dev seeding, Keycloak provisioning and metadata updates
  (sequential scripts of an operator); schema and format documents of the OIDC API (constant text); the SPA.

## 8. Plan

Done: queue and lifecycle, status lists, issuance, the sagas, token provider, credential types, listings, accounts,
API authentication, BFF; every safety property of the passing runs but `LocksAreReleased` proved.

Next, if the code changes: a lock in `run_lifecycle_op` would make `RevocationIsFinal` provable without its hypothesis, a
unique index on queued tasks would let `CompletedRotationIsInForce` say that only later rotations replace a completed
one, and a second worker or publisher needs
conditional UPDATEs first (section 6).
