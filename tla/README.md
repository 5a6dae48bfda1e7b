# RelayAuth: specification and verification

This directory holds TLA+ modules for the RelayAuth service and its client, the
TLC configurations that check them on small instances, and proofs for the
results that must hold on instances of any size. Paths below are relative to the
repository's `packages/server/src/` unless they begin with `packages/`, `docs/`
or `specs/`.

## The system

RelayAuth issues, refreshes, revokes and checks tokens for agents, people and
services. One Node process serves HTTP (Hono) over one SQLite file; other
storages may implement the interface `AuthStorage`. Verifiers and clients live
in other processes and use the SDK.

| Component | State it keeps | Operations | What makes it hard | What makes it correct |
|---|---|---|---|---|
| Token lifecycle (`routes/tokens.ts`) | rows of `tokens` with a status, the denylist `revoked_tokens` with expiry times | issue (login, agent, durable, path, workspace-path), refresh, revoke (by token, session, identity, agent name), introspect, public revocation check | a handler awaits while it signs; reuse detection lists tokens and revokes them in two calls; two clocks (token expiry with skew, denylist expiry) | single-use refresh, one live refresh token per session, revocations are final, replay ends the session, delegated lifetimes stay bounded |
| Bearer authentication (`lib/auth.ts`, `packages/core/src/token-verify.ts`) | none | verify a token, check denylist and workspace lineage | must agree with what revocation writes | nobody enters after a revocation |
| Workspace tokens, API keys (`routes/api-keys.ts`) | rows of `api_keys` | create, revoke, last-used bookkeeping | derived tokens look at the row later | a revoked parent stops its derived tokens |
| Identity lifecycle (`routes/identities.ts`) | rows of `identities` | create, update, suspend with children, retire, reactivate, delete | status and tokens change in separate commits; a suspension walks over children; requests issue tokens meanwhile | an answered suspension, retirement or deletion ended every token there was |
| Signing keys (`lib/signing-keys.ts`) and verifiers (`packages/sdk/typescript/src/verify.ts`) | three key slots; the verifier's cached key set | stage, promote, retire; verify | fetches overlap and answers come late while keys move | a rotation refuses no valid token, a withdrawn key dies out |
| Attestation ledger (`routes/attestations.ts`) | grants, one hash chain per organisation | append with the write it attests, redeem | signatures between check and commit; a write whose success is reported as an overload | one chain without gaps; evidence once and in time |
| Storage retry (`lib/storage-retry.ts`) | none | up to three attempts | an error after the commit | never repeat what may have committed |
| Policies (`engine/policy-evaluation.ts`, `engine/policies.ts`) | rows of `policies` | create, update, delete, evaluate | priorities, overlapping scopes, conditions on absent attributes | nothing without a grant or against a denial that outranks it |
| Scopes (`packages/core/src/scope-*.ts`, `engine/scope-inheritance.ts`) | none | parse, match, narrow, inherit | wildcards, paths, implied actions, two matchers | matching is transitive; narrowing never widens |
| Roles (`engine/roles.ts`, `engine/role-assignments.ts`) | rows of `roles`, a list in each identity | create, update, delete, assign, unassign | lists that name deleted roles | only the roles there are count |
| Retention (`engine/retention-gc.ts`) | cursors kept by a scheduler outside | windowed scan, re-asserting delete, of tokens and of identities | rows change between scan and delete; rowids are reused; one sweep deletes the evidence of the other | nothing in use is deleted, nothing stale stays |
| SDK session (`packages/sdk/typescript/src/agent-token-session.ts`) | the current pair, one flight | get, force a renewal | concurrent callers, lost answers, orphaned requests | the client never ends its own session |
| Audit log and webhooks (`engine/audit-*.ts`) | append-only rows, registered hooks | write, query, export, deliver | lost answers, a stop between attempts | an entry for every operation |
| Rate limits (`lib/rate-limit.ts`) | a bounded table of windows | consume | the table is full | no client exceeds its limit |
| Storage capacity (`engine/storage-capacity.ts`) | a cached sample | assess | stale samples | unknown fails open |
| File ACL (`packages/core/src/file-acl.ts`) | none | match a path against rules | order of rules, inheritance | the decision equals its definition |

How they interact: handlers call storage methods and nothing else persists.
Bearer authentication runs before every handler and reads the denylist and
`api_keys`; identities, sessions and workspace tokens are joined to tokens only
through claims, so a change of the former takes effect through a revocation
somebody must write. The SDK session talks to the refresh and agent-token
routes; the verifier talks to the key set route. The retention sweeps read what
issuance and revocation write and delete it behind their back.

## Modules

| Module | Models | Checked by | Proved in |
|---|---|---|---|
| `RefreshChain` | abstract promise of refresh: a session is a chain of refresh tokens, the last of which at most can be exchanged | as `ChainSpec`; used by `AgentSession` | |
| `TokenLifecycle` | issue, refresh, revoke, check; workspace tokens; collection; failures and restarts | `MCTokenLifecycle` | `TokenLifecycle_proofs`, `TokenRevocation_proofs` |
| `IdentityLifecycle` | status of identities, what a change does to tokens and to children, against issuance and refresh; failures and restarts | `MCIdentityLifecycle` | `IdentityLifecycle_proofs` |
| `KeyRotation` | key slots, the operator's rotation, a verifier with overlapping fetches | `MCKeyRotation` | `KeyRotation_proofs` |
| `EvidenceLog` | abstract promise of the ledger: logs that only grow, identities recorded once, grants redeemed once and whole | as `EvidenceSpec` | |
| `AttestationLedger` | creations of identities, grants, redemptions, the hash chains, retries, failures | `MCAttestationLedger` | `AttestationLedger_proofs` |
| `AgentSession` | the SDK's session over a network that breaks, on top of `RefreshChain` | `MCAgentSession` | `AgentSession_proofs` |
| `Scopes` | scopes and the two matchers, as operators | through `AccessControl` | `AccessControl_proofs` |
| `PolicyEvaluation` | conditions, decisions, effective scopes, inheritance, as operators | through `AccessControl` | `AccessControl_proofs` |
| `AccessControl` | roles, policies and an agent under the routes that change them; the decisions in every state | `MCAccessControl` | `AccessControl_proofs` |
| `RetentionSweep` | the sweeps of identities and tokens against the routes | `MCRetentionSweep` | `RetentionSweep_proofs` |

How they compose: `TokenLifecycle` implements `RefreshChain`, and `AgentSession`
uses `RefreshChain` as its service, so that what the client relies on is what
the server is shown to do. `AttestationLedger` implements `EvidenceLog`.
`AccessControl` extends `PolicyEvaluation`, which extends `Scopes`. Definitions
named `X_Something` are mutants of `X`: what `X` would be with a plausible
mistake in it, each breaking the property named in `PROJECT.json`.

### `TokenLifecycle`

*Processes.* A request is a process: `pc[r]` is the step it takes next. One
action is what a handler does with one storage call. A storage transaction is
one action: between `beginSqliteTransaction` and `commitSqliteTransaction` there are
only synchronous statements (`storage/sqlite.ts:2001-2044`), and an error rolls all
of them back in the catch block.

*State.* `claims[p]` is what the two tokens of pair `p` were signed with;
`row[t]` and `denied[t]` are the tables `tokens` and `revoked_tokens`
(`denied[t]` is `expires_at`, 0 when there is no row); `parent[w]` is the row of
a workspace token. `arg`, `draft`, `targets`, `closing` are the handler's local
variables. `acked`, `killed` and `late` are history variables: what was
answered, and whether a request came after the revocation it should feel.

*Actions and code.*

| Action | Code |
|---|---|
| `PrepareIssue`, `PersistIssue` | the four issuing routes and `issueTokenPair`, split where signing suspends |
| `BeginRefresh`, `CheckDenylist`, `CheckRow`, `ResolveRefresh`, `Rotate`, `RotateConflict` | `POST /v1/tokens/refresh` and `rotateIssuedPairWithAudit` |
| `CascadeList`, `CascadeApply` | `cascadeRevokeSession`, its read and its write |
| `BeginRevoke`, `ApplyRevoke` | `POST /v1/tokens/revoke` |
| `CheckBearer`, `CheckLineage` | `isBearerTokenInactive`, `isWorkspaceLineageRevoked` |
| `Introspect`, `IntrospectRow`, `PublicCheck` | the two read-only routes |
| `CreateWorkspaceToken`, `RevokeWorkspaceToken`, `LoseWorkspaceToken` | the row of the workspace token |
| `Tick`, `CollectRow`, `Fail`, `Restart` | time, token collection, a failing call, a restart |

*Who may interleave.* `TurnBased = TRUE` is the shipped build. Its storage
methods are `async` and never suspend on I/O, so an `await` on them runs on in
the microtask queue before another request is looked at; a handler suspends
where it reads a body and where WebCrypto signs or verifies. The chart deploys
exactly one replica (`charts/relayauth/values.yaml`). The variable `loop` holds
the request in the middle of such a turn. `TurnBased = FALSE` drops this and
lets every storage call suspend, which is what an adapter behind `AuthStorage`
may do. One caveat: requests that arrive while the SQLite file is being opened
for the first time all wait for the same promise (`BackendProvider`), so their
first storage call is followed by those of the others; turns hold from then on.

*Abstractions.*
- Time is counted in ticks; lifetimes, skew and grace are constants. `Forever`
  is `MAX_REVOCATION_EXPIRY`; an "indefinite" durable token, stamped with an
  expiry in 2100, is one whose `DurableTTL` is beyond `MaxTime`.
- Scopes, audiences, sponsor chains, names and the wrapping of token strings
  are left out: no property here tells them apart. So are the status of an
  identity (`IdentityLifecycle` has it) and the check that a derived token
  and its parent share a workspace.
- The check of the parent, the reading of the body and the signature of an
  issuing route are one gap before `PersistIssue`, the widest there is.
- A signature is a fact: a token the service did not issue is not presented.
- The checks are those that read the tables. `middleware/scope.ts` reads none of
  them (Disagreements), so `NoLateSuccess` says nothing about the routes behind it.
- Revocation by agent name may reach tokens of any subject; it is the third
  disjunct of `BeginRevoke`, as is revocation by identity.

### `IdentityLifecycle`

*State.* `status[i]` and `sponsor[i]` are the row of an identity (`deleted` when
it is gone); `owner[p]`, `session[p]`, `row[t]` and `denied` are what the token
tables say of a pair and of its two tokens. `root`, `who`, `at`, `targets`,
`todo` are the local variables of a handler: the identity it was called with, the
one it is at, the token it is revoking, the listed tokens and children that
remain. `covered` (whose status the request has changed) and `doomed` (the tokens
an answered change should have ended, and what descends from them) are history.

*Actions and code.*

| Action | Code |
|---|---|
| `Create` | `POST /v1/identities`, `createIdentityWithLedgerEntry` |
| `ExceedBudget` | `PATCH /v1/identities/:id` through `applyBudgetPolicy` |
| `Reactivate` | `POST /v1/identities/:id/reactivate` |
| `BeginChange`, `WriteStatus`, `RefuseStatus` | the start of suspend and retire; `suspendIdentity`, `retireIdentity` and the conflict they may meet |
| `BeginDelete`, `Erase` | `DELETE /v1/identities/:id`, which lists tokens before it deletes the row |
| `ListTokens`, `Deny`, `Flip` | `listActiveIds` and `revokeIdentityTokens`, one statement each: there is no transaction |
| `Revoked`, `NextChild`, `Done` | the walk over `listChildIds` and the response |
| `BeginIssue`, `PersistIssue` | `POST /v1/tokens`, `/agent`: they ask that the identity exists, not for its status |
| `BeginRefresh`, `Rotate`, `RotateConflict` | `POST /v1/tokens/refresh`, which does ask for it, before it signs |
| `Fail`, `Restart` | an error or a restart between two statements |

*Abstractions.* Requests run in turns, as above. Time is left out, so no token
expires and a denylist entry is for good. Creation is one action: what it does
before its transaction changes nothing here. Deletion and the creation of an
identity with an id used before are not modelled together (ids are random).
Durable tokens behave here as login pairs whose refresh token is not used.
Organisations are left out: they partition everything. The audit event written
after each child is no state of this module; its failure is `Fail`. The walk over
the children is one turn: `ChildrenFollow` says that it leaves none out, not that it
stands up to changes in between, which only an adapter that yields would let in.

### `KeyRotation`

*State.* `slots` are the keys `current`, `next` and `previous` the running
service was started with; `stagedAt`, `promotedAt`, `withdrawn` and `hurried`
say when the operator moved them and whether a wait of the runbook
(`docs/self-hosting.md`) was skipped. `lastExp` and `indefinite` are the tokens
in use, per key. `cache` is the key set of one `TokenVerifier` with its end, and
`call[c]` a call of `verify`.

| Action | Code |
|---|---|
| `Sign`, `SignIndefinite` | signing with the current key |
| `Stage`, `Promote`, `Reissue`, `Retire` | the operator's steps; each is a restart with other slots |
| `Begin`, `Receive`, `Abort` | `TokenVerifier.verify`, the fetch with its forced second try, its timeout |
| `Answer`, `Published` | `GET /.well-known/jwks.json` |

*Abstractions.* Only the longest-lived token of each key is presented, which is
the one that would be refused last. A key withdrawn is not staged again.
Importing a key and checking a signature take no time. `Forever` stands for the
expiry of an indefinite token. The verifier is the SDK's; the one in
`packages/core/src/token-verify.ts` has the same cache, but no timeout of its fetch.

### `AttestationLedger` and `EvidenceLog`

*State.* `identity`, `grants` and `ledger` are tables; `wsRevoked` is the row of
the workspace token that asks for grants; `req[r]` is a request with what it has
read and signed.

| Action | Code |
|---|---|
| `Arrive`, `Lookup`, `Overloaded` | `POST /v1/identities` up to its signature: `findDuplicate` under `withStorageRetry` |
| `Create` | `createIdentityWithLedgerEntry`, called once; an adapter may report an overload after its commit |
| `Ask`, `Give` | `POST /v1/attestations/grants`, `createGrantWithLedgerEntry` |
| `Finalize`, `Redeem` | `POST /v1/attestations/finalize`, `redeemGrantWithLedgerEntries` |
| `Fail`, `ChangeStatus`, `RevokeToken`, `Tick` | failures, other routes, time |

*Abstractions.* SHA-256 is injective: the hash of the n-th row is written n. The
contents of entries are the event they attest. Deletion of identities is left to
`IdentityLifecycle`. `redeemedAt` is stamped just before the transaction and is
the time of the transaction here. The retry of the organisation's budget is part
of `Lookup` and `Fail`. Names have no unique index
(`docs/operations/identity-retention-gc.md:228`), so overlapping creations can
share a name; `TakenNamesRefused` says that only those can. A creation whose commit
is reported as an overload is answered 503 with `retryable: true`, and not tried
again by the service (`WriteIsNotRepeated`). A client that does try again sends a new
request, which stores nothing more (`TakenNamesRefused`) and is answered 409 for the
name that its own first request took; no text promises it better. A creation that is
shed (`engine/storage-capacity.ts`) or over its rate limit writes nothing here and is no
action.

### `AgentSession`

*State.* `live`, `opened`, `spent` are `RefreshChain`; `claims` what a pair was
signed for; `req[q]` an HTTP request and then its answer. `current`, `flight`,
`caller`, `outcome` are the fields of the session and its callers. `losses`,
`lossy`, `stopped` and `replayed` are history.

| Action | Code |
|---|---|
| `GetTokenPair`, `ForceRefresh` | the two methods up to their first await: join, settle at once, exchange or issue |
| `Receive`, `Settle` | the continuation of `_request`, `#rotateTokenPair` and its catch; the `finally` |
| `Break` | `fetch` rejects; what was sent may still arrive |
| `Serve` | `POST /v1/tokens/agent` and `/refresh` with authentication before them, or an overload |
| `RevokeSession`, `RevokeParent`, `Tick` | operators and time |

*Abstractions.* The service answers in one step, which `TokenLifecycle` justifies
by implementing `RefreshChain`. An error of the refresh route after its commit is a
broken connection to the client. `_request` has no timeout, so that a request
which is waited for is answered or broken is an assumption about `fetch`. The
verifier's clock skew is left to `TokenLifecycle`. The answers are those the
routes send: a revoked workspace token is `invalid_api_key`, and none has a code
that `createRequestError` turns into the errors a reissue needs. A forced renewal
that joins a settled flight may not rotate; nothing promises that it does. So the
reissue of `#rotateTokenPair`, and with it the loop that `CallersAnswered` excludes,
shows only in the mutants. Durable tokens, which have no refresh token and are issued
anew (`agent-token-session.ts:88`), and the cap of refreshed lifetimes at the horizon
of the delegation (`routes/tokens.ts:1100`, in `TokenLifecycle`) are left out.

### `Scopes`, `PolicyEvaluation`, `AccessControl`

*State.* `role`, `policy` and `agent` are the rows of one organisation. The rows
of `organizations` and `workspaces`, which nothing in the repository writes, are
constants.

| Definition | Code |
|---|---|
| `CreateRole`, `UpdateRole`, `DeleteRole` | `engine/roles.ts` behind its routes |
| `AssignRole`, `UnassignRole` | `engine/role-assignments.ts` |
| `CreatePolicy`, `UpdatePolicy`, `DeletePolicy` | `engine/policies.ts` behind its routes |
| `PatchGrants`, `SetStatus`, `Spend` | the other writers of the agent's row |
| `Allowed` | `checkAccess` |
| `Inherited`, `InheritanceChain` | `engine/scope-inheritance.ts` |
| `EffectiveScopes`, `Decision`, `Permits`, `ConditionHolds` | `engine/policy-evaluation.ts` |
| `ScopeMatches`, `MatchScope` | the engine's matcher and the SDK's (`packages/core`) |

*Abstractions.* A handler is one step: it reads and writes storage without giving
up the event loop in the SQLite build. A path is a sequence of segments with an
optional trailing slash or wildcard, and the root is one; wildcards elsewhere, scopes that do not parse, roles
that are built in, and filters over other organisations are left out. An address
is a value, in a range or not. A patch of a budget may suspend the agent on the way
(`applyBudgetPolicy`); a budget of zero, which suspends and yet counts as kept
(`engine/policy-evaluation.ts:545`), is left out. `checkAccess` and the inheritance chain are
exported by the engine; routes call only their parts.

### `RetentionSweep`

*State.* `identity` and `token` are rows, `claims` what holders have, `denied` the
denylist, `lineage` the latest row of `token_lineages`, `config` the period in
`identity_retention_config`; `signing` is an issuance between its lookup and its
insert; `cursor` and `window` are the scheduler's.

| Action | Code |
|---|---|
| `ScanIdentities`, `PruneIdentities` | `scanStaleIdentitiesWindow`, `pruneStaleIdentitiesWindow` |
| `PruneTokens` | the deletes of the token sweep, of a window or a batch |
| `LoseWindow` | the scheduler stops between two statements |
| `CreateIdentity`, `ReportActivity`, `Pin`, `DeleteIdentity` | routes of identities |
| `BeginIssue`, `PersistIssue`, `FailIssue`, `Revoke` | routes of tokens |
| `Configure`, `Tick` | the operator, time |

*Abstractions.* One organisation. Deletion of an identity with its revocations is
one step (`IdentityLifecycle` has its steps). `lastActiveAt` is whatever a patch
says and is taken to be now. The scheduler is not in the repository: it keeps the
cursor and starts over after the last window, as
`docs/operations/identity-retention-gc.md` asks. It may hand the delete the scan's
older time, which deletes less. A child may name a swept sponsor, and a token may
be stored for an identity that was swept while it was signed; no text promises
otherwise. A row without an expiry (`Never`) is a legacy row: the module and the
proofs have it, the run leaves it out.

## Runs

Every run drops the deadlock check: clients may stop calling, and the clock and the
numbers of pairs and events are bounded. Model values are symmetric where no
temporal property but a box or a refinement is checked.

| Run | Instance | Question |
|---|---|---|
| `rotation` | 3 pairs, 1 session, 2 requests, time to 2, fairness | Is a refresh token single-use, is every accepted request answered, and does a replay end its session in the end? |
| `derived` | 2 pairs, agent, durable and path tokens of 1 workspace token, 2 subjects (1 stored), time to 2, failures and restarts | Does anyone get through after a revocation, at any entrance that reads them? Do delegated lifetimes stay bounded? Is the inductive invariant of the proofs true? Does it implement `RefreshChain`? |
| `lifecycle` | 2 identities, 2 pairs, 2 requests | Does an answered suspension, retirement or deletion end, for good, every token there was, whatever was signing, failing or changing meanwhile? Is no child left active? |
| `keys` | 2 keys, 2 overlapping verifications, time to 4 | Does a withdrawn key die out everywhere, and does a rotation by the runbook refuse nobody? |
| `ledger` | 2 organisations, identities, grants and requests, 1 name, redemptions of 2 commits, 2 attempts | Is each ledger one chain, is evidence recorded once and in time, is no write repeated? Does it implement `EvidenceLog`? |
| `session` | 4 pairs, 2 callers, 2 requests, 1 broken connection, time to 2, fairness | Does the client ever end its own session or open one needlessly? Is every caller answered? |
| `access` | 2 roles, 2 policies of 8 bodies, 3 grants, 3 requests, 3 contexts | Do decisions keep to grants and denials in every state of the tables? |
| `sweep` | 2 identities, 1 token, windows of 1 row, 1 event, time to 3, fairness of the sweep | Is anything in use swept? Does everything stale go? |
| `path_replay` | 2 pairs, 1 request | finding |
| `suspended_denied` | 2 identities, 2 pairs, 2 requests | finding |
| `session_revoked` | 4 pairs, 1 caller, 2 requests | finding |
| `deny_grants` | as `access` | finding |

*Bounds.*
- Tokens: three pairs are a login and two rotations, enough for a replay of a token
  two generations old; two requests are enough for every race on one row, because a
  transaction reads and writes one presented token; the clocks cover the expiry of
  access and refresh tokens. `derived` has the skew, and its clock ends
  before the grace lets a row be collected; `rotation`, whose liveness is costly, has
  no skew and collects as soon as a row has expired. The proofs are for any skew and
  grace.
- Identities: two are a sponsor and its child, or two that are independent; two
  pairs are a token and what it is exchanged for, or one of each identity; two
  requests are a change and one that issues, refreshes, or changes the same.
- Keys: two keys are one rotation, with an overlapping first and second fetch of two
  calls; the clock is longer than a cached copy plus a fetch plus the leeway.
  More rotations in a row are covered by the proofs.
- Ledger: two organisations show that chains do not mix; two commits of one
  redemption show that entries of one commit are linked to each other; two requests
  make every overlap of a check with a commit.
- Client: with one broken connection one request can be orphaned while another is in
  flight; four pairs are two sessions of two pairs each, or a chain of four.
- Policies: the eight bodies have both effects, a condition that must hold and one
  that must not, three workspaces, ties and both orders of priority, scopes broader,
  narrower and beside each other, and one that validation refuses.
- Sweep: one event (a patch, a deletion, a revocation, a reconfiguration or a lost
  window) between any two steps; windows of one row make every cursor position
  occur; a day is one tick (the theorem `NothingIsSweptEarly` is for any length).

*Fairness.* In `TokenLifecycle`, `FairSpec` asks strong fairness of what a request
does once accepted (`ServeFairly`). The event loop runs callbacks in the order they
become ready, so a request that again and again could go on does go on; strong,
because another request in its turn disables it for a while. Nothing is asked of
clients, of the clock or of collection. `FairSpec` has no restart and no failure
except the one for which the instance has run out of pairs; with them a request may
simply be lost. In `AgentSession` the client's thread runs and a request that is
waited for is served, weakly fair; nothing is asked of orphaned requests and broken
connections. In `RetentionSweep` the scheduler keeps calling scan and delete, as a
cron job does; nothing is asked of anybody else.

*Turns.* `ReplayKillsSession` and `KilledSessionStaysDead` are checked for the
shipped build (`TurnBased = TRUE`), proved under that assumption, and rest on its turns. If the denylist read and
the row read of a refresh could be separated by another request's rotation, the
second request would find an inactive row, be answered 401 "not found", and the
session would stay alive (`CheckRow`); a cascade whose list is separated from its
write could miss a pair that a rotation persists in between. An adapter with real
suspension points therefore weakens reuse detection, but never single use or
`NoLateSuccess`: the other theorems hold for either value.

## Disagreements

Between the code and a text, with a run:

- `path_replay`: reuse detection looks up the identity row of the subject and
  cascades only if there is one. Subjects of path tokens have none, so a replay
  is refused and the session lives on. A second exception, without a run: the
  denylist entry of a rotated token expires at the token's own `exp`, while the
  verifier tolerates 30 seconds more. In that window a replay is refused by the
  row check, again without a cascade (this is why `ReplayKillsSession` asks for
  an unexpired token and a stored subject).
- `suspended_denied`: the documentation says that suspended identities are always
  denied. Bearer authentication never reads an identity; a suspension acts through
  the revocations it writes. Three ways around it: a suspension by budget writes
  none; tokens may be issued to a suspended identity; and after an error or a
  restart between the status write and the revocations, the retry is answered 409
  before it comes to them. What does hold is `OldTokensStayDead`: a suspension
  answered with 200 has ended every token there was.
- `session_revoked`: the SDK's test has a revoked refresh answered with the code
  `token_revoked` and the session reissued; the service sends a text without a code,
  so the error reaches the caller and every later call meets it again until the
  refresh token nears its expiry.
- `deny_grants`: the engine decides about every scope that some policy names, those
  of denials too. A new denial of low priority can thereby make a narrow scope
  effective that was lost together with a broader one. Nobody gets in without some
  grant covering the request: that is `AllowedOnlyByGrant`, proved.

Without a run:

- `GET /v1/tokens/revocation` knows only the denylist, so a derived token whose
  workspace token was revoked is reported as not revoked (`README.md:74` against
  `routes/tokens.ts:1310`).
- The two copies of the parent check differ: introspection and refresh let a path
  token live on without its parent's row (`routes/tokens.ts:3113`); bearer
  authentication refuses it (`lib/auth.ts:501`).
- `lib/token-verifier.ts:20-22` says that the server enforces revocation "itself on
  every request via its own fail-closed denylist". The scope middleware
  (`middleware/scope.ts`), behind which are the routes of the audit log, of discovery,
  of identity activity and of the dashboard, verifies signature and expiry only: a
  revoked access token is good there until it runs out.
- `docs/rbac-design.md:195` and `specs/rbac.md:26` (also 261 and 523) say that an
  explicit denial always wins, whatever the priorities. `resolveRequestedScopeDecision`
  keeps the policies of the highest priority and looks for denials among those
  (`engine/policy-evaluation.ts:312`), and `policy-evaluation.test.ts:756` expects
  that: with deny `read:*` of priority 1 and allow `read:/a/x` of priority 2, reading
  `/a/x` is allowed. `DenyBinds` is what does hold: a denial wins ties, and gives way
  to a matching allowance of higher priority and to nothing else.
- `specs/rbac.md:635` subtracts what is denied from a scope; the code drops a broader
  scope as a whole for a narrow denial, and keeps a scope undiminished where neither
  covers the other (requests are checked against the denial once more).
- The effective scopes of the inheritance chain are the union of the levels, where
  `docs/rbac-design.md:227` has their intersection; each level is within the one
  above (`InheritanceNarrows`). Allowing policies add scopes beyond the boundary,
  which `specs/rbac.md:269` forbids.
- A condition on an attribute the request lacks never holds, so a denial with
  `not_in` on an unknown address does not apply. A role scoped to one workspace
  counts in the others. An empty workspace in the context selects the policies of
  all of them.

## Proofs

All proofs are for any values of the constants under the assumptions named in the
modules. Each goes by an inductive invariant, because the properties alone are not
inductive; lemmas take one action, or one conjunct, at a time.

`TokenLifecycle_proofs`, for any sets of pairs, sessions, subjects and requests, any
lifetimes and either value of `TurnBased` (positive lifetimes, distinct null values,
`Skew <= Grace`):

- `StoreInvariant`: `StoreInductive`. That `Rotate` is the only pair with its `prev`
  follows from its presented row being active, so one needs `Lineage` (whoever was
  exchanged is retired), `RequestsKnow` (what a signing request remembers of its
  token is still true; claims never change), `FreshSession` (two logins never share a
  session id) and `RecordsAreIssued` (rows belong to issued pairs).
- `TypeCorrect`, `RefreshIsSingleUse`, `SessionHasOneRefresh`, `RevocationPersists`,
  `DelegationIsBounded`: the safety properties, as parts of it.
- `ImplementsRefreshChain`: the refinement. Each action is an opening, a rotation, an
  end of sessions or a stutter of `RefreshChain` under the mapping that takes a
  session to its one active refresh row.

`TokenRevocation_proofs`, on top of it, is about who may still get through:

- `InductiveInvariant`: `Inductive`, the former and `RevocationInductive`. Its parts:
  a request between two reads of a turn has the event loop (`TurnIsKept`); one that
  came after the revocation of its token has not passed the check that stops it
  (`LateIsStopped`); the access token of a retired pair is denied or over
  (`RetiredAccessIsDenied`); the pairs of a session have one subject
  (`SessionHasOneOwner`); only sessions that have begun are closed
  (`ClosedSessionsBegan`), and what a request is about to revoke covers the active
  tokens of the sessions it closes (`TargetsCoverClosing`); an exchanged token is
  denied until it expires, and nobody past the denylist presents one
  (`ReuseIsNoticed`).
- `LateRequestsFail`: `NoLateSuccess`, for either value of `TurnBased`: a revocation
  is whole before it is answered, and a request that arrives later reads it.
- `KilledSessionsStayDead`, `ReplayIsFatal`: the properties of reuse detection, with
  `ASSUME TurnBased`. The parts of the invariant that need turns say so.

`IdentityLifecycle_proofs`, from distinct null values alone:

- `InductiveInvariant`: `OldTokensStayDead` follows from `DoomedAreRevoked` and
  `RowsAgree`, and those are kept because a request past its status write holds the
  event loop (`HoldsLoop`) and knows every token that is still active of the
  identities it has changed (`Remaining`, `Points`).
- `EndedTokensStayDead`: a refresh that was signing finds its row revoked when it
  comes to `Rotate`.
- `ChildrenAreSuspended`: the action property `ChildrenFollow`, from a second
  invariant, `ChildrenListed`: from the listing of the children to the answer the
  suspension keeps the event loop, and the children still active are among those it
  has yet to come to.
- `WalksComeToAnEnd`: the part of termination that is a safety property. `StepsLeft`
  bounds the steps to the answer by the tokens and children still on the lists of a
  request; every step while the request keeps the event loop makes it smaller, and no
  other makes it larger, for any finite tables (`WalkIsStraight`: the lists and the
  position in them fit together). That the request goes on is up to the event loop.
  `WalksEnd` is in no run; TLC agrees with it on the instance of `lifecycle`.

`KeyRotation_proofs`, for a cache lifetime no longer than the announced wait:
every copy of the key set, cached or on its way, is dated by the request that
fetched it. A key in it was published at that date (`RetiredKeysAreForgotten`); a key
that signs and is missing from it was announced later, and the copy has ended
(`StagingSuffices`, `RotationIsSeamless`).

`AttestationLedger_proofs`: what a request is about to store is its own and not
stored yet (`InductiveInvariant`), from which `ChainsStayIntact`,
`EvidenceComesInTime`, `NamesAreRefused`, `WritesAreNotRepeated`, and
`RefinesEvidenceLog`: each commit is one event of `EvidenceLog` and every other step
a stutter. `EvidenceAndRowsAgree` relates the tables that a commit writes: no row is
without its entry and no entry without its row or in another organisation's ledger,
creations and grants are recorded once over all ledgers, and evidence comes after the
entry of its grant. A commit only appends (`LogGrows`), and what it appends is new
because the row it goes with is. The invariant, `EvidenceMatchesRows`, is in no run;
TLC agrees with it on the instance of `ledger`. It is about identities that are not
deleted: a deletion, which is not in this module, leaves the entries behind.

`AgentSession_proofs`: only one request at a time asks for the pair that is held, and
whatever else is on its way was given up when its connection broke, which its session
remembers (`OneFlight`). So the pair held or being answered is the one the service
would exchange (`GoodPairs`, theorem `SessionStaysInStep`), a token is found used only
in a session that lost a connection, and every such session is paid for
(`EndsArePaid`, theorem `LossesPay`). `OneSessionIsUsable` counts in the same way
(`SessionsArePaid`): the session of the pair that is held or answered is free, and
every other one that could still be renewed has used up a broken connection. An
issuance that nobody waits for may yet open such a session and is paid for in advance
(`Orphans`); one that is awaited is free because it was sent only when what is held
is not worth renewing, which time does not mend (`RenewalsAreDue`).
`ServiceIsRefreshChain`: whatever client and network do, the sessions go through
steps of `RefreshChain`, so that nothing is assumed of the service that
`ImplementsRefreshChain` does not give.

`AccessControl_proofs`: `NamesAreUnique` from the lookups of the handlers;
`EngineMatchIsTransitive`, `MatchIsTransitive` and `DelegationNarrows` about the
matchers; and the properties of the decisions, which hold for any tables, requests
and contexts and not only in reachable states (`AccessIsGranted`, `DenialsBind`,
`AllowancesOnlyGive`, `GrantsHold`, `ScopesNarrow`).

`RetentionSweep_proofs`: of every token a holder has, the row is there, active and as
it was issued, or the token is denied, or its expiry and the grace are over (`Backed`);
so one a verifier accepts keeps its identity from being stale whichever sweep ran
before. The condition is asked again in the deleting statement (`TheLivingAreSpared`),
and it cuts days off in the safe direction (`NothingIsSweptEarly`, for any length of a
day).

Only model-checked: liveness (`RequestsAnswered`, `ReplayEventuallyKills`,
`CallersAnswered`, `StaleRowsDrain`), which is out of this prover's reach, as are
`ENABLED` and induction over data. Every other property of a passing run is a theorem.

## Not modelled

- Rate limits, file ACL, and the delivery of webhooks: they have state or an algorithm
  of their own and come next in the plan. The dispatcher keeps nothing: at most four
  attempts are made, none after a restart, and no text promises a delivery.
- Audit entries: they are written in the transactions of the operations they record;
  their retention is a sweep over rows nothing else changes.
- The storage gauge: a sample is written by one cycle and read by others. Where a shed
  ratio is configured, `evaluateIdentityCreateShedding` (`routes/identities.ts:686`)
  refuses creations on a fresh sample before they write anything, and lets them pass
  on a missing or stale one.
- Within modelled components: the relayhistory broker, narrowing of scopes at
  issuance, sponsor proofs, bootstrap and last-used bookkeeping of API keys, profile
  updates, dry-run counts, and validation of requests.
- Cryptography, OIDC discovery, static documents, reports, the CLI, the adapters, the
  migration and observer tools, workflows, the landing page and the Go middleware:
  they keep no state of the service, or none that a small model would tell anything
  about. They are most of the repository's lines.

## Plan

Done: the token and identity lifecycles, key rotation, the ledger, the client session,
access control, the sweeps, and their proofs. What is left, in this order:

1. `RateLimit`: the full table, a request that is counted under several keys, the
   boundary of a window; no client above its limit.
2. Proofs of the safety halves of the liveness properties, as `WalksComeToAnEnd` is
   one: the distance of a stale row to the window that deletes it comes next.
3. `FileAcl`, beside `Scopes`: its decision against a declarative definition.
4. Delivery: attempts against lost answers.
5. `ApiKeys`: bootstrap and last-used bookkeeping.
