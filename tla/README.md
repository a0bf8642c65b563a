# A TLA+ model of kerthus

kerthus is a multi-tenant SaaS platform: a Vue console talks to an HTTP gateway, the gateway
to a SaaS core over gRPC, the core to MySQL and Redis. The gateway also stores uploads in
MinIO and runs an AI agent whose sessions it keeps in MySQL. This directory models the parts
whose correctness depends on what happens *between* two steps, checks them with TLC on small
instances, and proves with TLAPS, for every instance, every safety property of the passing runs.

- `src/` paths are relative to the repository; `PROJECT.json` maps every definition to lines.
- Run one check: `tlc -config MCSessionsSingle.cfg MCSessions.tla` (likewise for the others).
- Check the proofs: `tlapm Sessions_proofs.tla`, likewise `TenantAdmins_proofs`,
  `AgentTurns_proofs`, `AgentChat_proofs`, `Uploads_proofs`, `Core_proofs`,
  `ConsoleSession_proofs` and `RoleEditor_proofs`.

## Inventory

| Component | State it keeps | Operations | Hard behaviour | What makes it correct |
|---|---|---|---|---|
| Identity and sessions (`core/identity.go`, `password.go`, `email.go`, `adapters/redis`) | rows of `users` (status, hash, `auth_version`), session values in Redis | Login, Logout, ChangePassword, email change, SetStatus(users), authenticate | login is a read snapshot, a write transaction and a Redis write; anything commits in between; Redis loses values | one live token under single login; nothing survives a revocation; nothing dead comes back |
| Tenants, members, roles (`core/lifecycle.go`, `save.go`, `grants.go`, `authorization.go`) | `tenants`, `members`, `roles`, `role_members` | ApproveTenant, SetStatus, Delete, Save, SetRoleMembers | long sequences of legal edits by several administrators | every approved tenant keeps an administrator who can act; tenants are isolated |
| Entitlements and catalog (`core/grants.go`, `save.go`, `bootstrap.go`, `lifecycle.go`) | apps, resources, operations, entitlements, tenant resources, grants, default applications | saveApp, RegisterApplication, saveResource, SetStatus, Delete, SetEntitlements, SetRoleResources | releases, editors and tenants change what others refer to; entitlements are narrowed, revoked, given again and lapse | grants stay within entitlements, dormant ones too; the catalog stays a tree with operations of its own |
| Organizations and positions (`core/save.go`, `lifecycle.go`, `authorization.go`) | the tree with its stored units, positions, members' links and defaults | saveOrg, savePosition, saveMember, SetStatus, Delete | moving subtrees; no foreign keys; a unit that is computed once and stored | a tree of one tenant; nothing refers to what is gone; data scopes follow the tree |
| Agent sessions (`internal/agent/session*.go`, `gateway/agent.go`) | one row per conversation: history, permission version, lease | Create, Get, UpdateContext, BeginTurn, CompleteTurn, AbortTurn | several gateways, leases that run out, late answers, crashes, permissions that change | no overwrite of what was not seen; one permission version; bounded; never busy forever |
| Agent runtime and panel (`internal/agent/runtime.go`, `stream.go`, `tools.go`, the console's `AgentHost.vue`) | a goroutine, a channel of 16 events, a context; the panel's answer | Stream, Recv, Close; send, stop, the panel's timer | producer, handler, browser and cancellation race; the model service breaks off anywhere and is asked again | what is stored is whole; tools run once; a complete answer is the stored one; no goroutine is left |
| Uploads (`gateway/upload`, `core/files.go`, `platform/storage`) | `files` rows, objects, the slots channel | CreateUpload, Put, ConfirmUpload, CancelUpload | three parties without a common transaction; lost answers; late writes of the store | confirmed files have objects; failed uploads are reclaimed; slots come back |
| Session of the web console (`store/modules/*.ts`, `router/guard`, `utils/http/axios`, lock screen, application switch) | token, user, permissions, menus and routes in memory; token and user in local storage | login, logout, lock and unlock, switch, navigation, reload, 401 handling | answers of an earlier session arrive in a later one; what clears the page is spread over stores, guards and a reload | a session left stays left; a session in use stays; menus belong to who is signed in |
| Role grant editor (`views/basic/system/role`, `gateway/pagination.go`, `catalog.go`) | the role, the tab, what is checked, flags; loads and a save in flight | select, change tab, tick, choose a scope, save; queryAll, SetRoleResources | loads overtake each other; a list is read page by page and then replaces a set | a save is for the role whose grants are shown and leaves the others alone |
| Authorization (`core/authorization.go`) | none | resolve, targetTenant, CheckAccess, effective, scope, RouteMatches | the check and the call are two RPCs | re-checked in the operation's own transaction |
| MySQL unit of work (`adapters/mysql/store.go`) | transactions | Read, Write | every Write takes the lock on one row | Write transactions are serialized |
| Other queries, RPC adapter, gateway routes, proxy, configuration, import, the rest of the console, deployment | none, or one-shot | | | see `PROJECT.json` for why each is or is not modelled |

How they interact: the gateway calls the core by RPC with a 10 s timeout and no retries
(`platform/micro/runtime.go:27`). Every writing operation of the core is one `Store.Write`
transaction that first locks one platform row (`store.go:63-71`), re-reads the session from
Redis and resolves the actor within it. Reads run in snapshots. Redis and MinIO are outside of
those transactions. The agent's store locks one row per call and holds nothing across calls.

## Modules

| Module | Models | Composition |
|---|---|---|
| `LiveSessions` | what identity promises: live tokens per account, no versions, clock or Redis | refined by `Sessions` |
| `Sessions` | accounts and login sessions | `INSTANCE LiveSessions` |
| `Sessions_proofs` | theorems about `Sessions` | extends `Sessions`, `TLAPS` |
| `TenantAdmins` | tenants, members, roles, role links and `protectAdmin` | |
| `TenantAdmins_proofs` | theorems about `TenantAdmins` | extends `TenantAdmins`, `TLAPS` |
| `Conversation` | what the agent store promises: whole turns are appended one at a time | refined by `AgentTurns` |
| `AgentTurns` | one session row and the requests that use it | `INSTANCE Conversation` |
| `AgentTurns_proofs` | theorems about `AgentTurns`, the refinement included | extends `AgentTurns`, `TLAPS` |
| `AgentStream` | one reply: goroutine, channel, handler, response | |
| `AgentChat` | the console's panel on top of it | extends `AgentStream` |
| `AgentChat_proofs` | theorems about `AgentStream` and `AgentChat` | extends `AgentChat`, `TLAPS` |
| `Uploads` | handler, file rows and object store | |
| `Uploads_proofs` | theorems about `Uploads` | extends `Uploads`, `TLAPS` |
| `Trees` | what is above a row with a `parent_id`, and acyclicity | |
| `Entitlements` | catalog, entitlements, tenant resources, grants | extends `Trees` |
| `Organization` | organizations, positions, members' places, data scopes | extends `Trees` |
| `Core_proofs` | theorems about `Entitlements` and `Organization`, lemmas about trees | extends both, `TLAPS` |
| `ConsoleSession` | the session of one browser page | |
| `ConsoleSession_proofs` | theorems about `ConsoleSession` | extends `ConsoleSession`, `TLAPS` |
| `RoleEditor` | the grant page with the gateway's paged reads and the core's replacement | |
| `RoleEditor_proofs` | theorems about `RoleEditor` | extends `RoleEditor`, `TLAPS` |
| `MCSessions`, `MCTenantAdmins`, `MCAgentTurns`, `MCAgentChat`, `MCUploads`, `MCConsole` | small instances | extend the above |
| `MCCore` | `Entitlements` and `Organization`, one of them per behaviour | extends both |
| `MCGateway` | `Uploads` and `RoleEditor`, one of them per behaviour | extends both |

`MCCore` and `MCGateway` hold two modules each that share no variable. A behaviour explores one
of them, chosen initially; nothing is lost, since no property is about both.

Definitions named "Slip" in their comments are not part of any specification. Each is a mutated
form of a definition of the code; with it in place the property it is paired with in
`PROJECT.json` fails, which shows that the property depends on that piece of code.

### Sessions

`users` is the table, `sessions` is Redis, `attempts` the logins in flight, `issued` the tokens
ever generated. `LoginRead` is Login's read transaction, `LoginFinalize` and `LoginRefuse` are
`finalizeLogin`, `LoginPut` is `randomToken` and `Sessions.Put`; `LoginAbort` is any failure in
between, after which the committed version bump stays. The others are one transaction each.
Two history variables serve the properties: `obtained` (the password typed for a token) and
`overtaken` (logins and tokens whose account was revoked after their password was verified).

Abstractions. A login may always name its account by phone, which is unique. A password hash is
the password and whether the hash is a legacy one. The single-login flag never changes after an
account is created, as in the code. The Redis read of `authenticate` and the transaction it is
in are one step: the only thing that can change in between is a logout or an eviction, and the
transaction serializes before it. The membership a token resolves through is left out: it only
restricts who may act. Accounts are not created here; they exist from the start in any state a
seed or an import leaves behind.

### TenantAdmins

One action per operation and entity kind. Each names the acting account, the tenant it resolved
to and the target. `Admins(t)` is what `protectAdmin` counts: enabled account, enabled
membership, link to an active administrator role. `SparesAdmin` and `SparesAdminRole` are its two
modes. Deleting a member keeps the row, disabled, as the code does. `Init` is `Bootstrap`;
`Imported` is any database the legacy import can write for these sets.

Abstractions. Any active role may carry the permission an operation requires, so the model allows
more callers than the code. The checks `resolve` makes on applications and organizations are left
out for the same reason. Role codes are left out: a role's administrator flag is set once, by
ApproveTenant, Bootstrap or the import. Editing a role or an account's name changes nothing here.

### AgentTurns

The row is `session` and `lease`; time is what is left of the lease. A request is `opened`
(permissions read), `begun` (lease taken), `running` (tools offered), `replied`, `ending`.
Between any two of those steps permissions change, the lease runs out, other requests run or the
gateway dies. A permission version is a digest of the granted tools, so it is modelled as the
set of them: equal sets, equal versions. A transcript is a record of its lease's number, its
version, the tools whose results it contains and its size. Sizes stand for messages and bytes
alike. The permission version that `agentAuth` returns and the tool checks read the same
`grants` at different times, as the code does.

### Uploads

`uploads` is the handler's step and file, `rows` the table, `objects` the store. Every remote call
has three outcomes: refused, done, done without the handler hearing of it. A given-up `Put` may
still land (`flying`). A given-up RPC that the core executes late is covered too: a late
ConfirmUpload is either before the cancellation, which is the lost answer, or after it, when the
row is gone and the call is refused; a late CancelUpload does what an earlier one would have
done. Size, type and purpose checks are `RejectBody`. The files named in `excused` are those
whose cleanup an outage, a crash or a late Put prevented: no code promises to reclaim them.

### AgentStream and AgentChat

`producer` is the goroutine of `Runtime.Stream` with its round, steps and attempt; `queue` the
channel; `handler` is `streamAgent`, which reads an event, stores the turn before the final one and
writes it; `wire` and `connection` are the response. `Connect`, `ReadToken`, `ReadFinish`, `Break`
and so on are what the model service does, at any time; `Retry` is the decision to ask again, only
before anything of the round was shown. `Cancel` is the request's context: 90 seconds, a browser
that left, or `Close`. `Save` is CompleteTurn, which may commit without being known to.
`AgentChat` adds the panel by `EXTENDS`, with its states prepare, post, read and refresh, its
`stop`, its timer of 120 seconds and a connection that breaks. A panel may give up while the
handler still runs, so the next message may be refused as the lease is held: `LoseConnection`.

Abstractions. Tokens and calls are numbers in the order they were sent; `sent` records what the
model service sent and `ran` what tools executed. What a tool does and which are offered is
`AgentTurns`' part. Every 'start' and 'end' of a tool is an event, without its contents.

### Entitlements

One action per operation: `CreateApp`, `RegisterApplication` (a release: rows created, changed and
disabled, operations bound), `SaveResource`, `DeleteResource`, `SetAppStatus`, `DeleteApp`,
`GrantApplication` and `Revoke` (SetEntitlements), `OpenTenant` (ApproveTenant's part),
`SetRoleResources`, `CreateRole`, `DeleteRole`, `SetHome` (the default application in saveMember).
`Lapse` is a date that passes. `offered` is `tenant_resources`; `GrantsAfter` is what
`grantApplication` leaves of the grants when it replaces the offer.

Abstractions. Rows are identified with their ids, so a resource's application and a role's tenant
are constants. Who may call is `TenantAdmins`' part. Not kept: names, paths, sorting and other
display fields, the data scope of a grant, and databases left by an import.

### Organization

`SaveOrg` creates, edits and moves; `unitOf` is the stored `unit_id`, recomputed only for the row
that is saved. `SavePosition`, `SaveMember`, `RemoveMember`, status changes and deletions follow,
with the checks that keep what is referred to. `Scope(code, m)` is `scope` in `authorization.go`:
which members a data scope shows to a member, computed from stored units; `ScopesFollowTree`
compares it with the tree itself. Left out: display fields, which membership is the default one,
and custom scopes beyond the five codes.

### ConsoleSession

`tab` is the page's memory: token and user of the user store, `perms`, `dynamic` and `built` of the
permission store (roles, permissions and menus with their time stamps), the routes added to
the router, the lock, and where the router stands (`nav`, and `stray` for a navigation to the login
page that another has replaced and that still runs its `afterEach`). `disk` is local storage,
`live` the tokens the server accepts, `owner` whose they are, `left` those whose user signed out.
Each flow (sign-in form, unlock by password, application switch, page load, any other request) is
a chain of calls, and an answer acts on the page *as it is when it arrives*. `Denied` is a 401,
and `Expires` the comparison in `unauthorized.ts` that tells whose it is. `Reloads` is the
unmounting of the form that covers a timed-out page: it loads the page again when no menu was ever
built, which is what prevents residue. `mixed` records the two ways around it: a late
permission answer ends the time-out (`permission.ts:145`), and a sign-in over a session not ended.

Abstractions. One browser page; one call per flow, as the loading buttons grant; no use of the
address bar or history while a dialog or form is busy. Application and tenant headers, and the
retries of GET requests, are left out. A 401 reaches the page as soon as its answer does.

### RoleEditor

`page` is `index.vue` with what `resources.vue` emitted to it, `loads` the calls of
`loadResources` with the version each belongs to, `posted` the save on its way. `QueryPage` is one
round of the gateway's `queryAll` and reads the list as it is then; `QueryRole` reads the grants.
Selecting another role or tab starts another load; an unmounted editor's loads reach nothing.
`SetRoleResources` replaces the role's grants in the core, and other administrators change grants
and resources at any time. A given-up save is not executed later.

Abstractions. One application and tenant; the tree above which a scope is chosen is any set of
others below it; deleting the selected role selects none. The history `free` excuses what the user
or somebody else changed meanwhile.

## Runs

| Run | Instance | States | Question |
|---|---|---|---|
| `sessions_single` | 2 accounts, both single-login, 2 clients, 3 tokens, versions to 4 | 435,320 | do overlapping logins, revocations and Redis failures leave one live token, and does the login implement the registry? |
| `sessions_accounts` | 2 imported accounts, 1 client, 2 tokens, 2 passwords, 1 shared address | 322,802 | do resets and legacy upgrades lose nothing, and does no address become ambiguous? |
| `admins_seeded` | 2 accounts, 2 tenants, 3 roles, from Bootstrap | 52,768 | does every approved tenant keep an administrator, and is each tenant isolated? |
| `admins_imported` | 3 accounts, 1 tenant, 2 roles, any import, dates that pass | 229,474 | does no operation ever remove the last effective administrator? |
| `core_grants` | 1 tenant, 3 applications, 2 resources, 1 operation, 2 roles; 3 organizations, 1 position, 2 members | 468,872 | do grants stay within entitlements, the catalog and the organizations whole, and do scopes follow the tree? |
| `turns_store` | 2 requests, 1 tool, 3 turns, 3 sizes, a lease of 2 ticks | 266,660 | is the row one conversation whatever overlaps, and does the lease end? |
| `agent_chat` | 2 messages, 2 tokens and 2 calls each, 2 steps, 1 retry, a channel of 1 | 1,298,093 | is what is stored and shown the whole reply, does a tool run once, and does every stream end? |
| `gateway_calls` | 3 uploads, 2 slots, 2 rows; 2 roles, 2 resources on pages of 1, 2 loads, 2 acts of the user, 1 change by others | 641,780 | are confirmed files whole, failed ones reclaimed and slots given back; does the grant page save what it shows, for whom it shows it? |
| `console_session` | 2 accounts, 3 sign-ins, every flow | 5,476,451 | does a session left stay left and one in use stay, and do menus belong to who is signed in? |
| `admins_lockout`, `turns_revoked`, `uploads_leak` | one actor each | | the three disagreements below |

Bounds. Versions, tokens, turns and rows are counters in the code; the bounds only stop a
behaviour. Two clients suffice for a login and the one that overtakes it, and the third token
lets both succeed after an older one. Version 4 leaves room for two logins and two revocations.
Two tenants are needed for isolation, two administrators and two administrator roles for the
last-administrator rules; the third role of the seeded run is an ordinary one. Three turns allow
a late turn, the one that replaced it and one more; with sizes 1, 2 and 4 and a limit of 3,
transcripts are stored whole, are cut, or cannot be stored at all. Two rows for three uploads
allow one upload to run while another one's row is cancelled, with the third waiting for a slot.
In `core_grants` a basic, a system and a linked application with two resources give every
kind of entitlement, a parent and a child, and an operation that may be bound, moved or gone; three
organizations are a unit, one below it and one to move; other tenants are covered by the proofs. In
`agent_chat` two tokens and two calls reach each order of a retry after something was shown, a
round with tools and a further one; the code's channel of 16 is one here, so that it is full
at once. Three sign-ins in `console_session` are one to leave, one to be late and one to follow. The
editor needs two pages for one to be missed and two loads for one to be late; the two acts are an edit
and a save, or two saves.
Deadlock is not checked where the bounds end every behaviour, and in the imported run, where a
database may have no member able to act.

Fairness. `agent_chat` assumes that the goroutine and the handler go on, that a request's context
ends (`gateway/agent.go` gives it 90 seconds) and that a request to the model service returns once
its context is done, as Go's HTTP client does. It assumes nothing of the model service before that,
of the panel, or of the user. `turns_store` assumes only that time passes: no request need make
progress for a lease to end. `gateway_calls` assumes that a handler that is serving an upload goes
on: the server reads a request body for at most two minutes (`cmd/gateway/main.go:41`), RPCs time
out after ten seconds, the cleanup has a context of ten seconds (`attachments.go:181`), and the
object store's client is taken to answer or fail. None assumes that any call succeeds.

## What the code does otherwise

1. `admins_lockout`. The platform tenant cannot be disabled by the administrator acting in it and the
   last enabled platform account cannot be disabled, but `saveTenant` gives that same tenant
   any expiry date, a past one included. After that nobody can use a platform operation or log in
   to undo it, and `Bootstrap` does nothing while a platform account exists.
2. `turns_revoked`. The comment on `UpdateContext` says results produced under revoked permissions
   are not reused. Only the versions of two requests are compared: a tool that is granted during a
   turn and revoked before the next leaves its result in the history.
3. `uploads_leak`. A failed upload is said to cancel its unconfirmed row. The cleanup is armed only
   after CreateUpload has answered; if the client leaves while it commits, the row stays.

Met while modelling, and not stated as a property, since no document or comment promises otherwise:

- An entitlement narrowed by mistake and widened again: the administrator role has lost its
  template grants and no operation gives them back (`core/grants.go:67` and `:160`).
- `queryAll` compares counts only. A row that is disabled, removed or sorted elsewhere between two
  of its pages makes it miss a row although the counts agree, and the next save on the grant page
  takes that row's grant away. `SaveKeepsTheRest` is stated without that case. The editor of a
  tenant's applications is not affected by a missed entitlement: it skips applications it was not
  shown.
- A save of the grant page replaces the whole set, so the last of two concurrent administrators
  wins; so does a save that is still on its way while a tab is changed and the page loads the grants
  of before it: saving again undoes it. A resource that is disabled while the page is loaded loses its
  dormant grants with the next save.
- The member list on the other tab of that page has no version: a late page of an earlier role
  may be shown under the selected one (`users.vue:93`).
- Unlocking the console by signing in resets the chosen application but keeps the routes of one
  that was switched to (`permission.ts:136`); a late answer of the switch writes to whatever is
  chosen then (`apps/index.vue:130`); arriving at the login page clears memory and leaves local
  storage (`stateGuard.ts:12`), which `disk` in `ConsoleSession` keeps.
- The panel reads its list of sessions without a time limit (`AgentHost.vue:303`), and is busy
  until that answers.

## Proofs

`Sessions_proofs` proves, for all sets and bounds that satisfy `SessionsAssumption` (the bounds
are natural numbers, the special values are outside of the sets they extend, the sets of
clients and tokens are disjoint):

- `TypeCorrect`, and `Inductive`: `Spec => []IInv`;
- `SingleLoginHolds`, `LiveTokensKnowThePassword`, `RevocationHolds`: the three state properties;
- `DeadTokensStayDead`, `PasswordChangesRevoke`, `NoEmailBecomesShared`: the step properties;
- `Refinement`: `Sessions` implements `LiveSessions`.

None of the properties is inductive alone. That two live tokens of one account are the same one
depends on what logins that are still in flight will do: a finalized login holds the account's
current version before any token does. `IInv` therefore speaks of every token and login *level*
with its account's version, whatever its expiry and the account's status: nothing is ever ahead
of the version (`NeverAhead`), a token that is stored was issued (`OnlyIssued`), a single-login
account has at most one level holder, a token or a finalized login (`OneHolder`), whatever is
level knows the password in force (`LevelKnowsPassword`) and was not overtaken
(`LevelNotOvertaken`). Two lemmas carry most steps: `RevokeIInv` (an operation that bumps the
version of one account and overtakes its holders) and `ForgetIInv` (one that only removes sessions
or logins); the three steps of a login have a lemma each. The step properties and the refinement
follow from `Monotone`: versions only grow, and a status changes only together with the version.
`NoEmailBecomesShared` needs the types only: an address changes in one operation, and to one
nobody else has.

`TenantAdmins_proofs` proves, for all sets that satisfy `AdminsAssumption` (finitely many accounts,
platform accounts among them, a special value outside of the tenants):

- `TypeCorrect` and `LastAdminProtected`, for the seeded and the imported specification;
- `TenantsKeepAdmins`, `NoLinkDangles`, `PlatformAccountStays`: the state properties, from the seed;
- `TenantsIsolated`: the action property.

The argument about administrators is that of a witness: an account and a role that make it one
(`Witness`). A step that takes nothing away keeps every witness (`NothingLost`); a step that
takes an account away passed `protectAdmin`, which saw a witness for another account
(`SparedAdmin`), and one that takes a role away saw a witness through another role
(`SparedByRole`). Nothing about how the tenant was created is needed, so an import is covered as
well. `ApprovedTenantHasAdmin` adds that a tenant is approved in the transaction that gives it a
first administrator. `LinksJoinMembers` is not inductive alone: a role whose tenant was deleted
could be given members, so the proof carries along that a role's tenant exists
(`RolesHaveTenants`). That two platform accounts are left
before one is disabled is counted with the cardinality of finite sets.

`AgentTurns_proofs` proves, for any requests, tools and sizes (`TurnsAssumption`: sizes and bounds
are natural numbers, a lease and a history have room), all safety properties of the run
`turns_store`: `TypeCorrect`, `OneVersion`, `NothingOverwritten`, `HistoryBounded`,
`LeasesAreTheirOwners`, and `Refinement`, that `AgentTurns` implements `Conversation`. What each of them
needs is that the token of a lease belongs to one request (`TokensAreUnique`): a request whose
lease ran out holds a token that nobody else will ever hold, so it cannot store, abort or renew
under another's. `NumbersGrow` says that whatever a request loaded is older than its token,
which is what makes the turn it appends a new one. That `boundedHistory` keeps a longest suffix that
fits needs a least natural number, from the well-foundedness of `<`.

`Uploads_proofs` proves, for finitely many requests and any files and slots, `TypeCorrect`,
`ConfirmedFilesExist`, `ShownKeysWork` and `FailuresAreReclaimed`. The invariant adds that keys are
fresh (`KeysAreFresh`: no row without its creation) and that a handler past CreateUpload knows its
file. It turned out not to need that a row has one holder.

`AgentChat_proofs` proves, for any number of messages, tokens, calls and retries and any capacity of the
channel, all safety properties of the run `agent_chat`: `TypeCorrect`, `OnlyWholeRepliesAreStored`,
`EachCallRunsOnce`, `AnswersAreStored` and `AnswersOnlyGrow`. `IInv` has a part for each stretch of the way.
`DoneIsLast`: a final event is the goroutine's last act and carries the reply, nothing follows it in the channel,
and a turn is stored only after it was received. `CallsApart`: the calls still to be run are apart from
those that ran, whatever the attempt, because calls are numbered as they are sent and a retry starts
before any of its own ran. `PanelSound`: an answer is complete only once its turn was stored. `InOrder`:
what is under way to the panel, on the wire, in the handler's hand and in the channel (`Pipe`), brings
exactly the tokens between what the panel shows and what the model service has sent, once each
and in order (`Brings`); a step only moves an event along the pipe or appends one to it.

`Core_proofs` proves, for any catalog, tenants, roles, organizations and members, the properties of the run
`core_grants`.

- `GrantsStayWithin` and the references of `CatalogSound` are inductive with the types: each operation
  adds below what exists, removes everything below what it removes, or refuses.
- `CatalogStaysSound` and `PlacesStaySound` add that the trees have no cycle. `Above` is defined as a
  least set closed upward, which needs neither recursion nor induction: that a new parent is not below
  the row that is moved is then enough (`MovingKeepsAcyclic`).
- What refers to an organization is not inductive alone: editing one that others refer to stores its `unit_id`
  anew, and members' defaults hold the old one. `UnitsRecorded` says that it is the same: a unit's
  own id, or that of its parent.
- `ScopesHold`: a data scope admits what the tree says. The stored unit is the nearest on the way up
  because an organization whose unit was wrong would have such a parent, and in a finite forest
  nothing runs up for ever (`NothingRunsUpForever`); the loop that collects an organization's descendants finds all that
  is below it (`DescendantsAreBelow`).

`ConsoleSession_proofs` proves, for any accounts and any number of sign-ins, the properties of the run
`console_session`.

- `LeftSessionsStayLeft`. The danger is a token on its way: `Held` adds that a token answered to a
  sign-in and not yet delivered was left by nobody and is nobody else's, in whatever flow it travels.
- `SessionsStay` and `NothingIsLeftOver`. `OwnInv` says where a page that no exception has mixed can be: just
  loaded (`BlankPage`), at the login page (`LoginPage`), in use (`InUse`) or signed out under the
  form that covers it (`CoveredPage`), with the calls that may be in flight in each of them
  and whom they were asked for. In use, everything in flight is the account's own; covered, no permission
  answer is for the page's token, so applying one is what `mixed` records; and a covered page has
  no menu, so it is loaded again as soon as its form goes away. A denied call holds a token
  that the server does not accept (`CallsKnown`), so the 401 that ends a session ends a dead one.

`RoleEditor_proofs` proves, for any roles, resources, page size and bounds that satisfy
`RoleEditorAssumption`, both properties of `RoleEditor`. `IInv` says that whatever is not free is the
same on the page, in what a load has read, in what is posted and in the core (`Holds`, `Reads`), and
that the load the page waits for is the only current one and of the role selected (`Follows`). Of
a load between two pages it says that the rows read are the first rows of the list as it is now,
unless the list changed and everything is free; `FirstRows` carries that over the next page.

The inductive invariants were checked by TLC on the instances of the runs before they were proved.

Only model-checked: the liveness properties `LeaseEnds`, `EveryUploadEnds` and `StreamEnds` with
their fairness, which are out of reach of the prover. Nothing is proved of the value of a sum over a sequence, as
`TotalSize` is (`HistoryFits` is proved without evaluating it).

## Plan

All of the following are built.

1. `Sessions`, refining `LiveSessions`, with proofs.
2. `TenantAdmins`, with proofs.
3. `AgentTurns`, refining `Conversation`, with proofs.
4. `Uploads`, with proofs.
5. `Entitlements` and `Organization`, with proofs.
6. `AgentStream` and `AgentChat`, with proofs.
7. `ConsoleSession`, with proofs.
8. `RoleEditor`, with proofs.

Worth adding, in this order:

1. An abstract specification of a conversation's messages that `AgentStream` and `AgentTurns` implement
   together; so far the two share what a stored turn is in words only.
2. The other editors of the console that replace whole sets: a tenant's applications, a resource's
   operations, the members of a role.
3. The table's data source and the tabs of the console, where late pages have no version.
4. `RouteMatches` and the overlap of route patterns against a reference definition.

## Not modelled

Most of the repository's lines are the console, a reused template of forms, tables, menus, trees,
themes and pages (some 600 files): rendering and the state of widgets, where each file keeps a state
of its own that nothing else relies on. Only its session, its agent panel and its grant page relate
state across calls in a way that a property could be about, and those are modelled.

Generated code, the rest of the queries, the RPC adapter, the proxy, configuration, manifests and
deployment keep no state of the system or only convert it. The agent's in-memory store exists for
tests. Listing and administration of model providers edit single rows. Audit records are written by
every operation in its own transaction and are read by none. Contents of files, texts, prompts,
model providers, hashing and token generation are taken as given: a token is fresh, a password
matches or it does not. Bootstrap and the legacy import run alone; what they leave is where the
models start, except that `Entitlements` and `Organization` start from a seeded database only. Who
may call an operation of those two is `TenantAdmins`' part.
