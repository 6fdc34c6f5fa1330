# A verification project for homerouter

homerouter turns a Linux machine into a home router and adds services and browser
extensions to it: a WireGuard service with single sign-on, an authenticated forward
proxy, the browser extension that uses it, a developer's browser cleaner, and an IP
tracker. This directory holds TLA+ models of the parts of it that have state, the TLC
runs that check them, and proofs of their safety properties with the TLA+ proof system.
Paths are relative to the repository's `src/`.

## Inventory

| part | state | operations | what is hard |
|---|---|---|---|
| peer service (`addons/homerouter-vpn/service.go`, `pool.go`, `backend.go`) | the peer list, in memory, in `peers.json` and on the WireGuard interface | Restore, Create, Delete, DeleteOwned, RemoveOwner, RemoveExpired | three copies of one list; any `wg` command or save may fail half way; crash or reboot between two of them |
| single sign-on and reconciler (`oidc.go`, `owners.go`) | sessions, pending logins, owner records with refresh tokens | login, callback, logout, self-service requests, Reconcile | handlers and reconciler share three locks and hold none across a step; refresh tokens rotate; the provider fails; restarts |
| proxy tunnels (`addons/proxy-router/proxy.go`, `activity.go`) | the registry of requests in flight, two connections per tunnel | CONNECT, forwarded requests, disconnect | goroutines that copy, cancel and close each other's connections |
| proxy accounts (`users.go`, `admin.go`, `sessions.go`) | accounts and settings in memory and on disk, admin sessions, the log level in force | login, password change, account and log level changes | concurrent requests, failed saves, the bootstrap password |
| proxy extension (`addons/proxy-extension/background.js`, `popup.js`) | globals of a service worker, `chrome.storage`, the browser's proxy setting | connect, disconnect, test a connection, answer challenges | asynchronous callbacks that share globals; the worker is stopped and started at any time |
| developer cleaner (`addons/developer-cleaner/background.js`, `core.js`, `ui.js`) | settings, pending review and activity in local storage, a shared copy in sync storage, alarm and badge, a preview ticket, a running flag and a queue in the worker | save, synchronise, preview, execute, clean, automate | awaits between a check and its use; saves and triggers are queued, previews and cleanups are not; the worker ends at any time; several pages |
| deployment (`setup.sh`, `scripts/lib.sh`) | installed files, running services | render, install, activate, verify | a run that stops half way and is started again |
| IP tracker (`addons/homerouter-hawk/entrypoint.sh`, `ui/server/api.js`, `ui/src/pages/Dashboard.jsx`) | a table of polls, a log, what a page shows | poll, insert, log, query, show | the line changes between the requests of a poll; inserts wait for queries and are given up; restarts; three answers of different moments |
| status, changelog, self test, templates | none | reports, rendering | nothing stateful |

How they interact: the reconciler and the self-service handlers call the peer service;
the proxy extension calls `disconnect` and `verify` of the proxy and the tunnels check
their credentials against the account store; everything else is independent. The
deployment configures the services the others run on.

What makes each part correct:

* peer service: unique keys and addresses, list = file, what was granted works until a
  removal is attempted and what was removed stays out, through failures and restarts;
* sign-on: whoever loses access loses their peers and sessions, nobody else does;
* tunnels: nothing leaks, everything opened is closed in the end, and a disconnect reaches
  every request of its user and no other;
* accounts: memory, file and log level agree; the bootstrap password is changed first;
* proxy extension: the proxy setting, the stored `connected` flag and the credentials agree once
  nothing is in progress;
* cleaner: nothing but caches is removed without a plan a user has been shown and confirmed;
  cleanups do not overlap, stop when developer mode goes off, and record what they did; alarm
  and badge follow the settings; the queue never blocks;
* tracker: while polls are answered, what is recorded and logged as a change is one, each
  once; the page ends up showing all of them;
* deployment: a run that succeeds leaves every service running what is installed.

## Modules

| abstract module | what it promises | implemented by |
|---|---|---|
| `PeerRegistry` | no key or address is recorded twice, limits hold, a key is let in before it is recorded and struck off after it is shut out | `PeerService` |
| `PeerCounts` | numbers of peers grow one by one below the limit and otherwise only fall | `PeerRegistry`, and through it `PeerService` |
| `Disconnects` | a disconnect takes effect at one instant | `ProxyTunnels` |
| `AccountStore` | acknowledged changes are kept, failed ones are not acted on | `ProxyAdmin` |

### PeerService, PeerRegistry, PeerCounts

`PeerService.tla` models `Service`. `peers`, `disk` and `backend` are its three copies of
the list. `Service.mu` is held for a whole call, so one variable `pc` names the call in
progress and each effect of a call is a step: `CreateApplied` (checks, allocation and
`AddPeer`), then `CreateSaved`, or `CreateNotSaved` followed by `CreateRolledBack` or
`CreateNotRolledBack`; `RemoveWhere`, then one `DropPeer` or `DropPeerFails` per matching
peer, then `RemovalSaved` or `RemovalNotSaved`. Restore is `Start`, one `RestorePeer` per
stored peer and `RestoreDone`. `Crash` and `Reboot` may come between any two steps. A `wg`
command that fails may have taken effect: it may be killed by its timeout or because the
client that caused it went away. `wg set peer ... allowed-ips` takes the address from
whichever key had it, which `WithPeer` says.

Peers are a set: no operation depends on the order of the list. Names, identifiers and
keys are abstracted; a removal that matches nothing and a creation that is refused change
nothing and are left out. Saves are atomic renames and a rename is durable: what the file
system does to an unsynced file in a power loss is not modelled.

`PeerRegistry.tla` is what the service promises: a key is let in before it is registered,
and a registered key that is shut out leaves the record only after that. `PeerService`
implements it (`ImplementsRegistry`) with the file as record and the keys the interface
knows as those let in. `PeerCounts.tla` is all that single sign-on sees of the service, the
number of peers of each user. `PeerService` implements that too, by way of the registry, which
is proved and in no run (`CountsRefinement`); it is why `SelfService` may model the peers of a
user by their number. No refinement is claimed of `SelfService` itself.

### SelfService

`SelfService.tla` models `Authenticator` and `OwnerStore`. Each critical section and each
request to the provider is a step, so handlers and the reconciler interleave between them
as they do in the code. `CallbackExchange`, `CallbackRecord` and `CallbackOpen` are a
sign-in; `Require` admits a request, which then acts (`CreateMine`, `DeleteMine`) on the
user it was admitted as; the actions of the reconciler follow `Reconcile`, `stillAllowed`
and `revoke`. The provider is external: an account's status changes at any time, it issues
tokens, may replace them if `Rotates`, and accepts a token that is valid for an account that
is not disabled. The code takes every 400 or 401 for a revocation, so `RefreshRejected` has two
causes: the token is not accepted, or, if `RefusesClient`, the provider refuses the service
itself, whatever the token is worth (`invalid_client`, when the client secret has expired).
The peers of a user are a number, changed as `PeerService` shows its calls
to. Expiry may take peers of any users at once (`ReconcileExpired`), as one `RemoveExpired`
does. The map of pending logins is left out: it decides only whether a sign-in may start.

`raced` remembers users whose revocation was overtaken by a request or sign-in already in
flight, which has created a peer since the others were removed (`Overtakes`) or still may when
the revocation ends (`RevokeSignOut`); `left` those who have been anything but members; `lost`
those whose replaced token was lost or whose good token was refused, and `unsaved` those whose
replaced token is in memory only, so that a restart loses it.

### ProxyTunnels

`ProxyTunnels.tla` models every proxied request as a goroutine: `Authenticate`, `Begin`, the
steps of `handleConnect` (dial, hijack, greeting, two copies, the `AfterFunc` that closes on
cancellation) or `handleForward` (round trip, body), and `Finish`. Every forwarded request has
an `http.Transport` of its own that keeps connections alive: when the body was sent, the
upstream connection goes back to its idle pool (`idle`), outlives the handler and is closed by
the pool's timeout of 30 seconds or by the upstream (`IdleCloses`). A disconnect call is
`Disconnect`, `Collect` under the lock, `CancelOne` for each request without it, and `Return`.
The cancellation that net/http causes when a client goes away is `ClientGone`. A client that
does not read a forwarded response is `ClientStalls`: neither a cancelled context nor a timeout
ends that write. `RegistryIsExact` says in both directions what the registry is: whatever has a
connection in use is in it, under its own user, and no entry outlives its handler. An idle
connection is not in it, and no disconnect closes it; that it closes all the same is
`ConnectionsClose`. `Disconnects.tla` is a disconnect without handlers, connections or
registry: called, one instant at which the requests it will cancel are those its user has in
flight, cancellations, return. The tunnels implement it (`DisconnectsAreAtomic`), with a
request in flight from `begin` to `finish` and `Collect` as the instant; that a disconnect
reaches all of its user and nobody else follows, and is also proved as two invariants
(`DisconnectReachesAll`, `OthersUndisturbed`).

### ProxyAdmin

`ProxyAdmin.tla` models `userStore` and the handlers that change it. A change holds
`userStore.mu` until it is saved and is one step with four outcomes: saved, failed before
the rename, failed after it, and a crash after it. Admission comes earlier, as in the code:
`RequireAdmin` or `RequireSession`, and a login is `LoginVerified` and `LoginOpened`.
`PATCH /settings/logging` is `StoreLevel`, `LoadLevel` and `ApplyLevel`. Password hashing,
read-only handlers and files of versions without a log level are left out.

`AccountStore.tla` is the store without requests: a state the server acts on and one its next
start finds, changed together when a change is acknowledged, the second alone when it failed.
`ProxyAdmin` implements it (`ImplementsStore`) with `mem` and `disk`; which changes there are
(`Changes`) depends on the state: before the bootstrap password is changed, only that.

### ProxyExtension

`ProxyExtension.tla` models the service worker `background.js` with the popup and the error
page that send it messages. The worker is single-threaded, but storage, the proxy setting
and `fetch` answer through callbacks: each callback is a step, and what several pages have
under way (`flow`, one button press each at a time) interleaves between them. A test is
`TestBegins`, `TestRead`, `VerifyAccepted`, `Applied`, `Probed`, `Finish` and, unless the
tested configuration stays in force, `Restored`; connecting is a test of what is stored, then
`Connect`, `Enabled` and `MarkedConnected`; disconnecting is `Cleared` and
`MarkedDisconnected`. `LoadStoredConfig` and the `Boot` actions run whenever the worker
starts; `Restart` ends it, or the browser, at any point and keeps storage and the proxy
setting. A page may be closed before it gets its answer (`Passed`).

A configuration is one value, and two differ in every field, since `onChanged` copies only
fields that change. Fields are not checked again for validity: the popup sends none the
worker refuses. A page that presses a button while its last message is still being worked on
appears as a second page. `disturbed` remembers that something has come between: another
page, a restart in the middle, a call whose failure nothing makes up for, or a page closed
before it saves what it has tested over a connected proxy. The counting of challenges per
request, the answer to a single challenge and the redirection to the error page are left
out: they read this state and change none of it.

### CleanerPlan, DeveloperCleaner

`CleanerPlan.tla` is `core.js`: which entries of an origin list, presets and settings are
valid, what is stored of them, and the plan, a set of `browsingData` calls, that a preset
stands for on a tab. `DeveloperCleaner.tla` is the worker and its pages. A step is the code
between two awaits. `job[o]` is what the worker is doing for each of its owners: for a page, or
for `Worker`, the operation at the head of the queue. `Queued` begins the operations that wait
in `serialized` (saves, triggers, settings of other devices); `Request` begins a page's preview
or cleanup at once; `Cleanup` is `removeData`, one call at a time with the look at the settings
before each, the record, closing windows or reloading, and the end in `finally`. An operation
of the queue that fails, a save apart, is reported: `reportError` adds a record to the log
outside the queue, by a read (`ReportRead`) and a write (`ReportWritten`) between which
anything may happen. `Configure` puts alarm and badge in place. `User` is what a page does;
edits go through the checks of `ui.js` and `core.js`. `Environment` is the browser: alarms,
navigation, closed tabs and pages, settings of other devices, the end of the worker (which
takes ticket, flag and queue with it) and of the browser.

Data is abstracted to what decides: an entry of an origin list is a scheme, a host and whether
it is an exact origin (`NoneAssumption`: the mark for an invalid one is no origin); names, time
ranges, the theme and warnings are left out. One tab can be the target. Of the activity log
only the newest record of a cleanup is kept (`activity`); the "Automation" records that reports
add are left out, but not what their writes do to that record, which `overtaken` remembers: a
report that has read the log before a cleanup's record puts the older log back over it. An
imported file is normalised before it is sent, as `ui.js` does. A page's refresh happens with
its answer; a page asks again only when its handler is idle, as its disabled controls make
sure; two open pages are two members of `Pages`. Storage calls do not fail, since no code
treats their failure apart from that of the whole operation; removals, closing windows and
reloading do. `late` and `ignored` count what a cleanup still did after developer mode was off,
or after the user asked for that; `disturbed` remembers that two owners were in the middle of
changing alarm, badge or review at once, or that the worker ended there.

### HawkTracker

`HawkTracker.tla` is the tracker's script with its database and the dashboard. `tracker` is the
state of the script: `CreateFile`, `CreateTable` or `FileExists`, then for ever `PollV4`,
`PollV6`, `Compare`, `Insert` or `InsertFails`, and `LogPoll`; the `Fails` forms of the polls
stand for the three attempts that got no answer, the `Misread` forms for an answer that is an
error page: `curl` runs without `-f`, so a word of the page (`Words`) is recorded as an
address, and what a page adds to the line that `get_ips` prints is read as the other family's.
Container and line are the environment: it stops the tracker between any two commands, and the
line changes between any two steps. A query (`QueryAnswered`, `QueryFails`) sees the rows there
are when it is answered; while one is under way it may hold the lock an insert needs.
`FetchBegins`, `FetchResolved` and `FetchRejected` are `fetchData` with its `Promise.all`.

A row that repeats the one before it is left out, so that a table can be longer than any bound
on polls; two of the three requests of a page stand for all, which are handled alike. Not
modelled: a disk that fails while the last row is read, and the `LIMIT` of the queries, by
which a page asks for the last 500 rows and the last 100 changes; `QueryFails` of other causes
than the missing table counts as a fault.

## Runs

| run | instance | shows |
|---|---|---|
| `PeerService` | 3 keys, 1 user, limit 2, lifetime of one tick, 2 faults | uniqueness, list = file, address ownership, granted and withdrawn peers, leaks, the refinement (and with it the limit), and that expired peers leave |
| `SelfService` | 1 user, 2 sign-ins, 1 peer, tokens replaced or kept (3), 1 fault, 1 restart, the provider may refuse the service | owner records exist for peers and sessions; who is revoked without ever having left lost a token or had a good one refused; leavers lose their peers through outages, failures and a restart |
| `SelfServiceRevocation` | no fault | *violated*: a peer or session outlives a revocation |
| `SelfServiceLostAnswer` | one fault | *violated*: a lost answer revokes a member |
| `ProxyTunnels` | 2 requests, 2 users, 1 disconnect | nothing leaks, exact registry, disconnects are atomic (`Disconnects`), everything cancelled ends and everything opened is closed |
| `ProxyAdmin` | 2 clients, 1 account, 2 passwords, 2 levels, 2 faults | the store keeps its promise (`AccountStore`); rotation is final; level and file agree; the bootstrap password first |
| `ProxyExtension` | 2 pages, 2 configurations, 1 fault, 1 restart | tests clean up, the settings agree when pages act one at a time, no proxy without credentials |
| `DeveloperCleaner` | settings page and popup, 2 presets, 2 hosts, 3 types of data, a synchronised and an unsynchronised start, 1 report at a time, budget 7 | reviews, cleanups alone, unattended cleanups as the settings ask, the switch, alarm and badge, the record, and that everything comes to rest |
| `DeveloperCleanerUnreadable` | budget 3: one edit | *violated*: what was stored cannot be read again |
| `DeveloperCleanerSwitch` | budget 5: a trigger and a click | *violated*: the switch does not stop an unattended cleanup |
| `HawkTracker` | 2 IPv4 addresses, 1 IPv6 or none, 1 word of an error page, 1 page, 2 attempts, 1 change, 1 failure or restart | rows are marked and logged where the address differs, two at most for a change while polls are answered; the page ends up with all of them |
| `HawkTrackerOutage` | no change of the line, 1 failure | *violated*: a row is marked as a change on a stable line |

Why these bounds: a property of `PeerService` relates at most two keys and the interplay of a
third that takes an address; two faults are a failed effect and a failed cleanup, or a failure
and a crash. One user shows every race of `SelfService`, since users share no state but the
maps; two sign-ins let one replace the token of the other. Two requests show the registry's
sharing between and within users. Two clients suffice for the races of `ProxyAdmin`, where
every step of a handler is atomic on shared state. Two pages overlap in every way two handlers
of the extension can, and two configurations tell a tested one from the saved one. In
`DeveloperCleaner` an edit or an event of the environment costs 3 of the budget and any other
click 2: seven units are two edits, or a trigger and two clicks, which is what it takes to
change settings under a review or a cleanup in progress; two operations may wait in the queue,
and one report is enough to overwrite a record. In `HawkTracker` a single change of the line
meets every stage of a poll, and one failure or restart meets it before and after; the
invariant of the proof has also been checked with two of them. Pages and configurations
(`ProxyExtension`), whose run checks invariants only, are symmetric. The proofs do not depend
on these bounds.

Deadlock is checked except in `ProxyTunnels`, where every request is served once and the
system stops, and in the runs of `DeveloperCleaner`, which stop when the budget is spent.

Fairness:

* `PeerService`: the process finishes the call it is in and is restarted after a crash
  (docker's `restart: unless-stopped`); `RemoveExpired` is strongly fair because the
  reconciler calls it on every tick and a `sync.Mutex` does not starve a waiter. Nothing
  is assumed of clients, and faults are bounded: an effect that fails for ever makes no
  progress in the code either.
* `SelfService`: the reconciler goes on, since its ticker does and every request to the
  provider ends by its 15 second timeout.
* `ProxyTunnels`: a handler takes the steps that wait for nobody, and those a cancelled context
  or a closed connection unblocks; an idle connection meets its timeout. Nothing is assumed of
  clients and upstreams.
* `DeveloperCleaner`: whatever the worker awaits is answered (`Proceed`, for each owner, and
  `Reporting`, for each report); users and the environment need not do anything.
* `HawkTracker`: the script's loop and the page's timer go on and requests end. `Insert` is
  strongly fair: a query holds the table for milliseconds every five minutes and an insert is
  tried three times, two seconds apart, in every poll, so that not all of them meet one.

## Proofs

All safety properties of the passing runs, invariants, action properties and refinements, are
theorems, for all values of the constants that satisfy the named assumptions (which restate
what the configuration code rejects, and that the marks for "absent" are not values).

* `PeerServiceProofs`: the invariant `IInv` adds to the properties what each stage of a
  call knows: what `new`, `todo` and `dropped` hold, which keys are on the interface with
  which address, and what a key's `fate` says about it. `LimitHolds` needs
  cardinality facts of finite sets; `ImplementsRegistry` is proved from `IInv` step by step
  (`StepRefines`), and `ImplementsCounts` from it alone, with `RegistryCounts`: the second
  level of the refinement never looks at the service again. `PoolKeepsAddresses` says that
  `Create` runs out of addresses exactly when the pool is full of listed peers; it counts the
  addresses of a set of unique peers by a bijection. The three
  keys of the run never fill its pool, so that no run checks it.
* `PeerRegistryProofs`: the registry alone implies unique keys and addresses and the limit
  (so they hold of anything that implements it), and that its numbers move as `PeerCounts`
  says; a record that was within the limit stays within it whatever is struck off.
* `SelfServiceProofs`: `OwnersOK` says per user that peers and sessions have an owner record in
  memory and on disk, that records the reconciler is about to delete have no peers left, and
  who is excepted; `TokensOK` that no token that records, sign-ins and the reconciler hold for
  a user who is not in `lost` is stale; `MembersOK` that the verdict on a member is never to
  revoke. `MembersStay` therefore holds with tokens replaced, saves failing and restarts, and
  its exceptions are exactly three: the answer with the new token was lost, the process ended
  before that token was on disk, or the provider refused a good token. Two theorems draw the
  line around the findings: where the provider neither replaces tokens nor refuses the service
  (`KeptOK`: then nothing is ever lost), the violated `OutageKeepsPeers` is an invariant
  (`KeptTokensKeepMembers`), and while no request or sign-in has overtaken a revocation, so is
  the violated `RevocationIsComplete` (`OnlyRacesEscape`).
* `ProxyTunnelsProofs`: per request, the stage determines which sockets are held, whether one
  of them is idle, and that a request with one in use is registered; per call, what is still to
  cancel, has been cancelled or has ended covers what was in flight when it began.
  `DisconnectRefinement` needs of this that the registry under the lock is exactly what is in
  flight (`RegistryIsExact`): then `Collect` is the instant of `Disconnects`, and every step of
  a handler begins, ends or leaves alone what that module sees of its request.
* `ProxyAdminProofs`: memory and file agree up to the mark "ahead"; after an acknowledged
  rotation neither copy demands one; a client past `RequireAdmin` implies that none is
  demanded; and without overlap the only client between storing and applying holds the
  stored level. `StoreRefinement` maps every outcome of a save to a step of `AccountStore`; that
  only a rotation is possible while one is demanded comes from the invariant about admitted
  clients. `FileIsOneAhead` follows: failed changes do not pile up, because each starts from
  memory and replaces the file.
* `ProxyExtensionProofs`: `Base` holds however handlers overlap: whoever was or will be
  connected has a saved configuration, temporary credentials belong to a test that has yet
  to finish, and a proxy without credentials belongs to a test or to a start that will clear
  it. `Calm` holds while nothing has come between: at most one page has something under way,
  and each of its stages knows what the proxy setting, the flag and the worker's globals are.

* `DeveloperCleanerProofs`: `NeverWidened` is about `CleanerPlan` alone: what cannot be
  filtered by site, and data of apps, is removed only under a rule for the whole browser. The
  rest is one invariant over the stages of a job: what was reviewed is what is carried out, the
  flag is set by the one owner that removes, the settings an unattended cleanup was planned
  from stay while it is at the head of the queue, what is still to do of a plan, how often a
  cleanup has gone on since developer mode went off, what alarm and badge will be once whoever
  is configuring them has finished, and what the log holds (`LoggedOK`: after its record a
  cleanup finds it the newest, or a report has put an older log back; `ReportsOK` types the
  reports). `ExpandedOnce` says that normalising what is stored changes nothing, which every
  read, save and merge relies on. `RoomyListsAreReadable` draws the line around the finding on
  long lists: if every list that can be submitted has room for its expansion (a file and the
  settings of another device arrive expanded, and are checked once more), the violated
  `StoredIsReadable` is an invariant, through every edit, merge and restart (`Durable`:
  whatever is on its way to storage is readable, in pages, jobs, storage and on other devices).
  `ShortListHasRoom` says which lists those are for certain: all of at most half of
  `MaxOrigins`, 50 in the code; the proof bounds the two origins of each host by the image of a
  function on a finite set.
* `HawkTrackerProofs`: the way of an address leads from the last row over the poll in progress
  to the line, and each of its steps may become a marked row. `Accounted` bounds the rows
  there are and those still to come while every poll was answered; a change of the line makes
  the ways longer by two at most, recording a row makes them shorter, and a poll that is given
  up cannot make them longer.

Only model-checked: liveness (`ExpiredPeersLeave`, `LeaversLosePeers`, `CancelledEnds`,
`HalfEndedEnds`, `ConnectionsClose`, `ComesToRest`, `DashboardCatchesUp`), since the prover has
no reasoning about fairness or ENABLED here, and the findings. Proved but in no run:
`OwnerLimit`, `MemoryIsDisk` of the account store, `DisconnectReachesAll` and
`OthersUndisturbed`, which the refinements in the runs imply, `OneChangeAhead` of the account
store, and `PoolIsExact` and `ImplementsCounts` of the peer service.

## Findings

* A revocation does not reach requests and sign-ins already in flight
  (`SelfServiceRevocation`).
* A lost answer of a provider that rotates refresh tokens revokes a member
  (`SelfServiceLostAnswer`).
* The cleaner checks the length of an origin list before it turns bare hosts into two origins
  each; a list of 51 to 100 hosts is stored and no operation can read its settings any more
  (`DeveloperCleanerUnreadable`).
* Switching developer mode off while an unattended cleanup runs does not stop it: the save
  waits in the queue behind it (`DeveloperCleanerSwitch`).
* An outage of the address service on a stable line is recorded as two changes, to "unknown" and
  back, where the documents say a change is a change of address and a missing address is NULL
  (`HawkTrackerOutage`).

Known limits that the properties name as exceptions:

* two pages of the proxy extension, or both buttons of one popup, can leave its flag set
  without a proxy or the other way round (`disturbed` in `SettingsAgree`);
* overlapping changes of the log level can leave another level in force than the one stored
  (`LevelAgrees` speaks of requests that do not overlap);
* any 400 or 401 from the provider counts as a revocation: while it refuses the service itself,
  every user with peers and a refresh token loses them at the next check; and a replaced token
  that was not saved before a restart revokes its user at the check after (`lost` in
  `MembersKeepPeers`);
* a test of the proxy extension may lose its credentials to another that ends before it, and
  fails (`TestsCleanUp` says only that none stay behind);
* the upstream connection of a forwarded request stays open for up to 30 seconds after its
  handler, where no disconnect finds it (`idle` in `RegistryIsExact`);
* settings read before a save in progress is stored, and applied after it, can leave alarm and
  badge wrong until they are next configured (`disturbed` in `ShownAgrees`);
* the report of a failed operation may overwrite the record of a cleanup that ran meanwhile
  (`overtaken` in `PartialIsRecorded`), and after a failed unattended cleanup the newest entry
  of the log is the report's, which says that nothing was removed;
* a client that does not read keeps a forwarded request in flight after a disconnect
  (stage `blocked` in `CancelledEnds`);
* a tracker that stops between creating its database file and the table in it never creates
  the table (`DashboardCatchesUp` excepts it), a page shows 500 rows and 100 changes at most, and
  `ChangesAreReal` bounds the rows of answered polls only (see the finding on outages).

## What is left to prove

* That a cleanup of the developer cleaner is one abstract operation, reviewed, carried out in
  order and recorded: today four invariants (`NothingUnreviewed`, `OneCleanup`,
  `OffStopsCleanup`, `PartialIsRecorded`) say it piece by piece.
* That the proxy extension implements a switch with a position, on or off, while nothing comes
  between (`SettingsAgree` says so of its states, not of its steps).
* That the addresses in the tracker's table come in the order in which the line had them.

## Not modelled

* Deployment (`setup.sh`, `scripts/lib.sh`): some thousand lines of shell whose state is the
  machine: installed files, packages and running services. The one behaviour across runs that
  a model could tell, a file found unchanged by the run after an interrupted one, is listed as
  a hazard without a property; it would be the next module.
* The map of pending logins of the sign-on (state, nonce, at most 1000): it decides only
  whether a sign-in may start.
* The answers of the proxy extension to single challenges, with their count per request, and
  its redirection to the error page: they read the modelled state and change none of it.
* Read-only handlers and password hashing of the proxy's account store.
* Request decoding, configuration parsing, key and QR encoding, the portal (`web/app.js`),
  the charts and the PDF of the dashboard, the destination policy of the proxy (a table of
  address prefixes), the build script and the read-only scripts: they keep no state.
* The configuration templates: data for other programs.
