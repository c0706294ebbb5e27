# A verification project for the Square / UniFi Protect integration

The program is one Rust process with a SQLite database and a directory of
JPEG files. It copies card sales from Square (polling and webhooks), captures
a camera picture of each sale from a UniFi Protect console, triggers Protect
alarms for completed sales, and serves a web application. Everything hard about
it comes from work that overlaps: sync passes, the drains that webhooks spawn,
administrators, background maintenance, crashes, and two remote services that
answer late, twice or not at all.

Paths in this file are relative to the repository (`src/store.rs`) or to this
directory (`AlarmDelivery.tla`). `PROJECT.json` maps every definition to the
lines it models.

## Inventory

| Part | Code | State it keeps | Operations | Correct when |
|---|---|---|---|---|
| Alarm delivery | `store.rs` 1756-1807, 3002; `sync.rs` 303; `web.rs` 600, 671 | `alarm_state`, claim token and time per sale; `protect.*` settings | scan, claim, trigger, mark sent, release; enable, disable, switch | claims never overlap; every accepted trigger is accounted for; nothing rings while off, or for sales completed before enabling |
| Thumbnail evidence | `store.rs` 1141, 1248, 1535-1754, 2464; `sync.rs` 207, 269 | `transactions`, `thumbnail_retries`, `camera_map`, files | upsert, claim, capture, attach, fail, requeue, re-map, retire, clear | never another payment's, camera's or moment's picture; nothing forgotten; no stray file |
| Thumbnail maintenance | `web.rs` 91-187, 1135; `store.rs` 499-856 | queue flags, status, policy, revisions | schedule, run, optimize, retire, save policy | one run at a time; no request lost; only the policy in force acts |
| Integration guard | `store.rs` 245 | a file lock | shared, exclusive | drains and switches exclude each other; nobody waits for ever |
| Square sync, poller | `sync.rs` 34-192, 405 | watermarks, execution lock, OAuth tokens | page, ingest, advance, refresh | no payment skipped; no stale token written |
| Square webhook | `web.rs` 1988; `store.rs` 2057-2140 | receipts (at most 4096) | verify, deduplicate, ingest, drain | each event takes effect; duplicates do no harm |
| Transaction feed | `store.rs` 1809-1958 | snapshots (8, 12 h), note revisions | page, invalidate, edit note | pages neither repeat nor skip; no lost note |
| Accounts | `web.rs` 322-530; `store.rs` 860-1086; `security.rs` | users, revisions, sessions, throttle, bootstrap secret | set up, login, reset, logout | no session of an old password; one first administrator; bounded guessing |
| Console and merchant switch | `web.rs` 640-855, 904-1440; `store.rs` 2464; `sync.rs` 365 | identity, generation, switch tokens, OAuth states and tokens, camera map | confirm, switch, authorize, refresh, map | nothing crosses accounts or consoles; nobody is replaced unconfirmed |
| Motion receiver | `store.rs` 2169-2460; `web.rs` 1030-1130, 1927-1986 | configuration, events (50,000) | configure, receive, match | an event is filed under the camera its token was issued for |
| Provider clients | `clients.rs` | - | HTTP with 15 s timeout | requests end before leases do |
| Keys and TLS | `security.rs`, `tls.rs` | key, salt and pair files | publish first-wins; regenerate under a lock | everybody uses the same key; a half-published pair is replaced |
| Start-up | `main.rs`, `web.rs` `AppState::new` | the port | open, prepare, bind | one server; the bootstrap secret works |
| Menu bar | `src/bin/square-protect-menubar.rs` | child, probe, secret shown | probe, spawn, refresh, quit | the secret it shows is the one its server takes |
| Browser | `app/static/app.js` | pages, offset, note editor | page on, load again after a 409 or a note, edit | as the feed |
| Installers | `scripts/`, packaging files | - | packaging | not modelled |

Interactions: a sync pass and every drain hold the integration guard shared, for as long as
their HTTP requests take; saves of settings, mappings and policies, switches, and each single
step of maintenance hold it exclusively. Database transactions are serialized by one connection
mutex and are the unit of atomicity. A webhook ingests under the shared guard and spawns a
drain. Maintenance runs on a blocking thread and is asked for through an in-memory queue. Motion
webhooks and logins take no guard: they rely on transactions and on revisions checked in them.
Processes meet in the data directory: servers, and the probes of the menu bar.

Hard behaviours: several drains at once; leases that expire while their holder
still works; files and rows that are not updated together; settings read
before a remote request and used after it; snapshots of a payment that
overtake one another; crashes between any two transactions; requests that verify a
password, or ask a remote service, between reading a setting and relying on it. The list of
hazards in `PROJECT.json` gives each its line and the properties that cover
it, or says that none does yet.

## Modules

### AlarmDelivery (with AlarmLedger, AlarmDeliveryProofs)

State: `row` is the part of `transactions` alarms depend on, `alarm` the three
claim columns, `delivered` the delivery time, `settings` the alarm settings
(`on` stands for an API key together with a trigger id), `drain` and `admin`
the local variables of running tasks, `square` and `versions` Square's own
records and the snapshots it has published. `accepted` and `unsaved` are ghosts:
triggers Protect accepted, and those of them whose answer never reached the row.

Actions: `Ingest` is `upsert_payment` with `suppress_historical_alarm`, for any
snapshot in any order, as often as it likes; `StartDrain`, `Scan`, `Claim`,
`ProtectAccepts`, `MarkSent`, `ReleaseAndStop`, `RequestFails`, `AnswerLost`,
`EndBatch` are the steps of `retry_alarms`; `BeginSave` to `FinishSave` those of
`set_protect` and `delete_protect_alarm`, with the settings read before the
requests and compared under the guard; `ReadSummary` is the dashboard's query,
which releases expired claims as well; `Crash` forgets everything but the database.

Time: ticks of an abstract clock. The model assumes what the client's timeout
(15 s) and the lease (60 s) give: a request has ended `RequestTimeout` ticks
after it was sent, and `RequestTimeout < Lease`. Ages stop counting at the
lease, the clock at `MaxTime`. The time between the claim and the sending of
its request is taken to be zero; a thread that is suspended there for 45 s, as when the machine
sleeps, is outside the model.

`AlarmLedger` is the abstract specification: per sale, a ring may be
awaited, every ring is either saved or lost, and a settled sale stays settled.
`LedgerSpec` in AlarmDelivery instantiates it with a refinement mapping.

### EvidencePipeline (with EvidenceProofs)

State: `row` (transactions, with `protect_evidence_retired` as `foreign` and
`thumbnail_retired_at` as `expired`), `retry` (thumbnail_retries), `cameraMap`,
`disk` (what each file is a picture of), `cleanup` (the marker of a pending orphan
clean-up), `unlinks` (files a task has still to look at after its commit),
`doomed` (those it found unreferenced and is about to delete), `spared` (the names a sweep
listed at its start), `worker` (drains), `upkeep` (a maintenance run), `clearing` (a
switch deleting files). `stray` is a ghost: files that a crash or a failed operation left
behind. File names carry the lease token, so a capture always gets an
`Unused` name; `Names` bounds how many exist at once.

Actions: one per transaction or file operation, hence `WriteFile` and `Attach`, `Retire`,
`Unlink` (which asks the rows) and `Erase` (which deletes), `SwitchConsole` and `Sweep` are
apart and anything may happen in between. A maintenance sweep goes by the list it made in
`EndUpkeep`, as `remove_orphan_thumbnails` does; the end of a switch spares nothing. `Upsert` is
the camera and queue part of `upsert_payment`, for new facts (`Ingest`, `Edit`) and overlapping
polls (`Repoll`); `Attach` and `Reject` are the two outcomes of `complete_thumbnail_retry`,
`AttachErrors` and `Abandon` its error paths. Deleting may fail everywhere: `Erase` then leaves
the file to the marker, a sweep ends, and a drain (`LetGo`) does not notice; `WriteFails` is a
capture whose file has its final name when an error ends it. `Crash` includes the restart
(`reconcile_missing_thumbnails`).

Abstractions: leases and back-off delays may end at any time (a superset of
the timed behaviour); which files a run retires is left open (Maintenance
says why); a file is there under its final name or not at all (the temporary file that a
write began, and a crash may leave, is not modelled);
a file vanishes (`Vanish`) only through somebody outside the program. `MaxChanges` bounds
edits, mappings, switches, vanished files and the failures that leave a file behind, together.

### Maintenance (with MaintenanceProofs)

State: `queue` (`MaintenanceQueue`), `status` (its `state` field), `request`
(handlers between saving a policy and scheduling), `runner` (tasks, with the
policy and the lists they read), `policy`, `asset`, `old`. Ghosts `asked` and `owed`:
pictures an accepted request is to compress or to retire.

Actions: `SavePolicy` and `FinishRequest` are the two steps of
`set_thumbnail_settings`, `OptimizeNow` the explicit route, `Begin` to
`LookAgain` the loop of `run_maintenance_queue` with the phases of
`Store::run_thumbnail_maintenance`: compress, retire by age, retire by quota.
Each picture is a step of its own because the exclusive guard is released in
between. The number of bytes is abstracted: the quota phase may retire any
listed picture and stop at any time.

### SquareSync (with SquareSyncProofs)

State: `square` is what Square holds (owner, last update, and the update
ListPayments shows, which follows within `Delay`), `published` the events it
sends, as often as it likes and in any order. `row`, `watermark`, `receipts` are
the tables; `merchant` the connected account; `poll` the local variables of the
pass that holds the execution lock, `hook` those of webhook requests, `admin` a
switch between clearing the old account and saving the new one. `since` is a
ghost: where the first complete pass began. Of a payment only its update time
is kept, and a merchant has one location.

Actions: `StartSync` (try_lock, guard, boundary), `PageArrives`, `IngestPolled`,
`EndPage`, `SyncFails`, `FinishSync` are `SyncEngine::sync`; `Receive` to
`HookFails` are `square_webhook`; `SwitchClears`, `SaveAccount`, `SwitchFails`
the account change of `set_square` and `confirm_oauth_switch`. A page holds the
payments of one update time, so every longer list takes several. Alarms are one
bit here (`alarm`: some trigger is still owed), enough to ask which requests
start a drain; AlarmDelivery has what a drain does. `Recapture` is the thumbnail
handler, which starts one as well.

Left out: malformed payments (skipped by the code), the merchants' separate
locations, and the OAuth refresh, which is in SquareAccount.

### TransactionFeed (with FeedProofs)

State: `row` (time, one searched column, note and its revision of a sale, and
its row id), `revision` (`order_revision`), `snapshots`
(`transaction_feed_snapshots`; of `last_accessed_at` the order is kept: a row's
`age` is the number of rows used after it), `reader` (what a browser shows, pairs of a
time and an id, the snapshot it holds, if any, and what it is to load `next`), `editor` (the note
editor open in a browser, at most one). Ghosts: the `list` of the snapshot that a reader's page
was read with, and whether a row was `erased` since an editor read it. Some sales (`Known`) are
in the database at the start.

Actions: `Upsert` is an accepted `upsert_payment` as the feed sees it, with the invalidation by
the trigger and the code (all snapshots when a time changes, the filtered ones when a searched
column does); `Erase` an account switch; `FreshPage` (no snapshot, at any offset) and
`LaterPage` (with one) are `list_transactions_page` with refresh and eviction, driven by the
browser's `Open`, `NextPage`, `Reload` (the previous page, or the timer) and `Load`; `SaveNote`
is `set_transaction_note`. The browser has to `Load` after a refused page (from the beginning),
after a note was saved or refused with 409 (its present offset, without a snapshot, hence from a
new one), and after a page that turned out to be empty (the one before); `LoadFails` leaves it
what it shows. Snapshot ids and bounds by row id are kept as in the code: what makes a page
exact is that *every* change that would shift a kept snapshot's pages removes the snapshot.

### Accounts, Startup, Installation (with AccountsProofs, InstallationProofs)

Accounts is one running server: setup, logins, users, resets, sessions and the
throttle. `guesses` is a ghost: the wrong passwords an address has been told of since a failure
was forgotten. A request that hashes or verifies a password is two steps (`Setup` and
`FinishSetup`, `Login` and `CreateSession` or `FailLogin`, `Administer` and
`CreateUser` or `ResetPassword`), because nothing is locked in between. `auth_revision`
is `rev`. A session remembers the password that was verified (ghost).
No operation of the code changes a role or disables an account.

Startup is the processes that open one data directory: `ReadSecret` and
`PublishSecret` are `load_or_create` for key and salt; a process whose environment has
`SPI_ENCRYPTION_KEY` begins with the salt. `Build` is `AppState::new`; then a server with
`SPI_TLS` goes on to the pair, one without to the port. `Lock` to `PublishCert`
are `ensure_self_signed_pair`, `LoadCert` and `LoadKey` what rustls reads afterwards
without the lock, `Bind` the listener. Any process may `Die` at any step. Addresses to be
covered stand for the names of a certificate.

Installation composes them: whoever holds the port serves Accounts, and its
requests die with it. The menu bar opens (`OpenMenubar`, which runs a
first probe), spawns a server, shows a bootstrap secret until a later probe finds
the setup complete (`Refresh`), quits or is killed. Its child may lose the
port to a server that the service manager started. `app` is the bootstrap secret
of each process: the one it was started with, and, from `Builds` on, the one of its
`AppState`. That is built before the TLS material and the port are there, so another
server may complete the setup in between; `Serves` goes on with what was built.

### IntegrationGuard, SquareAccount, ProtectConsole, Providers (with ProvidersProofs)

IntegrationGuard is the file lock: tasks (requests, polls, drains) hold it from a
step to a later one, or take and drop it within a step (`Briefly`) where the code
does nothing slow in between. SquareAccount has `set_square` (`AskSwitch`,
`ConfirmSwitch` and `SaveSquare`, `Reconnect`, `ForgetStates`), OAuth (`StartOAuth`,
`Callback`, `ConnectOAuth`, `ParkOAuth`, `ConfirmOAuth`, `AdoptOAuth`,
`CancelOAuth`), and whoever uses the account (`UseSquare`, `StartRefresh`,
`EndRefresh`, `GetClient`, `Ingest`, `RegisterWebhook`). ProtectConsole has
`protect_switch_token` (`AskConsole`, `Confirm`), `set_protect` (`ReadConsole`,
`VerifyConsole`, `SaveConsole`, or `EraseProtect` and `BindConsole`), drains and the
motion receiver. Providers composes both with the sync, which uses both, and the
camera-map form, which an administrator fills in from pages loaded earlier.
Every stage may be a task's last (`Quit`): a failed request, a client that went
away, a process that died.

A token, a sale, a picture or an event is known by the account, the console or
the camera it came from, so that what crosses over is visible. The properties do not look
at webhook keys: an OAuth switch keeps the old one (see below).

Assumptions: consoles report an identity; the hardware at an address is not replaced in the
middle of a conversation; a token of an account never turns into one of another;
pruning of motion rows is all or nothing; the alarm settings that `set_protect` writes
are in AlarmDelivery.

## Runs

| Run | Question | Bounds | Result |
|---|---|---|---|
| `alarm_delivery` | Do claims, the guard and suppression work together? | 2 sales, 2 drains, 1 administrator, 2 saves, 1 lost answer, 1 crash, no later edits | holds |
| `alarm_liveness` | Is every pending sale settled? | 2 sales, 1 drain, 2 administrators, 1 edit, 1 crash | holds |
| `alarm_replay_after_edit` | Are sales from before the activation never rung? | 1 sale, 1 edit, 3 saves, no crash | violated |
| `evidence_pipeline` | Do rows, queue and files agree, whatever overtakes what? | 1 payment, 2 drains, 2 cameras, 2 times, 3 file names, 3 changes (failed file operations among them), 1 crash | holds |
| `evidence_liveness` | Is every wanted picture captured? | 2 payments, 1 drain, 1 camera, 4 file names, 2 changes, 1 crash | holds |
| `maintenance` | Is maintenance serialized, complete, honest and never under a policy that was replaced? | 1 payment with up to 2 pictures, 1 administrator and the start-up request, 2 tasks, 2 saves, 1 crash | holds |
| `transaction_feed` | Are pages exact, notes never overwritten unseen, and does paging end? | 3 sales, 2 of them there at the start, 2 tags, 2 filters, 2 browsers with an editor each, 2 times, 2 snapshots, 2 further steps | holds |
| `square_sync` | Is anything skipped, mixed up or hidden by a receipt? | 2 payments, 2 accounts, 1 webhook, 3 updates, 3 ticks, 1 switch, 1 failure, 1 receipt kept | holds |
| `square_liveness` | Does every update arrive by polling alone? | 2 payments, 1 account, 3 updates, 3 ticks, 1 failure, 1 crash | holds |
| `square_duplicate_retry` | Does a duplicate webhook retry a failed alarm? | 1 payment, 1 webhook, no poller, 1 failure | violated |
| `installation` | Do racing starts, setups, logins and resets agree on keys, accounts and the secret shown? | 2 processes, 1 address to bind, 2 accounts, 2 passwords, 2 addresses, 2 requests, 3 launches, 1 death, 4 slow requests (fewer after more launches), 2 sessions | holds |
| `providers` | Does anything cross accounts or consoles, or is anybody replaced unconfirmed? | 2 tasks at a time, 4 in all, 2 accounts, 2 hosts, 2 consoles, 2 cameras, 1 console replaced in place, 1 OAuth state | holds |

Why these bounds. A claim conflict needs one sale and two drains; the second sale makes batches
end and begin (`Batch` = 1). Evidence is per payment, and payments only meet in batches, which
the liveness run has; two cameras and two times make every kind of changed evidence, three names
let a name be written, in flight and about to be deleted at once; the liveness run has one name
more, since its two changes and its crash may leave a file behind and two payments want one
each. With `Overlap` = `Delay` = 1, three ticks let an update be made, missed by a pass because
Square lists it late, and lie more than the overlap before a later watermark; two payments let
one be edited while the page of the other is read. Two saves are what it takes to start a run
under one policy and replace it. In the feed, three sales (two of them stored at the start,
which a filter finds) and pages of one make a list with a beginning, a middle and an end, and a
row to come; two filters and two browsers open more snapshots than the two that are kept. Two
steps are a change and a note, a note and an eviction, or two changes, under lists that are
open: the first opening of a browser, paging and loading again are not counted. In the
installation two processes race for every file and the port, three launches let a third find
what a dead one left; `Room` (in the MC module) bounds the deaths and slow requests by the
number of launches there have been, four with one launch, two with two, one with three, which
keeps interleavings of many starts with many logins out. In `providers` a replacement takes one
request to ask, one to confirm, and one more that is under way meanwhile or comes after; the
fourth is what a form, a motion delivery or a second switch needs. Every invariant and every
action property of a passing run is also proved without these bounds (see Proofs); the bounds
matter for liveness only.

The depth of the state graphs
shows that all bounds are reached; every action fires in a passing run.

The two violated runs are disagreements between the documentation and the code,
recorded under `findings`:

* `README.md:26-27` promises that sales completed before the feature was enabled
  never ring. The completion time of a sale is known only from the update
  time of the first completed snapshot that is seen; if that snapshot is a later edit,
  the sale rings. With edits disabled the property holds in
  `alarm_delivery`. It also fails without edits after *two* crashes, each
  between writing settings and suppressing the pending sales (raise
  `MaxCrashes` to 2 and `MaxSaves` to 3), which is why that run allows one. These are
  the only causes: `ReplaysNeedEditsOrCrashes` proves that a sale from before the
  activation rings only if Square edited it or there were two crashes.
* `README.md:307-308` and `315-316` count on a duplicate webhook to retry a failed
  alarm. `square_webhook` answers a duplicate before it would start a drain.

Weaker observations, made while modelling, have no run:

* `README.md:292-293` says retired payments keep their timeline link; an overlap
  poll maps a retired payment anew (`store.rs:1308`), to whatever camera the map then names.
* `README.md:290-291` says polls and manual syncs schedule maintenance. They do
  not (`schedule_maintenance` is called at start-up and by settings).
* `README.md:282-283` says a confirmed console switch disables the motion receiver.
  The switch clears its events; only `delete_motion_settings` (`web.rs:1119`)
  disables it. New events of an old token are still filed under the camera the token
  was issued for (`OwnData`).
* `app/static/index.html:239` announces that an OAuth switch erases the old
  webhook credentials; `confirm_oauth_switch` leaves them.
* `set_square` checks the webhook URL only after a confirmed switch has erased the
  old account's data (`web.rs:960`, then `976`): a refused URL leaves the old account,
  empty. No data crosses, which `OwnData` says; the data is fetched again.
* The confirmation of a `set_square` switch survives an OAuth switch made meanwhile, so a
  confirmation given while one account was connected may replace another.
  `SwitchConfirmed` is about who comes, not about who goes.
* `README.md:350-352` says that changing a note keeps a continuing search page from
  silently repeating or skipping rows. After a note, and after a 409, the browser drops its
  snapshot and loads its present offset (`app.js:1420-1428`), which the store
  serves from a new snapshot (`store.rs:1861-1886`): the pages after it fit that list, but
  not what the user saw before. `PagesExact` promises as much and no more.
* A file can be left that nothing refers to: by a refused attachment whose removal fails
  (`sync.rs:237-238`), and by a capture that fails when its file already has the final name
  (`thumbnail.rs:181-185`, `sync.rs:227`). No marker is set; the next sweep that something else
  asks for takes it. `NoStrayFiles` names these cases (`stray`).
* Concurrent guesses are all verified: an address may be told of as many wrong
  passwords beyond `LOGIN_MAX_FAILURES` as were being verified at the limit, and a right one
  among them is accepted and forgives the rest (`web.rs:406-438`). `GuessesBounded` has this bound.
* `AppState::start_background_work` (`main.rs:31`) runs before the port is bound: a second server
  that finds the port taken has polled and maintained the database for a moment. The modules
  other than Startup and Installation have the tasks of one process.
* `NoUnseenOverwrite` excuses rows erased by an account switch while an editor is open: their
  note revisions start again at 0, so that an editor of the old row may save over a note
  it has not seen, should the same payment be imported again.
* A run of maintenance that fails leaves status `error` only until the next
  queued run begins; a policy change that touches only retention ends an
  optimization under way without asking for another.

### Fairness

`alarm_liveness`: drains are started again and again (the poller), their steps
are taken, leases age, saves end, and an endpoint asked for ever answers in the
end (strong fairness of the answer). `evidence_liveness`: the same for one drain, and the
database finally accepts a file; with several drains that are suspended
at the right moments leases may change hands for ever, so one drain is assumed.
`maintenance`: weak fairness of requests and tasks,
which the runtime gives to spawned tasks once the guard is free. `transaction_feed`: the
user pages on and the browser loads what it is to load (weak fairness of `NextPage`
and `Load`); that this ends needs no more browsers than snapshots are kept (eight in the
code) and finitely many changes, which `MaxSteps` gives. `square_liveness`:
weak fairness of the poller, of the steps of a pass and of Square's own index; the
requests that fail are finitely many, since a pass that always fails at the same
page never gets past it. Nothing obliges
administrators, polls, aging or crashes to happen. `installation` and `providers` check
safety only and may stop, all requests made: deadlock is not checked there, nor in
`transaction_feed`.

## Proofs

Every invariant and every action property that a passing run checks is a theorem
of its specification, for every value of the constants that satisfies the
assumptions in the modules (`NeverReplayed` under the two bounds without which it is
false). The rest of this section says along which argument. In each
module the theorem `Invariant` (or a lemma of a part) proves an inductive
invariant, `IInv` where nothing else is said.

`AlarmDeliveryProofs.tla`, for every number of sales, drains,
administrators, rounds, edits and crashes, and for all leases and timeouts with
`RequestTimeout < Lease`:

* `TypeCorrect`: `Spec => []TypeOK`.
* `Exclusivity`, `Accounting`, `OnlyWhenOn`, `BoundaryKnown`: the invariants
  and the action property of that name in the runs.
* `ImplementsLedger`: `Spec => LedgerSpec`, the refinement.
* `ReplaysNeedEditsOrCrashes`: Protect rings for a sale that was completed before the
  activation only if Square edited that sale or the program crashed at least twice. Its
  corollary `PromiseKept` is `NeverReplayed` where neither can happen
  (`MaxEdits = 0`, `MaxCrashes <= 1`: the bounds of `alarm_delivery`).

The argument. `TypeOK` already says that a request is at most `RequestTimeout`
old. The invariant adds, in three layers each preserved on its own given
the ones before: *facts* (a row is a snapshot Square published; snapshots are not of
the future; a completed sale has a completion time); *guard* (exclusive saves
exclude each other and drains; a drain that may ring runs only while the feature
is on); *claims* (a drain that waits for an answer still owns its sale's claim, and
the claim is exactly as old as the request; a delivered sale is sent; every accepted
trigger is saved, awaited or lost). `Exclusivity` by itself is not inductive: a scan could take a
claim back while its request is out. The equal ages rule that out, for a claim
is only taken back at age `Lease`, which a request never reaches.
`AlarmDelivery.tla` states the assumptions on the constants
(`LeaseOutlivesRequest` is the one that matters). The replay theorems have a fourth
layer, `ReplayInv`: an unedited sale gives all its snapshots the same time, and with at
most one crash an open sale that is not recent needs two of three excuses: the feature is
off, a save is about to suppress it, a crash has cut such a save short. A drain that rings
has the feature on and the guard, which leaves one excuse, so it rings for recent
sales only.

`EvidenceProofs.tla`, for any number of payments, drains, cameras and files:
`TypeCorrect`, `PicturesNeverExchanged` (`PicturesMatch`), `NoPaymentForgotten`
(`QueueExact`), `NoFileLeftBehind` (`NoStrayFiles`), `RetiredStaysRetired`
(`RetiredForGood`), `FilesInUseStay` (`DeletesOnlyUnused`). What they need beside each other is
who holds a file (`Holders`): two rows never name one file and two drains never hold
one, a drain's file is named by no row, is not about to be deleted, and is the
picture of the drain's own job; files about to be deleted are named by no row. That makes the
question asked in `Unlink` still good in `Erase`. Who holds the
guard (`GuardHeld`): while files are retired or swept no drain is under way, hence
the list a sweep made stays the list of names in use (`Listed`).
`PicturesMatch` is then kept by `Attach`, because the row it writes to was compared with
the job of the picture. `Rows` ties the columns together: retired and foreign evidence has no file.

`MaintenanceProofs.tla`, for any number of administrators, tasks, pictures and
saves: `TypeCorrect`, `OneRunAtATime` (`SingleRunner`), `StatusIsHonest`,
`PolicyInForceHolds` (`PolicyInForce`). `OneTask` says that the queue is active exactly
while there is a task, and that no flag waits without one. `Runs` bounds what a run
carries from one guarded step to the next: the sales it took for old are still old, since ages
grow, and only a policy with a quota fills the list of the quota phase. That a picture is
changed only under the policy in force comes from the comparison of revisions in each
step. Assumption: there is a task to run (`Runners # {}`).

`SquareSyncProofs.tla`, for any number of payments, accounts and webhook requests, any
clock: `TypeCorrect`, `NoPaymentMissed` (`NothingMissed`), `AccountsNeverMix`
(`OneAccount`), `DuplicatesLoseNothing` (`ReceiptsTookEffect`), `UpdatesNeverLost`
(`NeverBackwards`). The heart is `Progress`, of a pass and a payment that is due to it
(updated after its begin, and more than the overlap before its boundary): the row is
up to date, or the payment is on the page being read, or the cursor has still to reach
it. A payment that is edited while its page is on its way is no longer due, as its
update is then too near the boundary; one Square lists late is due only once it is listed, which is
where `OverlapCoversDelay` enters: Square lists an update within the five minutes by
which passes overlap. `Clocked` and `Handling` say the same of Square's delay and of
webhooks, `Cleared` that between the two steps of a switch the tables are empty.

`FeedProofs.tla`, for any sales, filters, page size, number of kept snapshots, browsers and
editors: `TypeCorrect`, `PagingIsExact` (`PagesExact`), `NotesNotLost` (`NoUnseenOverwrite`).
`PagesExact` is not inductive, since it speaks of pages already shown. `ListsKept` is what makes
the next page fit: as long as the snapshot of a browser is kept, the list it stands for is the
one its page was read from. A browser that has given its snapshot up is bound by nothing, and a
fresh page brings its own list. Each change of a row removes the snapshots whose list it would
alter (`RowsUnaffected`, `ListingKept`): a new row is beyond every boundary, since row ids only
grow; a changed time removes all; a changed column those that filter. `Snapshots` says that ids
and ages are unique and that evicting the oldest keeps the limit, which takes counting the rows
of smaller age (`YoungerCount`, `AgesBound`). `Edits`: an editor has read the note of now or an
earlier revision, unless its row was erased. Of `SetToSortSeq` nothing is used but that equal
sets give equal lists. Assumptions: an id is a number and there are finitely many sales; `None`
is no row.

`AccountsProofs.tla`, for any number of accounts, requests, addresses and any bounds:

* `SessionsFenced`: `AccountsSpec => []NoOldSession`. Not inductive by itself: what a slow
  login has read must be the account's present password whenever the revision it
  read is still in force (`ReadsFenced`); revisions only grow, and grow with every reset.
* `SetupHappensOnce`: `AccountsSpec => []SetupOnce`, from the same facts and that the table
  is empty until the first setup (`SetupInv`).
* `LoginsThrottled`: `AccountsSpec => []GuessesBounded`. `ThrottleInv` bounds what is remembered
  (there may be infinitely many addresses, those with failures are at most `KeyLimit`).
  `GuessInv` relates it to the answers: while an address is let in, every wrong password has
  been counted; once it is not, the answers and the verifications still pending are together
  within the bound, and no further one begins.
* `AccountsTypes`.

`InstallationProofs.tla`, for any number of processes as well:

* `KeysAgree`, `LoneServersStart`: `StartupSpec => []KeyAgreement` and `[]LonePairMatches`, with
  a key from the environment or without. `FilesInv` says what a process that is alone knows: it
  sees its own writes, so what it is about to publish or has loaded fits the key file and its
  address.
* `ImplementsParts`: a step of the installation is a step of its processes and a step
  of its accounts, or a stutter, so `Spec => StartupSpec /\ AccountsSpec`; with it
  `InstallationSafe` has the five invariants of the parts for the whole.
* `StartupTypes`, `InstallationTypes` (`TypeOK`).
* `ShownSecretIsAccepted`: `Spec => []ShownSecretWorks`. It needs the invariants of both parts
  and `HandlesLive`: the child and the probe of the menu bar are alive and at stages of
  their own, hence never confused; the lock and the port have one holder (`Exclusive`); a
  server is up exactly while a process holds the port; and `Given`: the server of the application
  was built with the secret that is shown.

`ProvidersProofs.tla`, for any number of tasks, accounts, hosts and consoles:
`TypeCorrect`, `OwnDataHolds` (`[]OwnData`) and `SwitchesConfirmed` (the action property
`SwitchConfirmed`). The stage of a task determines how it holds the guard (`Held`). Hence
what a task keeps in its variables stays true while it is at a stage
(`KnowsAccount`, `KnowsConsole`): a client's token is of the connected account until it
has ingested, a drain's host is the saved console, and between erasing and saving
the tables are empty. The refresh of tokens is fenced by the settings it read
(`Snapshot`); the form by revision and generation, which only grow, so that equal numbers
mean the same provider (`FormOfAccount`, `FormOfConsole`, `MappingInv`); motion by
the token, each issued for one camera (`MotionInv`). `OwnData` itself is not
inductive: a client that outlived its account would break it in one step.

Model-checked only: liveness (`PendingIsSettled`, `EventuallyCaptured`,
`RequestsServed`, `EventuallyStored`, `ReadersFinish`), which with fairness and ENABLED
is beyond the prover, and the two runs that are violated. No module uses a RECURSIVE
operator.

## Plan

1. *Done*: AlarmDelivery with its ledger and proofs; EvidencePipeline;
   Maintenance; SquareSync.
2. *Done*: TransactionFeed; Accounts, Startup and Installation with their proofs;
   IntegrationGuard, SquareAccount, ProtectConsole and Providers with theirs.
3. *Done*: proofs of EvidencePipeline, Maintenance, SquareSync, TransactionFeed, of
   the rest of the installation, and of what it takes to replay an alarm.
4. Abstract specifications in the manner of AlarmLedger for the evidence of one payment
   (wanted, shown, retired) and for the notes of a sale, with their refinements.
5. Tasks and runtime threads, for the waiting of everybody on everybody at the guard,
   and the other two hazards that `PROJECT.json` lists without a property.

## Not modelled

Text search, formatting, JSON and cookie handling, cryptography, certificate
generation, a pair supplied by the user, legacy migrations, parsing of
provider answers, the matching of motion with sales (a query over stored rows),
delivery metrics, the rest of the browser application and the installers: they have no
protocol state, or their state is out of reach of a finite model. That
`integration_guard` blocks a thread of the runtime while another task holds it across an
await is listed as a hazard without a property: whether everybody can wait for
everybody depends on the number of worker threads, which the code leaves to
the machine.
