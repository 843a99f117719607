# Verification of the Backup Center

TLA+ models of the Backup Center, from the request or schedule that starts a backup to the
stored file and the bill, TLC configurations that check them on small instances, and TLAPS
proofs of the results that hold for every size.

## The system

The Backup Center is a Flask application with Celery workers, a Redis server and a SQL
database. It logs into network devices of many tenants (directly, through SSH jump hosts, or
through L2TP/IPsec tunnels), saves their configuration and keeps the files. Its hard part is
what happens between processes: nearly all coordination is done with separate Redis commands.

| Component | State | Operations | Hard behaviour | What makes it correct |
|---|---|---|---|---|
| Mass backup (lote) | a JSON document per batch in Redis, the global stop flag, Celery's results | `run_backup_all`, `run_backup_task`, `run_vpn_group_backups_task`, two chord callbacks, `bulk_task_status`, `cancel_bulk_task`, `_stop_backup_tasks_globally` | lost updates, phases, cancels, killed workers, expired results | phases in order; completion and counters tell the truth; a batch ends |
| Jump host slots | one Redis lock with TTL per slot | `_jump_host_lock_context` | expiry against time limits, stale limits, lost answers | one session per slot; no endless wait |
| Adaptive slot limit | a hash of limits, two streaks, a cool-down per host | `_adapt_jump_host_slots` | read-modify-write, errors halfway | limit within bounds; it recovers |
| Circuit breaker | a list of outcomes and an open key per host | `_record_jump_host_outcome`, `_check_jump_host_circuit_breaker`, `reset_circuit_breakers_for_new_batch` | pruning and resets under checks in flight, reopening | failures of the path, of this batch, open it; the host is tried again |
| VPN sessions | NetworkManager's VPN connections, a file lock | `vpn_session`, `connect_group_vpn`, `disconnect_group_vpn`, `run_group_vpn_test_task` | one tunnel for all, kills, tear-down without the lock | a session has its own tunnel and no other |
| Tenant bulk lock | one Redis key per tenant | `acquire_tenant_bulk_lock`, `release_tenant_bulk_lock`, `_has_active_bulk_operation` | check then delete then set, renewal by every write | one batch per tenant |
| Scheduler | schedules (`next_run_at`) in SQL | `run_scheduled_backups` | crash between enqueue and commit, overlapping runs, batches | every due device is queued, no day is skipped |
| Connection audits | an audit batch over the same key and document | `run_connection_audit_all`, `run_device_connection_audit_task` | they write the key without reserving it | as far as they disturb batches |
| Single backups | a document per task | `run_backup`, `run_backup_task`, the status endpoint | request and worker write one document in any order | an ended task is shown as ended |
| Realtime logs | a counter and a list in Redis | `append_task_log`, `get_task_logs`, pruning, clearing | order, trimming, cursors, rewrites | a reader misses nothing and sees nothing twice |
| Device scripts | one session with a device | 58 scripts and their helpers | devices that answer anything, fallbacks, jump hosts | success means a file; nothing stays open |
| Storage and retention | SQL rows and files | `execute_backup`, the three removals | partial failure, shared paths, quota | a row of success has its sound file |
| Billing and clients | tenant, invoice and payment rows | registration, checkout, notifications, `enforce_access_policy`, super administrators | late, doubled and missing notifications; policy and payment read the client and write it later | who paid stays open, who did not is closed |
| Plan limits, tokens, connection mode, reports, web pages | SQL | - | - | see "Not modelled" |

Components meet in these places. The handler of a mass backup resets breakers and slot
limits, registers the batch and enqueues children. A child checks the stop flag and the
batch's cancel mark, checks the breaker of its jump host, takes a slot, runs its session,
then feeds the limit and the breaker with the outcome. A group task does the same for each of
its devices, inside one VPN session when the group needs one. The session is a device script
inside the executor, which checks the file, the quota and writes the row. Every participant
writes the realtime log and its task's document, and every write of a batch's document renews
the tenant's key, which requests and the scheduler look at before they start.

## Modules

| Module | Models | Checked by | Proved in |
|---|---|---|---|
| `BulkBatch` | one mass backup | `MCBulkBatch`, `bulk_*.cfg` | `BulkBatchProofs` |
| `JumpHostSlots` | the slot locks of one jump host | `MCJumpHostSlots`, `slots.cfg` | `JumpHostProofs` |
| `SlotLimit` | abstract: a limit between 1 and a ceiling | as a property of `AdaptiveSlots` | `JumpHostProofs` |
| `AdaptiveSlots` | how the limit follows outcomes | `MCAdaptiveSlots`, `adaptive.cfg` | `JumpHostProofs` |
| `CircuitBreaker` | the breaker of one jump host | `MCCircuitBreaker`, `breaker.cfg` | `JumpHostProofs` |
| `VpnSession` | sessions over one NetworkManager | `MCVpnSession`, `vpn.cfg` | `VpnProofs` |
| `ScriptCatalog` | what each device script does, as data | through `DeviceScript` | `ScriptProofs` |
| `DeviceScript` | one run of a script that reads a configuration | `MCDeviceScript`, `scripts.cfg` | `ScriptProofs` |
| `ScriptTransfer` | the four scripts that move files | `MCDeviceScript`, `scripts.cfg` | `ScriptProofs` |
| `ScriptRun` | any script of the two kinds, alone | `MCDeviceScript`, `scripts.cfg` | `ScriptProofs` |
| `BackupStore` | executor, rows, files and removals of one tenant | `MCBackupStore`, `store.cfg` | `StoreProofs` |
| `BackupLife` | abstract: what becomes of each run of a backup | as a property of `BackupStore` | `StoreProofs` |
| `TenantBilling` | one client, its invoices and payments | `MCTenantBilling`, `billing.cfg` | `BillingProofs` |
| `Dispatch` | tenant key, mass requests and scheduler | `MCDispatch`, `dispatch.cfg` | `DispatchProofs` |
| `TaskView` | one manual backup as a user sees it, and the log | `MCTaskView`, `logs.cfg` | `TaskViewProofs` |

Operators whose comment starts with "Faulty variant" are not part of the specifications: each
is a plausible mistake in the definition that follows it, used to show that a property would
notice.

### BulkBatch

`meta` is the batch's document, `stop` the global flag, `cel` what Celery says of each child.
Every other pair of variables is the program counter and the locals of a participant: handler
(`H...`), child (`W...`), callback (`C...`), status poll (`P...`), operator (`O...`).
`update_task_meta` is GET, merge, SETEX without a lock, so each use of it is a read action and
a write action, and all participants may run between the two. A child stands for one task: a
device, or a group of `Size[c]` devices. (`_should_retry_transient_failure` has no caller, and
`tasks/backup_tasks.py` is an older task module that nothing imports: a task is run once.)
Revocation, chords and result expiry are Celery's and are modelled from how the code relies
on them: a chord whose header has a revoked or killed task never calls its callback; workers
discard revoked ids; results are forgotten. `collided` and `everStopped` are history variables:
some properties promise something only while no two updates overlapped, or nobody stopped.

### JumpHostSlots, SlotLimit, AdaptiveSlots

A task resolves the limit once, then makes rounds over the slots up to that limit, one
`acquire(blocking=False)` per step, checking stop and patience at the top of each round. A
tick takes one from each TTL, each running task's hard limit and each waiter's patience; a
running task's hard limit blocks the clock until the task has ended or is killed. `Kill` leaves
the lock behind. With `RedisFails` a task may find no Redis (and runs without a slot), may be
unable to read the limit (and uses the configured one), or may lose the answer to an acquire.

How the limit moves is `SlotLimit`, whose step JumpHostSlots takes in `LimitChanges`.
AdaptiveSlots implements it (its names are prefixed, as those of CircuitBreaker are, so that one
module can prove about the three): each Redis command of `_adapt_jump_host_slots` is a step, an
error may come between any two, and `NewBatch` deletes exactly the keys the code's pattern
matches. Counters saturate at the largest threshold, which is all they are compared with.

### CircuitBreaker

`outcomes` is the list, as identifiers with a kind and an age (ages beyond the window are
one value). GET of the open key, LRANGE, the DEL/RPUSH transaction and SETEX are separate
steps; so are the two deletions of the reset. What a backup counts as is decided by its text, in
two stages, and both are modelled. A failure is a kind, and its `Message` the words of the
script's text that anybody searches for, before "Detalhe:" and after it. The executor puts it through
`sanitize_operational_message` (`FRIENDLY_ERROR_PATTERNS`): the first pattern found replaces the
detail by a Portuguese sentence, and what stood before stays. `MarkersOf` is what `classify_failure`
then finds, and `MarkerOrder` its order. The history variables `old` and `dirty` mark outcomes
from before the last reset, and that a check was under way during it.

### VpnSession

`profiles` and `up` are NetworkManager's VPN connections, `lock` the holder of the flock. Each
nmcli command is a step; `_cleanup_vpn_profiles` lists, removes the names one by one, lists
again. Listing, down and delete run with `check=False`: a list that fails has no names, a removal
that fails leaves the connection, and the session goes on; so does the wait for quiescence when its 20
seconds are over. The history variable `blind` marks that a session's connect went on so past a
foreign connection. An nmcli call that raises or hangs is `NmcliFails`.
The variable `dep` is the deployment, fixed at the start. `isolated` is the shipped one
(`scripts/start_vpn_worker_isolated.sh` allows one process per container); without it all tasks
share NetworkManager and sessions take the lock, and with `timeouts` a wait may reach
`VPN_GLOBAL_LOCK_TIMEOUT_SECONDS`.

### ScriptCatalog, DeviceScript, ScriptTransfer, ScriptRun

The scripts that log into a device and read its configuration differ in the commands they try,
the fallbacks they have, and which answers they accept. `ScriptCatalog` states that per script,
as a sequence of stages over SSH and over telnet; `DeviceScript` is the machine that runs any
of them inside the executor's jump-host patcher. What the device answers is free: an answer is
a kind (error, text, configuration, ...), how it ended, and one of a few lengths. `open` is what
the worker holds (jump client, shell, key file, session), `contact` from where the device was
reached. `ScriptTransfer` has the MikroTik downloader with its fallback to sshpass, the Zabbix
dump, the Grafana dashboards, and the VSOL export, where the device uploads to the web process
while the script polls. `ScriptRun` lets either machine work, the other at rest.

### BackupStore, BackupLife

Workers take a device through `execute_backup`: precheck, the script's file (or the guess of the
newest file of the directory when the script names none), hash, integrity check, quota, commit
and the second try of the commit. Cleaners are `purge_expired_backups`,
`purge_failed_backups_periodic` and `clear_failed_backups`: they pick rows, remove files one by
one and commit once. A worker or a cleaner may die at any step. A file is a kind, a size, lines,
and which of the expected marks it has; `Validated` is the integrity check on those.

`BackupLife` says of the same runs only what the table of backups promises: a run begins, ends
as a success, as a failure or without a row, and may be forgotten, a success only after its retention.
BackupStore implements it. `LifeOf` reads a run's state off its worker and its rows: it is running
while a worker has it (a second session that repeats the commit included), then it is what
its rows say, and it is gone when it has none. `SavedAt` is the day its rows were saved.

### TenantBilling

`tenant`, `invoice` and `payment` are the rows and what Mercado Pago knows. A notification, a
return page or the reconciliation fetches a payment (`handler`) and processes it later, in any
order and any number of times. Neither the payment nor the policy locks the row of the client. The
payment reads it in `Load` and writes it in `Commit`, the policy in `EnforceRead` and
`EnforceCommit`, and each writes the columns it changed and no other (`update`, `sweep`), so either
may fall between the two steps of the other. `lost` notes, of a payment under way, which
of its columns another transaction wrote after it had read them. Super administrators toggle, edit,
trash, restore and purge, each in one step: what a payment does to them is seen at its commit, what
they read and write in one request is not taken apart. Days are the unit of time.

### Dispatch

`key` is the tenant's key, `req` the requests, `doc` the documents of their batches, each written
by read and write (`snap`). Acquire looks, may delete a key whose batch is over, and sets;
release gets and deletes; every write of a batch's document renews or re-creates the key.
`WaysOf` says how a request goes about it. The scripts of the page reserve it
(`is_ajax and bulk_task_id`); audits, and a reprocessing without those scripts, write their
document and with it the key all the same; `run_backup_all` and `run_backup_selected` without
them queue their children and have neither document nor key ("silent"). stop-all ends a batch, but
a task of a VPN group that is at work is not terminated and goes on without it ("stopped").
The scheduler checks the key and the flag, loads the
due schedules, queues their devices and commits the next dates; its runs may overlap and die.
`Sizes` lists, per behaviour, how many requests (and of which kinds), scheduler processes, days,
crashes, edits and stops occur together, and whether the key is enabled.

### TaskView

The request registers the task's document after it has queued the task, and the worker reads and
writes the same document, so either may be first. The hard limit or stop-all may end the task
anywhere: stop-all revokes what a worker has and throws away what is in the queue. An entry of the log is numbered and pushed in
two commands; a push trims the list, rewrites prune or clear it, and a browser polls with a cursor.

## Runs

Each run states what could go wrong in its part. The shape of the state (the type
invariants of eight modules) is proved (see Proofs) and is no property of a run.

Passing runs:

- `bulk_stops`: a VPN group of two devices behind its callback; cancel, stop-all, a foreign stop
  flag and a poller in every order. A batch with the cancel mark is never a success.
- `bulk_live`: three phases, a poller, expired results and a worker that may die. Phases stay in
  order, a batch reported complete has ended unless updates collide, a batch nobody stops runs
  all its phases and completes.
- `slots`: TTL 2 and hard limit 3, so that sessions may outlive their locks (the group task has
  no time limit). Only such a session shares its slot, its late release takes nothing from the
  slot's new owner, waits end, and a lowered limit takes hold.
- `adaptive`: the limit refines `SlotLimit`, and it recovers when failures stop.
- `breaker`: two tasks, two outcomes, expiry, Redis errors, a reset. The breaker opens on failures of
  the path and on those that the sanitized text makes look like such, on no others and not on those
  of an earlier batch, and the host is tried again and again.
- `vpn`: three deployments. Where one task at a time uses NetworkManager a session has its own
  tunnel and no other, but for what it could not list or remove itself; everywhere the lock comes
  free again.
- `scripts`: each of the 54 scripts of the catalog, and the 4 that move files, against a device
  that may do anything. Nothing stays open, success means a file that holds an accepted answer, a
  good answer is not lost to a fallback, the jump host is not bypassed except where listed, a
  MikroTik file that was removed has its copy, no upload arrives after the token is gone, and
  every run ends.
- `store`: two workers and a cleaner, a crash anywhere. A row of success has its own sound file
  until retention lets it go, the quota is passed by at most one file per worker in flight, every
  run leaves a row, what becomes of a run refines `BackupLife` (it ends once, its outcome never
  changes, and it does not come back), expired rows go.
- `billing`: an invoice with two payment attempts, the policy, two steps of super administrators.
  Who paid stays open unless the payment raced a closing, a period is always that of a paid invoice, who is blocked is opened only
  by payment or by hand, who is overdue is closed.
- `dispatch`: requests, stops, the scheduler. Of the mass operations the key knows of one runs at a
  time, and the scheduler waits for it, unless the key was taken from it; no schedule skips a day; who is due is served.
- `logs`: one manual backup, another tenant's process, a browser, rewrites of the log.
  A task that closed its document, ran to its end or was killed is shown as ended, a browser sees each entry once and skips none, and clearing
  one tenant's log keeps the others' entries.

One run shows a disagreement between the code and what it says of itself (quotation in
`PROJECT.json`, "findings"):

- `bulk_cancel_phases`: a phased batch that is cancelled early never closes.

### Where the properties make exceptions

The models show more of the code than the runs record. Each of these explains an exception in
a property or a value left out of a configuration:

- `CompletedMeansEnded` and `BatchEnds` except colliding updates: a heartbeat or poll that read
  the document earlier writes it back and takes `done_tasks` back, although
  `web/tenant/backups.py:279` wants the counters monotone. The same lost update writes
  `cancel_requested` False over a cancel (`services/realtime_backup_logs.py:179`), so children
  that look after the three-minute flag is gone are not stopped.
- `ResetClean` excepts checks in flight: a check that did its LRANGE before the reset opens the
  breaker of the new batch from it. Pruning likewise deletes a fresh outcome that was appended
  after its LRANGE (`tasks/backups.py:730`).
- `TriedAgain` asks for an attempt now and then, not for one between two openings: when the open
  key expires, the outcomes are still in the window and the first check opens again.
- `OpensOnTransport` counts four kinds of failure (`ReadAsTransport`) with those of the path, against
  the comment at `tasks/backups.py:1288`, by which login and script failures must not affect the
  bastion. The executor sanitizes the message before it is classified (`backup_executor.py:907`): a
  banner error behind "Detalhe:" and refused algorithms become sentences that say "SSH", and
  `classify_failure` reads "ssh" and "telnet" as `connection` before it looks for "auth" or a
  script; so a login failure that names Telnet and a script failure that names SSH
  (`switch_huawei_netmiko.py:276`) count too. A banner error in the open is `banner_timeout` and
  counts as a success, whereas a time-out that stood behind "Detalhe:" has lost its word and
  counts as nothing. `breaker.cfg` has each of these but "cipher", which counts like
  `hiddenBanner`; the theorem has them all.
- `Recovers` speaks of successes, not of the reset: `jump_host_adaptive:*` does not match the hash
  `jump_host_adaptive_slots`, so a new batch keeps the reduced limits, against the docstring at
  `tasks/backups.py:229`. During a cool-down the limit can still move, by a task that passed the
  check earlier.
- `OwnTunnelOnly` speaks of `Exclusive` deployments. `acquire_lock` is called inside the `try` whose
  `finally` disconnects (`services/vpn_service.py:329`): without isolation, a session that gave up
  waiting tears down the tunnel of the session that has the lock, against the docstring at
  `tasks/backups.py:1785`. Group tests, which take no lock, do the same without any time-out.
  In an exclusive deployment it excepts a session that is `blind`: its own list of all connections
  failed, or its own down and delete of one it found (`services/vpn_service.py:122`, `:133`). That
  the failure was another session's, or that a task was killed, is no excuse.
- `OneSessionPerSlot` excepts sessions that have run for the TTL of their lock. With the shipped
  times a task is killed before that; a group task, which has no time limit, is not.
- `AllClosed` excepts the jump client of `create_ssh_client` when the device behind the jump
  host cannot be reached: nothing closes it.
- `RemovedIsCopied` excepts a file whose own download failed and two paths with one file name:
  `delete_after_download` removes both, and one local copy is left.
- The Zabbix dump never succeeds in the model: `dump_status=${PIPESTATUS[0]:-1}` is itself a
  command, so `PIPESTATUS[1]` is unset in the next and `gzip_status` takes its default, 1, while
  `tests/test_zabbix_backup_autodiscovery.py:40` has a good dump report `gzip=0`.
- `GoodAnswerKept` excepts eight scripts that prefer the longest answer: a refused one at least
  as long as a good one wins. `JumpHostRespected` lists the scripts that contact the device from
  the worker although it has a jump host.
- `GoodBackupKept` excepts paths that two runs used: devices whose sanitized names are equal, two
  runs in one second, or a script that names no file. `RunRecorded` excepts a script that returns
  a directory, which raises when it is opened to be hashed.
- `QuotaOvershoot` is a bound, not the quota: the quota is compared with committed rows only.
- `PaidStaysOpen` excepts a payment that raced a closing, in either order. If the payment commits
  between the policy's read and its commit, the policy closes the paid client. If the policy (or a
  hand) closes the client between the payment's read (`billing/controller.py:493`) and its
  commit (`:526`), the payment writes the period but not `is_active`, which it had found true, and
  the client stays closed. Either way it has paid and is blocked until the next notification or hand.
- `BlockedStaysShut` lets a payment open a client and leave `billing_blocked_at`, if the policy set
  the mark after the payment had read the client; the next policy takes it.
- `OneBatch` and `SchedulerWaits` except a key that was taken from its batch: it expired, an audit
  or another operation that reserves nothing wrote its own, a check and its delete had another
  command between them, or the batch was not described yet. With the key disabled, which is the
  default, both say nothing: the code has no other protection. Even with it they speak of what the
  key knows of (`Announced`): a mass backup requested without the scripts of the page
  (`web/tenant/devices.py:1847`, `:2660`) has neither document nor key and runs beside any other, an
  audit or a reprocessing without them is unknown until its document says `is_bulk`, and a VPN group
  task that was at work when its batch was stopped (`web/tenant/schedules.py:404`) goes on after
  the key was released.
- `PassesBounded` is what the scheduler gives: overlapping runs, runs that died before their
  commit, and users who move a schedule back to a time of the same day, queue a day again.
- `SentOnce` excepts entries numbered first and pushed later, entries a rewrite brought
  back, and a poll that has more than its limit to send: the cursor passes them for ever.
- `EndIsShown` says of a document that the worker closed after the registration that it is shown as
  ended whatever follows. The request may also register it, as not completed, after the worker has
  closed it: then only Celery's result tells, as long as it is kept, and only SUCCESS and FAILURE
  do. A task that stop-all revoked or threw out of the queue (`web/tenant/schedules.py:404`, `:426`) before
  it closed its document has REVOKED or PENDING, which `task_status` (`web/tenant/backups.py:668`) takes
  for no end: the page shows it as under way until the document expires.

### Bounds

One child per phase is enough for the races of the document, because each child already makes
two updates and the poller, handler, callbacks and operator make more; order between phases
does not depend on the number of children (and is proved for any number). Two tasks are enough
for slots, limit, breaker and VPN: every property speaks of at most two tasks at a time. Of
`Patience`, `SlotTTL` and `HardLimit` only the order of the last two matters; the run takes the
order in which sessions outlive locks, and the other order is a theorem. Two outcomes with a
minimum of two samples and 70 % reach mixed windows, the threshold and pruning; a window of one tick
and a key of one let entries age out before and after an opening. Three groups, a kill and ignored
failures leave two foreign tunnels behind in the two exclusive deployments; the third, of which
only `LockComesFree` speaks, has two groups. `MaxKills`, `MaxCrashes`, `MaxTrouble`, `MaxResets`,
`MaxHands` and `MaxClears` bound how often things go wrong, not when.

In `scripts` every script runs, alone; `ShellRetries` 2 instead of 7 and one virtual system
instead of any number repeat a loop at least once, and three files give two of one name. In `store` one
directory stands for devices of one name; the contents are one below and one above the quota of
1000, one without its marks and one directory; two runs, two days and a retention of one let a
file expire while another run writes. In `billing` a trial, a period and a grace of one day each
fit in four days; `Forms` is one post of the edit page (opened, to be paid for): the toggle opens and
closes as well, and clients freed of payment are among the initial ones. In `dispatch`
`Sizes` takes the combinations two mass backups and a scheduler; one request of either kind with a
death and a stop over two days, the key enabled or not; two schedulers with an edit and a death; two
requests of either kind with a death; two mass backups with a stop. One device is of an excluded type. In `logs` the list keeps `Cap` 3 of 5 entries and a poll
sends `Limit` 2, so trimming, a full poll and two rewrites all happen.

`CHECK_DEADLOCK FALSE` is used where the system may come to rest: a finished batch, script or
task, and days, runs and entries at their bound.

### Fairness

- BulkBatch: the request is served to its end, workers and broker deliver, an open page polls,
  an operator action once begun is finished. No fairness for starting an operator action, for
  kills, expiry or flags.
- JumpHostSlots: time passes, waiters go on, and Celery's hard limit kills sessions. Sessions are
  not assumed to end by themselves, and waits not to be ended by the hard limit.
- AdaptiveSlots: backups keep ending and time passes; failures are finite (`MaxTrouble`).
- CircuitBreaker: tasks keep coming, time passes, a reset once begun is finished.
- DeviceScript, ScriptTransfer: a script that can go on does; every wait has a deadline, so an
  answer that never comes is a step of its own.
- BackupStore: a removal once begun runs on, and the purge of expired backups, which beat queues
  every day, is started if it stays possible (weak fairness). Nothing is assumed of the backups.
- TenantBilling: beat starts the policy every hour, and once it has read it commits. Nothing makes
  anybody pay or notify, or a payment that was fetched be processed.
- Dispatch: requests and tasks that were taken run on, beat keeps starting the scheduler, keys
  expire, batches end and the page that shows one closes its document. The last is what
  `bulk_cancel_phases` shows may fail; `KeyExpires` then frees the tenant once nobody polls.
- VpnSession: a task once started goes on; nothing makes a task start or nmcli succeed.

## Proofs

Every theorem holds for all values of the constants the module's assumptions allow: any number
of devices, tasks, processes, retries, days and any limits and times. Each invariant below was
first checked by TLC on the instance of the module's run. A step of a proof is one action of the
model, and what many actions share (a task moves on and touches nothing else, a commit adds a
row) is a lemma with that as its hypothesis.

### One mass backup: `BulkBatchProofs`

- `TypeCorrect`: `TypeOK`. `PhasesInOrder`: `PhaseOrder`. The order is not inductive: what
  protects a phase is which callbacks are armed or running. `PhaseInv` adds, for each callback
  beyond "armed", that its header and all earlier phases have returned, and that a child of a
  later phase exists only behind its callback; results that were returned never change.
- `CancelShown`: `CancelledNeverSuccess`. The mark is written and taken back by stale copies, so
  `EveryCopyMarked` makes the claim of every copy of the document that somebody holds. It does not
  say that the mark stays; it may be lost.
- `CompleteIsEnded`: `CompletedMeansEnded`. `HonestAt` says of every copy that its counters are at
  most what Celery's results allow, and that a bulk document counts all children, so that done
  equal to total means ended. The callbacks are none of the children or the pollers
  (`ParticipantsAssumption`), so that two updates under way are told apart. An update that overlaps another leaves the argument, which is why the property
  excepts collisions.

### One jump host: `JumpHostProofs`

- `SlotTypes`; `SlotsExclusive`: `OneSessionPerSlot`. The strengthening `LockOrLate` says that a
  session owns its slot's live lock, which has run no longer than the session, or has itself run
  for the TTL; so a free or expired lock belongs to late sessions only. `SlotsNeverShared` follows:
  if `SlotTTL > HardLimit` (1200 s and 540 s as shipped) no slot is ever shared.
- `LockIsOwn`: `LiveLockKept`, an action property: the lock of a session that still owns it is not
  freed, shortened or taken by another task, late or not; only time takes it.
- `SessionsWithinLimit`: what the slots are for. For every `n`, of the tasks that were told a limit of at
  most `n` no more than `n` are in a session at once, late ones aside: `AtMostMax` keeps a task's slot within
  the limit it was told, so that by `OneSessionPerSlot` its slot is an injection into `1..n`. A task told a
  larger limit before it was lowered is not counted, as the code does not call it back.
- `AdaptTypes`; `LimitRefinement`: AdaptiveSlots implements `SlotLimit`, for any thresholds allowed by
  `SlotsAssumption`. The invariant adds that a task about to write has a limit of at least 1.
- `BreakerTypes`; `ResetForgets`: `ResetClean`. A task holds entries only between its reading and its
  verdict, and unless a check was under way at the reset neither the list nor what any task holds
  has an entry of before it; pruning writes back only what a task holds.
- `BastionOnly`: `OpensOnTransport`, for all kinds of failure. What is recorded against the bastion
  is a failure of the path or one that the sanitized text makes read as such, by the two
  tables of patterns and their orders, and the share of failures in the list
  that trips is that of these kinds in it, whatever was pruned or expired in between.

### VPN, billing, dispatch, logs

- `VpnProofs`: `VpnTypes`; `OwnTunnel`: `OwnTunnelOnly`, which speaks of every `Exclusive` deployment
  (an isolated worker; or the lock, if all users take it and no wait times out). `TunnelInv` says
  that one task at a time is past the lock, and what it knows of NetworkManager at each step:
  after the second listing every foreign profile is on its list, then none is left, then none at all;
  or else the task is `blind`. What earlier tasks left or overlooked needs no history, since that
  listing is of all connections and not of the active ones.
  `LockNotLeft`: in every deployment the holder of the lock is inside its session. `SessionsAdvance`: every
  step of a started task takes it forward in the order of (step, listing, names left to remove), which
  is the safety half of `LockComesFree`: fairness adds only that it goes on.
- `BillingProofs`: `BillingTypes`; `PaidPeriods`: `PeriodWasPaid`, from what a handler fetched as approved
  being approved, and an invoice somebody tried to pay staying checked out while the client exists.
  `PaidClientsOpen`: `PaidStaysOpen`; `SweepSound` adds that what the policy has decided and not
  committed only closes, and only a client whose period has ended, unless a payment came between.
  `UpdateInv` does so for a payment that has read the client: what it will write is what its answer
  changes in the row as it was read, so that a column it does not write is right as it stands, or
  somebody wrote it since and is noted in `lost`.
  `BlockedShut`: `BlockedStaysShut`, action by action from the same invariants.
- `DispatchProofs`: `DispatchTypes`, in two halves. `OneBatchAdmitted` and `SchedulerAside`: `OneBatch`
  and `SchedulerWaits`, both from `KeyOfRunning` (an operation that the key knows of has the key, until
  it is taken) with what a request has seen before it deletes a key, and that no unfinished batch gives
  up its own. `NoDaySkipped`: `NoDayMissed`; `RunInv` says that what a run that has queued left out
  was off meanwhile. A device counts as off from the moment it or its group is switched off until
  the next commit (`OffAfter`). `PassesCounted`: `PassesBounded`; each run that may still queue today is
  paid for by a process, an edit or a death (`PassesPaid`), which is an argument about
  cardinalities of sets of processes.
- `TaskViewProofs`: `EndShown`: `EndIsShown`; no write takes the document away once the request has
  written it, and none opens it again once the worker has closed it after that. `EachSentOnce`: `SentOnce`;
  numbers are not used twice, an entry on its way has one of its own, and while `disorder` is false
  the list and what a rewrite keeps are sorted, so a cut of the list from the cursor on is
  complete. `ForeignStays`: `ForeignKept`. Lists are cut by positions (`At`), so that what a cut
  keeps can be stated without induction.

### The store: `StoreProofs`

- `StoreTypes`: `TypeOK`. `BackupsKept`: `GoodBackupKept`. `RowForEveryRun`: `RunRecorded`.
- `StoreInv` follows a file from the run that writes it to the row that names it. `UsesCounted`: whoever
  wrote or names a path is in its history, so a path of one run is written and named by that run
  alone. `RunsNumbered`, `RowsOfJob`, `TwoCopies`: a worker's run has rows only while it commits for the
  second time, and they repeat it. `PickedDue`: a cleaner has picked nothing but failed and expired
  rows, and `RowsSound`, `JobSound`: a file of one run is there and sound from its check on.
  So what a cleaner removes is not the file of a row that is within its retention.
- `QuotaHolds`: `QuotaOvershoot`. `Charged` counts the rows of success together with the workers that have
  passed the quota and not committed; a worker's check bounds all but the other workers' files, so the
  sum stays within the limit plus one largest file for each other worker. The few facts of sums over
  finite sets it needs are proved by a least counterexample among finite subsets, so that no
  induction theorem with an operator as its parameter is used.
- `LifeRefinement`: `LifeKept`, every step of BackupStore is one of `BackupLife` or a stutter. Most
  steps are `LifeQuiet`: rows and ends as before. A run ends when its worker
  leaves it, and by `RowsOfJob` what rows it has then are of that very moment, whichever of the two
  commits of a session left them; a cleaner's commit takes away what
  `PickedDue` says is failed or expired; runs are numbered afresh, so that none comes back.

### The device scripts: `ScriptProofs`

The theorems are about `ScriptRun`: any set of scripts of the catalog, any retries, files and names.

- `NothingStaysOpen`: `AllClosed`, by what may be open at each place of a script (`OpenByPlace`) and
  who holds what in a transfer (`HeldOfJob`).
- `FileOfSuccess`: `SuccessHasFile`, from `SavedAccepted`; it does not look into the catalog, so it
  stays true of any script written in its form.
- `JumpHostIsUsed`: `JumpHostRespected`, and `AnswerNotForgotten`: `GoodAnswerKept`. Both rest on
  `CatalogFits`, which goes through the 54 scripts: who ignores the jump host, who opens a second
  session, and that in a rule that holds the longest answer one that ends the search is held and
  what is held though it is refused is little, but in the eight scripts that are listed. `SearchInv`
  then follows an accepted answer: it, or one as long, is held by the session or kept from an earlier
  one until the stage is left; and a further session is opened only while the kept answer is
  refused.
- `RemovedHasCopy`: `RemovedIsCopied`. `Downloaded`: a file that was fetched or is gone is covered,
  and the listing leaves none out before files are removed; the fallback to sshpass forgets what
  was fetched, not what is covered.
- `RunsAdvance`: every step of a script goes forward in the order of (stage, session, place, tries left),
  with the bounds of the stage as bounds of the counters (`Counted`). That each stage of each
  script sends something and makes finitely many test connections is a part of `CatalogFits`
  (`Counts`). A step of a transfer falls back to sshpass once, comes to a later step, or has a
  file less to do.
- `ExpiryIsFinal`: `NoFileAfterExpiry`. The situation lasts: a request that writes has left a
  file by then, and nobody hands out a token after the script has returned.

### Only model-checked

- All liveness (`AllPhasesRun`, `BatchEnds`, `WaitEnds`, `LimitTakesHold`, `Recovers`, `TriedAgain`,
  `LockComesFree`, `OverdueCloses`, `DueIsServed`, `RunEnds`, `ExpiredGo`): fairness and ENABLED are out of
  the prover's reach.
  Of `LockComesFree` and `RunEnds` the safety half is proved (`SessionsAdvance`, `RunsAdvance`): no
  step leads back, so that fairness has only to keep the process going.

## Not modelled

- Connection mode and schedule arithmetic: pure functions of one row, without a protocol; a day
  is the unit of time in Dispatch.
- Authentication, two-factor login and API tokens: sessions of the web framework and single rows.
- Plan limits on devices, users and downloads: one count and one comparison in one request (the
  storage quota is in BackupStore).
- Connection probes and the rows of audits (I/O with many vendors); an audit's batch is in Dispatch.
- Diffs, reports, page rendering and e-mail: formatting. Maintenance scripts: one-off migrations
  and repairs, among them the only caller of `prune_global_logs`.
- Amounts, plans and the Subscription rows of billing, which nothing reads back.

## Plan

Next, in this order:

1. Theorems: promises that rest on several modules, for instance that a backup of a
   device is under way at most once per tenant batch, from the theorems there are; the remaining
   assumptions of the runs that the code justifies for other values.
2. Composition: a child with breaker, slot and adaptation in one module, refining the three.
3. Pure decisions (`connection_mode`, `schedule_utils`) against reference definitions; the life
   cycle of API tokens.
