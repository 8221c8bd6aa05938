# Oxydactylus: a TLA+ verification of the panel and its nodes

Oxydactylus is a game-server panel in Rust. `crates/panel` is an HTTP API over an SQL
database, with a background scheduler; `crates/node` is a gRPC daemon that drives Docker on
each machine; `crates/frontend` is a browser client and `crates/cli` the entry point.

The panel writes in its tables what should be true and asks the nodes, and MySQL hosts, to
make it true. **No handler holds a lock or a transaction across an `await`.** Every
statement commits by itself, every call to a node is a separate step, and any two handlers
interleave between any two of them; a handler may also stop between two of its steps,
because a statement fails, a call is refused or its answer lost, the client goes away or
the panel restarts. That is what these modules model, and what the unit tests of the
repository, one request after another against an in-memory database, do not reach.

Paths below are relative to `src/crates/`.

## 1. Inventory

| Component | State it keeps | Operations | What makes it hard | What makes it correct |
|---|---|---|---|---|
| Server lifecycle: `panel/src/servers.rs`, `settings.rs` | `servers.status`; on the node, a container under the server's id | create, start, stop, restart, delete, provision, reinstall, suspend, unsuspend | call and status write are separate steps of concurrent handlers; calls refused, lost, obeyed late; ignored outcomes | the status says what the container does; a deleted row stays deleted; every handler ends; an installation ends |
| Allocations: `panel/src/allocations.rs`, `servers.rs` | `allocations.server_id` (no foreign key), `servers.allocation_id`, `allocation_limit` | create and delete an allocation; create and delete a server; assign, remove, make primary | test and write are separate statements; nothing ties the two columns together | an allocation has one owner, of its own node; the primary is owned; the limit |
| Scheduler: `panel/src/scheduler.rs`, `schedules.rs` | `schedules.is_processing`, `next_run_at`; `schedule_tasks` with their order; one loop's local state | tick, run, skip; create and delete schedules and tasks | one loop for all servers; rows written under it; a run cut off half-way; sleeps of minutes | due schedules run, once per occurrence, tasks in order; no flag is left behind |
| Node daemon, containers: `node/src/server.rs`, `docker.rs`, `error.rs` | the Docker daemon's containers | create, start, stop, remove, command, stats, logs | errors of Docker for a container in the wrong state | what the answers mean for the status |
| Node client: `panel/src/node_client.rs` | none | connect, unary calls, streams | an answer may be lost after the node obeyed | each outcome reaches the handler |
| Server databases: `panel/src/server_databases.rs`, `database_hosts.rs` | `server_databases`, `database_hosts`; databases and users of a MySQL host | create, delete, rotate password; create and delete a host | a saga of up to six statements on two systems, without compensation | the row and the host agree; nothing is left on the host; one server's database is not another's |
| Backups: `panel/src/backups.rs`, `backup/` | `backups.is_locked`, `is_successful` | create (a spawned task completes it), delete, toggle lock, list | tests on rows read earlier | a locked backup is not deleted; a backup called successful exists |
| Node daemon, files: `node/src/files.rs`, `backups.rs`, `stream.rs`, `panel/src/files.rs` | files of a container; one bounded channel per log stream | list, read, write, chunked upload and download, archive; forward logs | partial uploads, appended chunks, a reader that goes away | a completed upload is the file sent; a stream ends |
| Authentication: `panel/src/auth.rs`, `users.rs` | `users`; stateless access and refresh tokens | login, refresh, check, sftp verification; create and delete users | tokens outlive the row they speak of | what a token still allows after its user changed |
| Access control: `panel/src/subusers.rs`, `permissions.rs`, `servers.rs:143` | `server_subusers.permissions` | add, change, remove a subuser; the check of every handler | permissions read before the awaits of the handler they admit | who may do what, and until when |
| Eggs and startup: `panel/src/eggs.rs`, `egg_vars.rs`, `startup.rs` | `eggs`, `egg_variables`, `servers.env` | egg and variable CRUD, import, export; resolve, validate and update variables | read-modify-write of one JSON column; multi-row import | no update lost; every stored value valid; an export holds what was there throughout |
| Nodes registry: `panel/src/nodes.rs` | `nodes` | create, list, delete | foreign keys and cascades | no row refers to a node that is gone |
| Activity log: `panel/src/activity.rs` | `activity_logs` | append (spawned), two paginated queries | 32-bit arithmetic, entries written late | pages partition the log |
| Database layer: `panel/src/db.rs`, `migrations/` | the schema | pool, migrations, placeholder rewriting | the same SQL on three engines | statements are atomic; constraints hold |
| SFTP: `node/src/sftp.rs` | none: a stub that accepts and answers nothing | | | |
| Frontend: `frontend/src` | the session in a tab and in the browser's storage; the lists each page shows | mount, navigate, log in and out; load and reload lists | answers in any order; a page keeps the token it was mounted with, and its layout looks at the session once; several tabs | a list at rest is the table; an administrator's page has an administrator's token or none |
| Configuration, command line: `core`, `cli` | a file read once | | | |

How they interact: HTTP handlers read and write the tables and call a node through the node
client, which connects anew for every call. The scheduler reads the same tables and makes
the same calls, and writes no status. Rows refer to each other by foreign keys, some `ON
DELETE CASCADE`, and one reference (`allocations.server_id`) has none. Nothing notifies
anybody: a handler that wants to know reads a row, and what it read may be old when used.

## 2. Plan

In this order, the most important behaviour first. "Done" means modelled, checked and, where
it says so, proved.

1. **Server lifecycle** (done, proved): `ServerLifecycle`, with the abstract specifications
   `ServerRowLife` and `AtomicServer` it implements; `ServerProperties`, `MCServer`,
   `ServerProofs`.
2. **Allocations** (done, proved): `Allocations`, `AllocationProperties`, `MCAllocations`,
   `AllocationProofs`.
3. **Scheduler** (done, safety proved): `Scheduler`, `SchedulerProperties`, `MCScheduler`,
   `SchedulerProofs`.
4. **Server databases** (done, proved): `ServerDatabases`, `DatabaseProperties`, `MCDatabases`,
   `DatabaseProofs`.
5. **Access control and backups** (done, proved): `Access`, `AccessProperties`, `MCAccess`,
   `AccessProofs`.
6. **Authentication, nodes registry** (done, proved): `Sessions`, `SessionProperties`,
   `MCSessions`, `ConsoleProofs`.
7. **Eggs and startup** (done, proved): `EggVars` and `Eggs`, which `Startup` extends;
   `StartupProperties`, `MCStartup`, `StartupProofs`.
8. **Files and logs of a node** (done, proved): `NodeFiles`, which `NodeLogs` extends;
   `NodeFileProperties`, `NodeLogProperties`, `MCNode`, `NodeProofs`.
9. **Frontend and activity log** (done, proved): `Pages`, `PageProperties`, `MCPages`,
   `ConsoleProofs`.
10. Left: what section 7 lists. Every safety property that a passing run checks is a theorem.

Theorems wanted for each: its type invariant, its inductive invariant, and the safety
properties that follow. Modules with theorems stay free of `RECURSIVE`.

## 3. Modules and the code

Every state variable is a column, a local variable that lives across an `await`, or a thing
outside the panel; the rest is marked *history* and read by no guard. In all modules a
request slot holds the identifiers a handler was given and a program counter, the statement
or call it is about to make. Operators named after another with a word added
(`StopCallIgnored`, `TickAll`, ...) are what a plausible slip would make of it; nothing uses
them, they show that a property notices the slip.

### 3.1 `ServerLifecycle`

| TLA+ | Code |
|---|---|
| `row[s]` | `servers.status`; `"unborn"`, `"deleted"`: no row |
| `container[s]` | the container of that name in Docker |
| `req[r]` | a handler in flight |
| `disturbed` | *history*: servers whose requests overlapped, that met a hazard, were suspended or got a scheduled power task |
| `CreateInsert` ... `CreateFinish` | `create_server`, `servers.rs:233-341` |
| `Begin`, `StartCall`, `StartOk`, `StartErr`, `StopCall`, `StopOk`, `RestartStop` | `start_server`, `stop_server`, `restart_server`, `:375-448` |
| `DeleteStop`, `DeleteUnreachable`, `DeleteRemove`, `DeleteFinish` | `delete_server`, `:355-373` |
| `Provision`, `ReinstallGivesUp` | `provision_server`, `:450-470`; the task of `reinstall_server`, `settings.rs:58-88` |
| `Suspend`, `Unsuspend` | `settings.rs:142-178` |
| `SchedPower` | the power tasks of `scheduler.rs:214-267` |
| `Obeyed`, `Refused`, `Call` | what Docker does in a given state (`docker.rs:54-130`) and the outcomes obeyed, refused, lost of a call (`node_client.rs:33-103`) |

`SetStatus` on a row that is gone changes nothing, as an `UPDATE` that matches no row. A
dropped future (`Abandon`) may leave a call on its way (`LateEffect`).

Abstract specifications. `ServerRowLife`: a row is inserted once, never becomes `installing`
again, and once deleted is never written. `AtomicServer`: every operation changes status and
container in one step, the transition table of
`docs/superpowers/specs/2026-06-25-server-status-tracking-design.md` with the container beside
it. The refinement mapping, `Decided`, gives a server in the middle of a handler the status
the call already made has decided.

### 3.2 `Allocations`

| TLA+ | Code |
|---|---|
| `server`, `alloc` | is the row there |
| `owner`, `primary` | `allocations.server_id`, `servers.allocation_id` |
| `disturbed` | *history*: servers whose requests overlapped another on the same server or allocation |
| `CreateInsert`, `CreateLink`, `CreateSetPrimary`, `CreateProvision`, `CreateUndo` | `create_server` |
| `AssignCount`, `AssignCheck`, `AssignWrite` | `assign_allocation`, `servers.rs:579-623` |
| `MayRemove`, `Remove` | `remove_allocation`, `:625-650` |
| `PrimaryVerify`, `PrimaryWrite` | `make_allocation_primary`, `:652-681` |
| `InsertAlloc`, `DeleteAllocCheck`, `DeleteAlloc` | `allocations.rs:78-181` |
| `Stops` | a failed statement, a failed call, a dropped future: the handler ends where it is |

`Limit` is the same for all servers: `allocation_limit` has a default of 1 in the migration
and no handler writes it. The proofs are for every positive limit.

### 3.3 `Scheduler`

| TLA+ | Code |
|---|---|
| `sched`, `processing`, `next` | a row of `schedules`, its `is_processing`, whether `next_run_at` is past |
| `task` | `schedule_tasks`: schedule and `sequence_id` |
| `pc`, `batch`, `current`, `todo`, `failed` | the locals of `tick` and `run_schedule` |
| `creator` | `create_schedule_task` between its `MAX` and its `INSERT` |
| `status` | `servers.status`, as far as the scheduler looks: running, not running, no row |
| `stuck`, `crowded` | *history*: schedules whose run was cut off before its last `UPDATE`; schedules with overlapping requests to add a task |
| `Tick`, `EndTick` | `tick`, `scheduler.rs:30-79` |
| `Mark`, `Fetch`, `Clear`, `Load`, `Sleep`, `Run`, `Finish` | `run_schedule`, `run_task`, `clear_processing`, `:81-284`, one action per statement, sleep or call |
| `MarkFails`, `FetchFails`, `RunFails`, `Crash` | a failed statement at each place, and a restart of the panel (`lib.rs:81-114`) |
| `CreateSchedule`, `DeleteSchedule`, `TaskCount`, `TaskInsert`, `DeleteTask` | `schedules.rs:195-379` |

`Orders` gives the tasks by `sequence_id`, those with the same number in any order. `Endless`
are the tasks whose negative `time_offset`, cast to `u64`, never ends. The module is not
composed with `ServerLifecycle`: all the two share is `status`, which here changes at any time
to any value, more than `ServerLifecycle` allows; what a power task does to a container is
modelled there.

### 3.4 `ServerDatabases`

| TLA+ | Code |
|---|---|
| `server`, `host` | is there a row of that id in `servers`, `database_hosts` |
| `db` | `server_databases` |
| `schemas`, `password`, `grants` | the MySQL servers: databases, accounts with their password, privileges (external) |
| `req` | a handler with what it has read and what it was given |
| `disturbed` | *history*: accounts on which two handlers worked at once, one stopped between the account and the row, or a creation met an account that was there |
| `CreateBegin`, `CreateDb`, `CreateUser`, `GrantAll`, `Insert` | `create_server_database`, `server_databases.rs:171-295` |
| `DeleteBegin`, `DropUser`, `DropDb`, `DeleteRow` | `delete_server_database`, `:297-387` |
| `RotateBegin`, `Alter`, `Store` | `rotate_database_password`, `:389-486` |
| `CreateHost`, `DeleteHost` | `database_hosts.rs:88-178` |
| `ServerDeleted` | the cascade of `DELETE FROM servers` |
| `Stops` | a failed statement, a lost connection, a dropped future: the handler ends where it is |

An account is a `'username'@'remote'` of one MySQL server; two rows may name one account, and two
`database_hosts` one MySQL server (`MysqlOf`). `Accepted` is the `UNIQUE (host_id, database_name)`
of the migration with the two foreign keys. The reads at the start of a handler and its connection
are one step with `Begin`: nothing they read of a row is ever changed but the row's presence and
password, and no later statement depends on either.

### 3.5 `Access`

| TLA+ | Code |
|---|---|
| `users`, `servers`, `sub`, `backup`, `locked`, `done` | the rows of those tables, `backups.is_locked`, `is_successful` |
| `working` | the tasks `create_backup` has spawned |
| `req` | a handler: its caller, what it was asked, and the statement it is about to make |
| `had`, `free` | *history*: requests whose right was held, and whose backup was unlocked, at some moment since they began |
| `odd`, `crowded` | *history*: what the answered toggles add up to; backups of which two toggles overlapped |
| `Need` | the permission each handler asks for, as the calls of the two checks name it |
| `Begin`, `Fetch`, `ReadPermissions` | `check_server_access`, `servers.rs:143`, and `check_access` of `subusers.rs`, one action per statement |
| `create_subuser`, `update_subuser`, `delete_subuser` | `subusers.rs` |
| `create_backup`, `provision_backup_async`, `FindUnlocked`, `Erase`, `ReadLock`, `WriteLock` | `backups.rs` |
| `Elsewhere` | the statements of the other handlers, which the other modules model |
| `delete_server`, `delete_user` | the `DELETE`s and their cascades |

Administrators are those whose token says so (`Sessions` says for how long). `get_startup` and
`update_startup` name no permission, so any row that grants something will do (`"any"`), as for
`get_server_stats`.

### 3.6 `Sessions`

| TLA+ | Code |
|---|---|
| `users`, `nodes`, `servers` | each user's row with its role; rows of `nodes`; owner and node of each server |
| `pending`, `creating` | `login` and `sftp_verify`, and `create_user`, between their first statement and the end of the hashing |
| `tokens` | tokens issued; a token is a record of the claims, and, as *history*, of the login it stems from |
| `store`, `tab` | the browser's storage; the session of each tab, its page, the token that page took (`tok`), the token of the part of it opened last (`sub`), and whether its layout sends it to the login page (`turned`) |
| `wasRole`, `goneAt` | *history* |
| `LoginRead`, `LoginIssue`, `Refresh`, `decode_token`, `AuthUser`, `AdminUser` | `auth.rs` |
| `create_user`, `InsertUser`, `delete_user`, `create_node`, `delete_node` | `users.rs`, `nodes.rs` |
| `SftpRead`, `SftpVerify` | `sftp_verify`, `auth.rs` |
| `Layout`, `MayMount`, `Mounted` | the routes of `frontend/src/lib.rs:29-48`; the `if` of `AdminLayout` and `ClientLayout`; `session.token()`, `state.rs:38` |
| `Load`, `Navigate`, `OpenTab`, `Redirect`, `Shown`, `Logout`, `Close` | `state.rs`, the links of the layouts, the tabs of `server_detail.rs:126-138`, the login page |

A layout looks at the session as it is mounted, and not when a link replaces one of its pages by
another or a tab of a server's page is opened: `Mounted` asks `MayMount` only when the layout
changes. Nor does the layout's `if` keep the page from being mounted: it calls
`navigate("/login")` and goes on to its `<Outlet/>`, so a page that is `turned` is there, with
whatever token the session has, until `Redirect`. A page mounted after a logout sends an empty
token, which here is `None`. The two pages under each layout stand for all of them.

Hashing and signing are external: a password is right or wrong whatever it costs to know, and a
token is good if and only if it was issued and has not expired.

### 3.7 `EggVars`, `Eggs`, `Startup`

`EggVars` has the pure part of `egg_vars.rs`: `Turn` is one turn of the loop of `parse_rules`,
`parse_rules` all of them, over texts of which only `|`, `/` and `regex:/` are told apart; and the
check of a value against a list of rules, over values of which only what the rules ask is known
(`Facts`). `Eggs` has the tables and handlers of
`eggs.rs`; `ImportVar` and its neighbours are the `INSERT`s of `import_egg`, one action each, and
`ExportEgg`, `ExportVars`, `ExportInstall`, `ExportFiles` the `SELECT`s of an export. `Startup`
extends both with `server` (`egg_id`, image, `env`) and the handlers that read, change and write
back `env`: `create_server`, `update_startup`, `update_docker_image`, `change_egg`. `applied`
(*history*) is what the environment would be, had each write been made of what the write before
left.

The column `rules` holds an author's rules joined with `|` (`Joined`). `parse_rules` cannot find
them again when a rule that is no regular expression has a `|`, or a regular expression has a `/`,
at which `egg_vars.rs:19` ends it; nothing refuses such rules, and here no assumption does. Of any
rules `EnvValid` says that a value obeys what `parse_rules` finds in their text, and of those that
are `WellWritten` that it obeys them all. The run has one regular expression with a `|`, and one
with a `/`, of which a part and an unknown rule are left.

### 3.8 `NodeFiles`, `NodeLogs`

A node has no file system of its own to speak of: every file call of `node/src/docker.rs` is a
command typed into the standard input of the container. `stdin` holds what was typed and not yet
read, `fs` what the files contain, `call` the calls in flight, `up` and `life` the container. A
stop empties the input; chunks of one upload are separate commands that other calls' commands may
come between (`mixed`, *history*). `NodeLogs` adds the forwarder of `stream.rs:8-40`, its bounded
channel and its readers: `Next1`, `NextFails`, `NextEnds` are Docker's stream, `Send` waits for
room, `SendFails` notices a reader that has gone, and `NodeDies` loses all calls.

### 3.9 `Pages`

| TLA+ | Code |
|---|---|
| `rows` | the table behind a list, each row under the key it is asked for by (a directory, a schedule) |
| `page` | the page that is open: what it names, what it shows, what it says |
| `req` | requests on their way, handled, and on their way back |
| `disturbed`, `erased` | *history* |
| `Open`, `Create`, `Delete`, `GoTo` | what a visitor does, in the tabs under `frontend/src/pages/client` |
| `Begin` | the task that `load_files` spawns clears the message and asks, `files_tab.rs:46-49` |
| `Handle`, `Refuse`, `Other` | the panel, for this visitor and for others |
| `PageOfLog`, `offset` | `activity.rs` |
| `Ok`, `Taken`, `Loaded`, `Follow`, `Arrive`, `Lose` | `frontend/src/api/client.rs` and what each page does with an answer |

There are four kinds of page because there are four ways in which the code treats an answer; the
pages of one kind differ in wording only. The tables of the administrator's pages are no fifth: they
hand their rows to `Table` as they are when the page is mounted (`admin/users.rs:87`,
`table.rs:11`), which is none, and no answer changes what is shown. In the files tab a change spawns
the task that reloads, and what the tab says of the change stands until that task runs (`Begin`).
`Sessions` and `Pages` share nothing but the token a
request carries, and no list depends on whose it is.

## 4. What is checked

Runs that pass:

| Run | Instance | States | Shows |
|---|---|---|---|
| `server_hazards` | 1 server, 3 handlers, all operations, all failures | 46,508 | `StatusTold`, its inductive strengthening `IInv`, and that both abstract specifications are implemented |
| `server_live` | 1 server, 2 handlers, every failure a handler is told of | 4,722 | every handler ends, no server stays `installing`, an admitted delete removes the row |
| `alloc` | 2 servers, 3 allocations of their node and 1 of another, 2 handlers, limit 1, failures | 1,012,020 | `SameNode`, `LimitOvershoot`, `Kept`, and the inductive invariant `IInv` |
| `sched` | 2 schedules of 1 server (one `only_when_online`), 2 tasks (one continues on failure), 2 requests, failing statements and restarts | 534,558 | `FlagTold`, `FiresDue`, `DistinctAlone`, the inductive invariant `IInv`, and `DueRuns` |
| `databases` | 1 MySQL server with 1 host row, 1 game server, 2 rows, 2 names, 2 accounts, 2 passwords, 2 handlers, failures | 914,076 | `Login`, `SchemaKept`, and the inductive invariant `IInv` |
| `access` | an administrator and an owner, 2 servers, 2 subuser rows, 1 backup, 2 requests at a time, 3 in all | 738,408 | the inductive invariant `IInv`, `GhostsHoldNothing`, `LockParity`, `ByRight`, `LockedStays` |
| `startup` | 2 eggs, 3 variables of 3 shapes, 1 file, 1 document, 1 server, 2 handlers at a time, 4 requests in all | 552,600 | `Sound`, `ImportInOrder`, `ExportWhole`, `NoLostUpdate`, `EnvValid` |
| `node_console` | 1 container, 2 lives, 2 paths, 2 calls, 1 reader, room for 1 message | 649,985 | `UploadConserved`, `DownloadPrefix`, `LogInOrder`, `EndIsWhole`, `AtMostOneMore` |
| `sessions` | 2 tabs and an API client, 2 pages under each layout, a seeded administrator and one more user, 1 node, 1 server, 2 instants, lifetimes 1 and 2, 3 tokens | 1,306,303 | the inductive invariant `IInv`, `PageHoldsToken`, `SftpSound` |
| `pages` | 4 kinds of page, 2 keys, 2 rows, a page after which another is opened, 4 requests on the first (3 in the files tab) and up to 3 on both | 2,991,753 | `QuietIsFresh`, `ListOfItsKey`, `WalkMissesNone` |

Why the bounds are enough. Servers do not interact in `ServerLifecycle` (no action names two), so
one server with several handlers shows every interleaving; three handlers are enough for two that
race and a third that undoes or reuses, and the proofs cover any number. Two servers and two
handlers are needed for one allocation to change hands in `Allocations`; four allocations leave
one free beyond the limit and one that must not be taken; with limit 1 the limit is reached by the
first assignment, and proofs are for any limit. In `Scheduler` two schedules make a batch in which
one waits for the other, and two tasks make an order, a failure and its successor. In
`ServerDatabases` two handlers on one account are the interleavings that matter, two rows let one
account serve two databases, and two passwords tell the old from the new; two host rows that name
one MySQL server are covered by the proofs. In `Access` two requests are a check and what changes
under it; three requests in all let a right be given, used and taken back. In `Startup` two
handlers read and write one environment, and four requests make an egg, a server of it and two
updates. In `NodeLogs` a channel with room for one message is the one that is full most often. In
`Sessions` the lifetimes are one and two instants, so that at the second instant the first login's
access token has ended, its refresh token has not, and a token refreshed then lasts exactly as long
as `FamilyBound` allows; two tabs share one storage, and two pages under a layout are the least
of which one can follow the other. In
`Pages` four requests are two changes with the loads that follow; the files tab, whose only claim
is which directory it names, has three; two rows and pages of one entry make a walk of three
pages. An identifier is never used twice (they are random UUIDs), so a small set of them bounds
how many rows are ever made; the state spaces are finite without further bounds. Symmetry is used
only in runs without liveness properties. Deadlock is not checked: a panel whose identifiers are
used up and whose clients are silent may stop.

Runs whose property is violated; each property is what a document or a test of the repository
says:

| Run | Property | Said | Done |
|---|---|---|---|
| `diverge_real_state` | `RealState` | the status is the real state of the server | `servers.rs:389`: two handlers' status writes land in the other order than their calls, and stay so |
| `diverge_saved` | `SavedIsSaved` | `files_tab.rs:105`: "File saved successfully" | `files.rs:100` of the panel answers 204 without a body, which `ApiClient::post` cannot parse, and every error with JSON, which it can: a save that is refused is announced as a success, and one that succeeded as an error |

`diverge_real_state` has no failure but two requests that overlap, `diverge_saved` only a refusal.

Met while modelling, and left without a run of their own:

- A suspended server can be started by `restart_server`, which does not look at the status
  (`servers.rs:431`).
- An allocation of a deleted server stays assigned to it for ever: `allocations.server_id` has no
  foreign key (`servers.rs:367`), though the design says `ON DELETE SET NULL`.
- `assign_allocation` does not repeat `server_id IS NULL` in its `UPDATE` (`servers.rs:615`), so of
  two that overlap the later takes the allocation from the earlier.
- A statement that fails leaves `is_processing` set for ever (`scheduler.rs:138`, `:207`), and the
  schedule never runs again; `FlagTold` says exactly which schedules are so stuck.
- A task with a negative `time_offset` sleeps for 584 million years (`scheduler.rs:146`) and stops all
  schedules. The model has such tasks (`Endless`); the run `sched` has none, since `DueRuns` is
  about those that end.
- `DROP DATABASE IF NOT EXISTS` (`server_databases.rs:351`) is no statement of MySQL; the error is
  ignored, so that a deletion drops the account and never the database.
- `get_startup` and `update_startup` ask for no permission of their own.
- The CLI's command that creates a user names neither `id` nor `created_at`, which are `NOT NULL`,
  so it cannot succeed. The node verifies SFTP credentials at `/api/auth/sftp-verify`, without a
  token; the panel serves `/auth/sftp-verify` and wants one. The token of any node verifies logins
  for the servers of all.
- The frontend never refreshes its token, and a page that is open keeps its own after a logout.
  The layouts look at the session once (`admin/mod.rs:16`, `client/mod.rs:23`): after a logout
  their links and tabs go on to mount pages, which ask with an empty token and are refused.
- The tables of the administrator's pages stay empty: `Table` takes a plain `Vec`
  (`components/table.rs:11`, `:31`) that is read once, when the page is mounted
  (`admin/users.rs:87`, `nodes.rs:82`, `servers.rs:89`, `eggs.rs:91`), before any answer.
- A regular expression with a `/` in it is cut there by `parse_rules` (`egg_vars.rs:19`): the first
  part is the pattern that counts, the rest an unknown rule that refuses nothing. Neither
  `create_variable` nor `import_egg` refuses such rules.
- The logs tab listens for unnamed events, while the panel names them `stdout` and `stderr`; no line
  is shown. `get_text` takes the body of an error for the content of a file, which Save then
  writes back. A task added to one schedule while another is selected leaves the tasks of the first
  under the name of the second; `ListOfItsKey` excepts it.
- `upload_file` appends its first chunk like all others, so an upload over a file that is there
  extends it.
- `change_egg` goes on with an empty environment when `load_egg_env` fails.
- The offset of the activity log is a 32-bit product, which overflows beyond page 21,474,837.
- When the node cannot be reached, `create_server` returns before its compensating delete
  (`servers.rs:314`) and the row stays `installing`; `InstallEnds` in `server_live` therefore
  supposes that connections succeed. `delete_server` ignores the outcome of both calls to the
  node (`servers.rs:364`) and deletes the row over a container that may remain.
- An account that is left on a MySQL server, by a creation whose row was refused or by a cascade,
  keeps its password when a creation asks for it again (`CREATE USER IF NOT EXISTS`,
  `server_databases.rs:229`), while the new row stores another. `Login` excepts such accounts, and
  those two requests work on at once.
- A database left behind, by any deletion or a cascade, is given with its content
  to the next creation of that name. `SchemaKept` owes its truth to that: were the database
  dropped, a creation of the same name at the same moment could lose its own, which is what the
  mutant of `DropDb` shows.
- `max_databases` and `database_limit` are read by no handler; the password of a database is in no
  answer (`server_databases.rs:87`); the activity entries of both files are futures that nobody
  awaits or spawns, so none is written.
- `unsuspend` writes `stopped` over a container that kept running (`settings.rs:169`), and a
  power task of the scheduler changes the container and no status (`scheduler.rs:243`); both
  count as disturbances in `StatusTold`.
- Requests to assign that overlap pass the limit (bounded by `LimitOvershoot`); a primary made
  while it is removed stays primary and unowned; `delete_allocation` (`allocations.rs:174`)
  deletes what was assigned since its test.
- `time_offset` is slept before each task, so offsets add up; the design
  (`docs/superpowers/specs/2026-06-26-features-completas-design.md:238`) counts them from the
  start of the run. The sleeps delay every other schedule beyond its minute.
- Overlapping requests give two tasks of a schedule one `sequence_id`; their order is then the
  database's choice.
- A schedule skipped because its server is down keeps its `next_run_at` and runs, off its cron
  time, in the first tick after the server comes up.
- Backup tasks and `kill` are not implemented in the scheduler, and a payload in the shape the
  design gives is refused.
- `settings::fetch_server_ports` (`settings.rs:188`) decodes an integer column as text, so the
  task of `reinstall_server` does nothing for a server with an allocation.

## 5. Fairness

- `ServerLifecycle`: weak fairness of `Step(r)`, the progress of each handler. tokio polls every
  future whose statement or reply has completed; Docker bounds a stop by its 10 s timeout, and
  the loss of a connection ends a call. No client is obliged to send anything, no failure must
  happen, and a late effect of an abandoned call need not come.
- `Scheduler`: weak fairness of `Work`, the one loop. It assumes that calls to a node return: the
  client sets no timeout of its own, so a node that keeps a connection open and never answers
  would stop all schedules as a negative offset does. `Sleep` of an endless task is not enabled,
  so fairness does not end it. `DueRuns` supposes that failures cease from some point on (a run
  cut off for ever may never come to an end) and that a server wanted online is online from some
  point on (otherwise every tick may meet it down).
- The other modules claim no liveness. Their handlers end because each of their statements does,
  as in `ServerLifecycle`; whether a client goes on to ask, a reader to read, or a container to print
  is nobody's obligation.

## 6. What is proved

TLAPS checks every theorem below for any sets of servers, allocations, requests, schedules, tasks,
hosts, accounts, users, tabs, backups, eggs, variables, documents, paths, calls and readers, any
operations and any failures. The assumptions are those named `ConstantsOK` in each module, with
`EggConstantsOK`, `PageConstantsOK` and `CapOK`: the null values are outside the sets, the sets that are counted are
finite, limits and capacities are positive numbers, what is looked up is a function, documents are
sequences of variables, and rules are any texts. Nothing else is assumed.

`ServerProofs`
: `TypeCorrect`, `Invariance` (`IInv`) and `StatusIsTold` (`StatusTold`). `StatusTold` speaks of
  servers on which nobody works; for a step to preserve it one must know what holds in the middle
  of a handler. `Halfway` says, for each program counter, what the row and the container are;
  `OneHandler` that an undisturbed server has one handler, so that no other changes what
  `Halfway` says; `Inserted` that a fresh identifier has no past.
  `RowLifeImplemented` and `AtomicityImplemented`: initial states map to initial states, every
  step to a step or a stutter of the abstract specification. The second uses `IInv`, and is for
  steps before and after which no server is disturbed.

`AllocationProofs`
: `AllocTypeCorrect`; `NodesMatch` (`SameNode`) from `Located`, the node test remembered between
  the statements of a handler; `LimitBounded` (`LimitOvershoot`) from `LimitBudget`, which counts
  what is owned together with the handlers that may still add to it; `OwnershipKept` (`Kept`) from
  `Alone` (nobody else names what an undisturbed server's handler names), `Unthreatened` (nobody
  is about to overwrite or delete what it owns) and `Halfway`. `AllocInvariance` is their
  conjunction `IInv`.

`SchedulerProofs`
: `SchedTypeCorrect`, `SchedInvariance` (`IInv`), `FlagsTold`, `BatchStaysDue`, `NumbersDistinct`.
  `NoGhosts` keeps deleted rows out of everything, `AtWork` ties the program counter to the
  schedule at work, `Unstuck` says that what was left marked is not selected again, and
  `Reserved` that the number a lone request is about to insert is above all others.

`DatabaseProofs`
: `DatabaseTypeCorrect`, `DatabaseInvariance` (`IInv`), `LoginHolds` (`Login`) and `DatabasesKept`
  (`SchemaKept`). `Login` speaks of accounts nobody works on; `Halfway` says what holds of an
  account in the middle of a handler, and `Calm` that an undisturbed account has one handler and
  one row at most. The lemma `Frame` says that a step changes nothing about the accounts it does not
  work on, so that one account is looked at at a time. `Read` keeps what a handler read true of the
  row while it lives, and `Made` carries `SchemaKept` through a creation.

`AccessProofs`
: `AccessInvariance` (`IInv`), `DeletedUsersHoldNothing` (`GhostsHoldNothing`), `LockCounts`
  (`LockParity`), `LockedBackupsStay` (`LockedStays`) and `RightsChangeByRight` (`ByRight`).
  `Rightful` says that a handler past its check held its right at a moment since it began. Its
  step from the second statement of the check needs `References`: a row of permissions that is
  there names a server that is there, so that the two answers, read one after the other, hold
  together at the second. `Toggled` says of a toggle in flight what it has read, and `Born` that
  no row is locked or toggled before it exists.

`ConsoleProofs`, sessions
: `SessionInvariance` (`IInv`), `PagesHoldTokens` (`PageHoldsToken`) and `SftpVerifiesTheLiving`
  (`SftpSound`). `FamilyBound` is kept by `refresh` because only a refresh token is refreshed, and
  only an access token comes of it; `ClaimsKept` because a user's row changes once, when it is
  deleted, and its id is not used again; `SftpSound` follows from the foreign key of
  `servers.user_id`, kept in `References`. `PageHoldsToken` cannot be read off a check, since a page
  is mounted long after its layout looked: `Suits` keeps the session of a tab in step with its page.
  A layout that let the tab in did so for the session that is there still or for one that is gone,
  because a tab's session changes only by a logout, or by a login, which moves the tab to a page
  that suits it or finds it there.

`ConsoleProofs`, pages
: `PageInvariance` (`PageInv`), `QuietListsAreFresh` (`QuietIsFresh`), `ListsAreOfTheirKey`
  (`ListOfItsKey`) and `WalksMissNone` (`WalkMissesNone`). What is said of a page on which
  nothing is under way must be said of the requests under way too. `Reloads`: a
  tab's list is the table, or a change or a load that shows the table is under way, and no load
  that does not show it comes last. It speaks of pages that nothing has disturbed and nothing
  in flight will (`Calm`), for an answer that is overtaken is marked when the other arrives.
  `Walks`: an entry that was there when the walk began is read, or its rank in the log, which only
  grows, is beyond the pages read (`Ahead`). The order of a list, newest first, and the place of
  an entry in it are proved of the `CHOOSE` in `Newest` by the least cardinality at which they
  would fail.

`NodeProofs`
: `NodeInvariant` (`IInv`), `NodeTypes`, `UploadsConserved` (`UploadConserved`),
  `DownloadsArePrefixes` (`DownloadPrefix`), `LogsInOrder` (`LogInOrder`), `EndsAreWhole`
  (`EndIsWhole`) and `OneMoreAtMost` (`AtMostOneMore`). `UploadConserved` needs `Alone`: of the
  lines that wait on the standard input and would change the file of a clean upload, all append,
  so that reading one moves its chunks from the queue to the file and changes nothing of their sum.
  `DownloadPrefix` needs `LineAwaited`, one line at most of each call, and `PieceHeard`: what a
  download has heard is nothing or the piece it asked for at its offset. For the logs, `InHand`
  says what the forwarder holds between its read and its send, and `LateIsLast` that the read
  after the reader went away is followed by the send that fails. What `FlattenSeq` makes of a
  longer sequence is proved first, by the least number at which a statement would fail.

`StartupProofs`
: `StartupInvariant` (`IInv`), `EggsAreSound` (`Sound`), `ImportsGoInOrder` (`ImportInOrder`),
  `ExportsAreWhole` (`ExportWhole`), `UpdatesAreKept` (`NoLostUpdate`) and `EnvironmentsObey`
  (`EnvValid`). `ImportHeld` ties an import in flight to its egg: of the document the egg was
  made of, and not yet at the script. `ExportHeld` says that what is kept and was not read
  is in a table still to be read. `UpToDate` says for each program counter what a handler holds
  of an environment nobody else writes, so that what it writes back is its change of what is
  there; and `EnvHeld` that what it is about to write obeys the rules, for the egg it read.
  The lemma `RulesAreFound` says that `parse_rules` finds again the rules an author joined, of
  any number and length, if they are well written; it is what `EnvironmentsObey` says of them. In
  the proof `IInv` is regrouped (`Past`, shown equivalent) by what a step touches together: the
  rows of eggs, the export, the servers, and what environments obey.

Only model-checked: all liveness (`EveryRequestEnds`, `InstallEnds`, `DeleteRemovesRow`,
`DueRuns`), since TLAPS does not reason about fairness and `ENABLED`. Induction over data is out of
the provers' reach except where it can be said of sets of numbers, as in `NodeProofs`,
`ConsoleProofs` and, for the texts `parse_rules` takes apart, `StartupProofs`.

## 7. Not modelled

- In the modelled components: rename, which changes a name nothing depends on; statistics and the lists
  that only read; the ports a request names, the cron expressions, the listing of a directory and
  the assembly of a container's configuration, which are pure conversions; the cascade from a
  deleted node to its allocations, which are then no server's.
- The node's backup calls: the panel never makes them, and a backup is a row without an archive.
- SFTP is a stub. What a page looks like, its modals, and the console, statistics, settings and
  startup tabs keep no list and are not modelled. The configuration is read once. Password hashing,
  encryption and token signing are pure functions of libraries.
