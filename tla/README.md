# PostPlus in TLA+

PostPlus is a mail server built from small services. A supervisor starts
`postplus-auth`, `-storage`, `-transfer`, `-filter`, `-delivery`, `-smtp`,
`-imap`, `-pop3` and `-web` as child processes. They talk over an authenticated
loopback HTTP RPC. Only auth and storage keep databases, one SQLite file each.
This directory models that program in TLA+, checks the models with TLC and proves
theorems about them with TLAPS. Paths below are relative to the repository's
root, which `PROJECT.json` calls `src/`.

## Inventory

| Component | Source | State | Operations | What is hard |
| --- | --- | --- | --- | --- |
| Account table | `src/services/auth.cpp` | `users`, `account_deletions` | create, user_delete, user_delete_finish, change_password, list | deletion spans two databases; an address may be registered again |
| Password policy, credentials, sessions | `auth.cpp`, `web.cpp`, `core/password_policy.cpp` | policy row with revision, salts and hashes, web sessions | verify, change, session_check, policy save | hashing happens outside the lock, the result is written later |
| Login security | `auth.cpp` | attempts, bans, in-memory reservations, audit queue | begin/release/finish of a verification, ban, unban, policy | concurrent verifications, windows, failures of SQLite between reservation and release |
| API keys, invitations | `auth.cpp`, `core/access.cpp` | keys, invitations with uses | create, revoke, verify, redeem | last use redeemed twice, revoked while hashing |
| AbuseIPDB worker | `core/abuseipdb.cpp` | bounded queues, cache, quota | lookup, report, drain | bounded queues between login threads and one worker |
| Mail queue | `src/services/storage.cpp` | `queue`, `queue_routes`, `delivery_status`, receipts | enqueue, list, retry, reject, finish, deliver, mailbox_delete | repeated and late calls, deletion while a worker holds a job |
| Mailbox store | `storage.cpp` | messages, folders, UIDs, drafts, quotas, derived rows | append, copy, move, remove, flags, drafts, folders, search | UIDs, batches that must be all or nothing, derived rows that go stale |
| Forwarding rules | `storage.cpp`, `core/forwarding.cpp` | `forwarding_rules` | create, delete, resolve | order of exact rule, account and wildcard; accounts deleted before their rules are |
| Delivery worker | `src/services/delivery.cpp` | one job snapshot | list, scan, resolve, deliver, send, finish, retry, reject | each step may fail or succeed without an answer |
| Loopback RPC | `core/core.cpp` | none | call, serve | a caller's deadline does not stop the callee |
| SMTP, IMAP, POP3 sessions | `services/smtp.cpp`, `imap.cpp`, `pop3.cpp` | envelope, mailbox snapshot, maildrop lease | protocol commands | order of commands; several sessions on one mailbox |
| Outbound transfer | `services/transfer.cpp`, `core/outbound.cpp` | none | MX search, TLS policy, SMTP client | which outcome ends the search, and what a lost or unreadable answer means |
| Message filter | `services/filter.cpp` | none | scan | external scanners fail |
| Supervisor | `tools/main.cpp`, `core/process.cpp`, `core/restart.cpp`, `core/maintenance.cpp` | children, jobs, reservations, flags | start, stop, restart, rollback | jobs requested while others run, failing restarts |
| Module update | `core/update.cpp`, `tools/update.cpp` | journal, staged and backup files, metadata, boot attempts | stage, apply, commit, roll back, recover | loss of power between any two file operations |
| Backup | `core/maintenance.cpp` | snapshot directory | snapshot | two databases at one instant |
| Settings, first-run setup | `core/settings.cpp`, `core/setup.cpp` | configuration file, revision | replace, provision, commit | two editors; a failure between two writes |
| ACME | `core/acme.cpp` | job, challenge map | start, cancel, issue | cancellation races with completion |
| Logging | `core/logging.cpp` | log files | append, rotate, read | several processes rotate one file |
| Connections, TLS | `core/connection.cpp`, `tls_stream.cpp` | slots, deadlines | accept, expire | a stalled peer keeps its slot |
| Offline cleanup, data directory lock | `tools/clean_data.cpp`, `core/data_lock.cpp` | leases | mark, remove | a launcher that starts meanwhile, a crash between two removals |
| Hosted domains | `core/domains.cpp` | registry in the configuration | add, bind, check, activate, remove | evidence older than the configuration |
| MIME, verification codes, remote images, addresses, web pages, command line | several | none or static | parse, look up | no shared state; not modelled |

How they interact: clients reach SMTP, IMAP, POP3 and web; these verify
credentials with auth and call storage. Storage asks auth whether an account
exists, *while it holds its own mutex*. The delivery worker polls storage for due
jobs, calls filter, storage or transfer, and reports the outcome to storage. The
web service runs account deletion across auth and storage. The supervisor starts
all of them in order, stops the whole group when one dies, and restarts or
replaces a subset on an administrator's request.

What makes each part correct:

- **Mail queue and worker.** Accepted mail is never lost and never stored twice in
  one mailbox. The sender's status tells the truth. Every job is eventually
  settled. Mail for one owner of an address never reaches the next owner.
- **Mailbox store.** A UID names one message for ever. A batch happens entirely or
  not at all. Derived rows describe the message they belong to. A permanent
  delete removes what the caller saw or nothing.
- **Login security.** Guesses that run concurrently cannot pass the ban
  threshold; a reservation is released exactly once.
- **Credentials, keys, invitations.** Nothing old verifies after a change. A policy
  holds at the time of the write. An invitation is used at most `max_uses` times.
- **Supervisor, update.** One job at a time. A failed restart returns every service
  to its previous configuration. After any crash all modules are of one generation.
- **Configuration, first run, backup, certificates, logs.** No administrator's edit is overwritten
  unseen. Services run only with an administrator and a token. A backup is one instant. One job's
  cancellation does not reach the next job. A paged reading misses and repeats nothing silently.
- **Outbound, forwarding, listeners.** One destination at most takes a message, and TLS is not given up. A
  rule leads to a mailbox that is still somebody's, or nowhere. Every
  connection is counted, and a stop reaches each.
- **Sessions.** No command order leaks an earlier transaction. Each IMAP session
  reports changes to its own numbering consistently. A maildrop has one POP3 owner.

`PROJECT.json` lists each hazard at its line with the properties that guard it.

## Modules

| Module | What it is |
| --- | --- |
| `Accounts` | the account table of auth with pending deletions |
| `StorageQueue` | storage's rows that mail delivery uses, one operator per handler |
| `MailDelivery` | the whole: worker, storage's request in progress, late requests, clients, account deletion, restarts; specification and properties |
| `DeliveryContract` | abstract specification: what delivery promises for one parcel |
| `MailRefinement` | the mapping under which `MailDelivery` implements the contract |
| `MailInductive` | the inductive invariants that the proofs and the instances for TLC use |
| `MailProofs` | theorems: types, one copy per submission, owners of targets; status, the delivery contract, mail of former owners, repeated requests, cleanups |
| `MCMail`, `MCMail_*.cfg` | instances for TLC |
| `Mailbox` | one user's mailbox in storage: folders, messages, UIDs, drafts, quota, derived rows; also the abstract specification of what sessions may do to it |
| `MailboxProofs` | inductive invariants and theorems: UIDs, derived rows, folders, recent mail, quota; sessions implement `Mailbox` and destroy what was shown; the maildrop lease |
| `MCMailbox`, its `.cfg` | an instance for TLC |
| `MailSessions` | IMAP and POP3 sessions, the web interface and the delivery worker, composed over `Mailbox` |
| `MCMailSessions`, `MCMailSessions_*.cfg` | instances for TLC |
| `LoginSecurity`, `LoginSecurityProofs` | failure counters, bans and reservations that protect the verification of credentials; theorems |
| `MCLoginSecurity`, its `.cfg` | an instance for TLC |
| `Credentials`, `CredentialProofs` | accounts, password policy, API keys, invitations and browser sessions, with passwords hashed outside the mutex; theorems |
| `MCCredentials`, its `.cfg` | an instance for TLC |
| `RestartPlan` | which services a changed configuration restarts, and which settings each service reads |
| `ModuleUpdate` | the update transaction: journal, modules, baseline, handoff to a new launcher |
| `Supervisor` | the launcher over both: start-up, recovery, service group, restart and update jobs, administrators |
| `SupervisorProofs` | its inductive invariant and theorems: exclusive maintenance, start-up, applied configuration, downloads, hand edits |
| `ReleaseProofs` | a second inductive invariant, and the theorem that the group serves one release |
| `MCSupervisor`, `MCEndpoint`, their `.cfg` | instances for TLC |
| `ConfigFile` | how the configuration file is replaced; instantiated by the two modules below |
| `ConfigEdits` | settings page and hosted domains: edits with a revision |
| `FirstRun` | browser setup, its administrator, services and the cleanup program |
| `Backup` | a snapshot of both databases and the configuration of a running server |
| `Acme` | certificate jobs, their cancellation and challenges |
| `LogFiles` | appending, rotation, and reading page after page |
| `AbuseIpdb` | the AbuseIPDB client's queue, budget, blacklist and settings |
| `SmtpSession` | one SMTP connection up to the queue |
| `Outbound` | one attempt to hand a message to another server |
| `Forwarding` | matching and ranking of forwarding patterns, and where they lead while accounts come and go |
| `Listeners` | accepting threads, capacity, worker pool, reactor and stop |
| `MCOperations`, its `.cfg` | the ten modules from `ConfigEdits` to `Listeners`, side by side |
| `OperationsProofs` | theorems about eight of the ten, and about all of them side by side |
| `RulesAndLogsProofs` | theorems about the other two: `Forwarding` and `LogFiles` |

### Mail delivery

*Threads.* `postplus-delivery` is one thread: it lists the first due job, and
takes it through `scan`, `resolve`, `deliver` or `send`, `finish`, or into
`reject`, `expire`, `retry`. `pc` is the step, `job` the snapshot it took from
`queue_list`. `TakeJob`, `Scan`, `Transfer` and `Answer` are the statements of
`process()` and the two handlers of `main`. A failed transfer, temporary or permanent, may have reached the other
server: its answer can be lost, and a relay's answer that cannot be read is reported as a permanent failure.

*Storage.* It executes one request at a time under a mutex, in an immediate
SQLite transaction. Some handlers ask auth about accounts while they hold the
mutex, and an account may change after the answer. So a request has steps: `Begin...`
takes the mutex, `Ask` gets one answer, `Commit...` applies the handler to the
answers, `Abort` rolls it back. Handlers that ask nothing still begin and commit;
between the two only other services move.

*RPC.* `Timeout` is the caller's deadline. If storage already serves the request,
its answer goes to nobody; otherwise the request stays in `late` and may be begun
at any later time, in any order. This covers lost requests (never begun, or
aborted), lost answers and duplicates through retries.

*Clients.* `Submit` enqueues with routes that storage handed out at any earlier
time (`handed`), as SMTP sessions do between RCPT and DATA and as web does within
one request. A request may be submitted again with the same `submission_id`.

*Account deletion.* `AccountStep` disables the account in auth,
`mailbox_delete` cleans storage, and `user_delete_finish` completes it once some
call with that cleanup succeeded. The number of the registration stands for the
random cleanup identifier.

*Restart.* A child that exits brings the group down; everything in memory is
lost, and storage's constructor repairs the status rows of jobs that have gone. In the model this repair finds nothing to
do: a handler changes the queue and the status in one transaction, as `StatusIsTrue` shows.

Modelling decisions:

- A job is named by its submission and the recipient that stands for all
  recipients pinned to the same destination. Rows written once and deleted with
  the job (`queue_routes`, `queue_context`) live in the submission's `envelope`.
- The `delivery_status` rows of the recipients of one job always change together
  and are one value.
- Quotas, the queue limit, message sizes and malformed input are one refusal that
  may happen at any time.
- The order of `next_attempt` is the relation `ahead`. Times are otherwise only
  "due" and "too old".
- Several identical requests that are late at once are one: the second of two
  begun in a row finds the state of the first, and an equal later one can be
  produced by another timeout.
- A route, once handed out, may be used at any later time; the late
  `mailbox_delete` of any earlier cleanup may come at any time. Both allow more than
  the code does.
- History variables (`incarnation`, `inserted`, `accepted`, `transferred`) are
  read only by properties, except that `incarnation` stands for the cleanup identifier.
- Left out: the branch of `resolve_recipient` for jobs queued without a route by
  older releases (each caller in this release passes routes), and the draft that
  `enqueue` may turn into the Sent copy (it belongs to the mailbox store).

### Mailbox

*State.* `messages` is the table of that name joined with `message_flags`;
`folders` maps the names in `mailbox_folders` to their rows; `uidnext` and `quota`
are columns of `mailboxes`; `search` and `pop3` hold what `message_search` and
`message_pop3` derived from a message, and under which UID. `used`, `meaning` and
`claims` are history variables, except that `used` also says which random
identifiers can still be drawn.

*Operations.* One operator per handler of `storage.cpp`: `Insert` (append, local
delivery, the Sent copy), `Rewrite` (saving a draft again, turning a draft into the
Sent copy), `Copy`, `MoveAll` (copy with `move`), `MoveSome` (move, delete to Trash),
`RemovePermanently`, `SetDeleted`, `ListClaiming`, `ListSizes`, `SearchMail`,
`SetQuota`, and the folder handlers. Each is one transaction under storage's mutex, so it is one
step; a refused or failed call rolls back and is no step. The operators take the
guards that callers send: the UID and the folder they saw, 0 or `<<>>` for a guard
not sent. `MailboxNext` lets an arbitrary caller name any messages without
guards; `MailSessions` calls the same operators with the guards its sessions send.

*Details that matter.* A batch draws its UIDs in any order within one block,
because its identifiers are random. A move gives new UIDs and leaves the
derived rows under the old ones; a search re-indexes a non-empty part of what is
stale, at most `IndexBatch` rows. A rename carries the subtree; deleting a folder
that has others below it leaves a container, and containers without use are pruned
upwards until nothing changes.

*Abstractions.* A message's content is its size: two contents that a property tells
apart have different sizes. Names of folders are tuples of parts, so that
"below" is the prefix order. Of the flags only Deleted is kept, as the others
guard nothing. Removing a mailbox with its account is part of `StorageQueue`.

### Protocol sessions

`MailSessions` EXTENDS `Mailbox`: each RPC of a session is one operation of the mailbox,
and between two RPCs of one command the other sessions move.

*IMAP.* `imap[s]` holds the locals of `imap()`: `selected_folder`, `readonly`, the snapshot
`messages` and the identifiers of `recent`; `at` tells how far a command of several RPCs
has come. EXPUNGE is three: `Expunge` refreshes, `ListFlagged` lists what is flagged,
`Expunged` asks storage to remove it; `Noop` is the refresh that ends it. `view` is no
variable of the code: it is what the *client* believes its sequence numbers mean, changed
only by what the server announces (EXPUNGE numbers one by one, `Expunges`; then EXISTS, `AfterExists`). `Store`,
`AppendMessage`, `Transfer`, `Create`, `Delete`, `Rename` are the other commands that change
state. A STORE on several messages is several `Store`s.

*POP3.* `pop[p]` is a session's listing and its marks, `leased` says whether
`MaildropLease::owners_` has the user. The lease is taken before the listing and freed
on every path out of `pop3()`.

*Web.* A permanent delete looks a message up and then deletes that version
(`LookUp`, `WebDelete`); moving, saving and sending are single calls. `Deliver` is the worker.

*Late deletes.* A permanent delete whose caller gave up goes to `late` and may be executed
at any later time. `destroyed` is a history of what each delete removed and what its
session had been shown. `Disconnect` covers logout, BYE, a folder that has gone and a
broken connection.

Left out: login, FETCH, SEARCH and flags other than Deleted (no property here depends on them); a
STORE of several messages that fails in its middle, whose earlier messages keep the change;
MOVE, COPY and STORE calls that run after their caller gave up; SUBSCRIBE.

### Login security

`LoginSecurity` stands by itself: the service's accounts matter only by whether a guess is right
and whether the account exists, and both are inputs.

*State.* `attempts` and `bans` are the tables, partial functions from addresses; `policy` and
`revision` the row of `security_policy`; `pending` is `pending_auth_`; `calls` holds what
`verify` keeps in its locals while it hashes. `answered` and `leaked` are histories that only
properties read.

*Steps.* `verify` holds the mutex twice. `Verify` is its first half, `begin_auth`; `Finish` the
second, `finish_auth` with `release_auth`; a hash that throws (`HashFails`) only releases.
API keys and malformed requests do both halves under one mutex (`AtOnce`); `security_check`
at a new connection may only ban. `Begun`, `Settle` and `Expired` are begin_auth, finish_auth and
expire_security as operators, so that each caller applies the whole. Administration is
`SecurityView`, `SetPolicy`, `Unban`, `Ban`; each reply prunes the tables.

*Abstractions.* There is no clock: a window ends (`WindowEnds`) and a ban lapses (`BanLapses`) at any
time, and a lapsed ban stays in its table until a sweep removes it. `exempt` stands for the
allowlist and for a policy that is switched off. What AbuseIPDB's worker cached may ban any
address that is not exempt. The limit on hashes per minute is one more way to fail. Calls
without an address are not protected and not modelled.

*A lost reservation.* If `BEGIN IMMEDIATE` fails when `verify` wants to settle, the exception leaves
`verify` before `release_auth` has run (`auth.cpp:1383`; only the hash itself is guarded by a
`catch`). The reservation then counts against its address until auth restarts. `BeginFails` is
that step, `leaked` what it leaves; `ReservationsAreOwned` (proved, `ReservationsMatch`) says that nothing else is ever left,
and `GuessesWithinThreshold` that such a loss never admits more guesses.

### Credentials

*State.* `users`, `deleting`, `policy`, `keys`, `invitations` are auth's tables, `sessions` is
`sessions_` of the web services. A task is a call whose hash runs outside the mutex; it holds
the locals that were read before. `registered`, `lastSet`, `joined` and the fields `by` are
histories that only properties read.

*Steps.* `verify` reads the account (`BeginVerify`), hashes and settles (`Verified`), may hash
again with as many iterations as configured and update the row if its hash is still the one
read (`Rehash`), and answers. `login` turns the answer into a session later (`SignIn`), so that
a purge can come between. `Valid` is `session_check`. `create`, `change_password` and
`invite_redeem` look twice, before the hash (`BeginWrite`, `BeginRedeem`) and in the transaction
that writes (`Create`, `ChangePassword`, `Redeem`). Keys, invitations, the policy and both
halves of a deletion take one transaction each. `RaiseIterations` is a restart with a new
configuration; other lost calls are `TaskEnds`.

*Abstractions.* A salt is a number drawn once, as 16 random bytes are in practice. A row's hash
stands for its password and salt, so that rows agree in the hash when they do in the salt. A
policy is the set of passwords it admits. A key or an invitation is `live` until it is revoked
or expires, which may happen at any time. Left out: revision numbers of the policy (a stale
save changes nothing), permissions of keys, domains, names and limits on requests per minute.

*Two consequences worth knowing,* both allowed by the code and by these properties. When two
sign-ins of one account hash again at the same time, the later one finds the row changed; its
session carries the former salt and is not valid at the next request. And a `change_password`
whose account is deleted and registered again during the hash sets the password of the new account,
as the row is found by its address.

### Supervisor and module update

`ModuleUpdate` is the transaction of `core/update.cpp`. `journal[j]` is `.updates/<job>/job.json`,
`handoff` is `relaunch.json`, `installed` the module files, `metadata` the baseline
`postplus-update.json`. `call` is the function in progress, and each durable write is a step:
`JournalModule`, `WriteModule`, `WriteMetadata`, `MarkComplete`, and backwards `RollModule`,
`JournalRestored`, `RollMetadata`. A kill between any two of them leaves what is on disk.
A write that fails is `WriteFails`, `RollFails` or `CommitFails`; a module replaced by hand is `HandEdit`.

`RestartPlan` is a translation of `restart_plan` and of the settings that each service's `main`
reads (`Reads`). A configuration is a function on the settings an instance tells apart.

`Supervisor` EXTENDS both and is `tools/main.cpp` with `SupervisorControl`. `sup` is where the launcher is:
its phases follow `run` from recovery (`Pre`, `Recover`) over starting the group (`StartNext`), the
report (`Ready`, `Released`, `Acknowledged`) to the loop (`Serving`, `TakeApply`, `TakeRestart`). `config`, `applied`,
`restart`, `update` and `reservation` are on disk; `active`, `running`, `conf` and `previous` are
the launcher's memory, with the modules and the configuration each service was started with.
An administrator's request takes the reservation, writes the status and then posts the request
(`Ask...`, `Reserve`, `Post`), in steps that interleave with the launcher and with one another. `executed` remembers
whether a new launcher could be executed, as it shows when it is first tried. `Kill`
stops everything; `Boot` is the service manager or an operator. A restart request that is read when its
job is no longer pending is an error of the launcher's loop, which ends the group (`RestartRefused`, `maintenance.cpp:722`).

*Abstractions.* A module's content is the release it last changed in, 0 before there is one; that is what
`ModuleUpdateAssumption` says of `Build`, and it only names the contents. The download and the contents
of its archive are one outcome of `StageVerified`. A rename followed by a sync is one step. The Windows takeover,
in which a new launcher replaces a running one, is left out. `TakeStage` waits until an earlier download has returned: in the code a new
request may replace one whose result is never asked for, and would only find its lease still taken. The comparison
of an update request with the saved job (`maintenance.cpp:620`) is left out: the reservation makes them agree, other
than in the first of the next cases.

*Cases the properties exclude.* When a launcher update fails and its own rollback fails as well (`UAbandoned`),
its handoff stays, and the reservation has been released at the report. The next launcher settles the handoff and
reports again; a request made between the two loses its reservation. `abandoned` marks
that, and `OneMaintenanceJob` and `DownloadReadsOneConfig` speak of all other behaviours, in which
`tests/restart_integration.py:186` has the reservation serialise all maintenance. In this one, a restart
job may run, and even end the launcher, during a download; `EndDownload` is `~CancelDownload`, which waits for
the thread on every way out of the loop.

The other case is an older job applied over a newer one. `request_supervisor_update` sees its job staged
(`maintenance.cpp:582`) and reserves afterwards (`:593`). If in between another administrator's job for a newer release is downloaded,
applied and committed, the reservation succeeds, and `apply_staged_update` (`update.cpp:615`) compares the files the job replaces
with what was there at staging, but not the versions. Where the two jobs share no file, the older one is committed, and the
baseline names the older release with modules of the newer one installed. It takes two jobs; `supervisor` has one, and the case came to light
when the invariant of `ReleaseProofs` was checked with two. `Superseded` marks it, and only that conjunct of `ServedByOneRelease`
that compares modules with the baseline is exempt.

*Other behaviours of the code that the model has and no property forbids.* An exception after the
commit leaves the stopped services down until a further restart ("update committed; completion reporting failed"). A request whose
status is written and whose posting fails leaves the pending status and a temporary file. A new
`mail_hostname` restarts transfer and the portals, although `smtp.cpp:44` greets with it.

### The other parts of an installation

These modules share no state with one another, so `MCOperations` puts them side by side: `moving`
names the part that moves in a behaviour, the others keep still, and their state spaces add up
instead of multiplying. Each module's variables have a prefix of their own.

**`ConfigFile`** is `replace_config_file`: lock, compare with the caller's contents, write beside it, compare
again, rename (`LockAndCompare` and the steps after it). A text editor takes no lock.

**`ConfigEdits`** (`ed`) instantiates it for the administration service. A form shows the file of
the time it was opened (`edSeen`) and carries its revision; `SaveSettings` also writes the relay password to
a file of its own, which `Answered` removes again if the edit is refused. The registry of domains follows `domains.cpp`:
`Added`, `Rebound`, `Checked`, `Activated`, `RemovedDomain`. A fingerprint is what the DNS evidence
depended on. A manual edit between the second comparison and the rename is lost (`edTouched`);
the code cannot see it.

**`FirstRun`** (`fr`) instantiates it for setup and for `postplus-clean-data`. The launcher decides
(`Decide`), shows the form, starts a temporary auth service, creates the administrator, stops it, commits; each
step may fail or the program stop. Cleanup takes the exclusive lease, marks the configuration and only then removes the databases.
The lease does not cover a launcher between its decision and its own lease, and services do not
look at `setup_required` again; `frOverlap` marks a cleanup begun there, which the property excludes, as it does a launcher that decides while a
cleanup holds the lease (the documentation asks to stop PostPlus first). A token given in the environment
(`POSTPLUS_SERVICE_TOKEN`) instead of a file is left out. A crash between the two removals leaves old mail under new accounts.

**`Backup`** (`bk`) is `snapshot`: both databases are locked, pinned by a read transaction each, released and then
copied while services write on. Contents are version numbers. `bkMoments` is the history of what existed together.

**`Acme`** (`ac`): `acWorker[j]` is the stage of a job's thread, which holds no mutex between its steps. `Start`
joins the former thread under `control_mutex` before it resets the flag. If the system has no thread for the job (`NoThread`), it
stays queued and every later start is refused. A cancel after the last check still ends in
"succeeded". Exchanges with the authority succeed or end the job.

**`LogFiles`** (`lg`): `lgPart` maps the current file and its backups to files, which keep their identity
under a rename. `Measure`, `Rotate`, `AppendEntry` are `append_file` under the lock file; `RequestPage`,
`OpenPart`, `AnswerPage` are `read_logs` without it, following the cursor. A rotation while one request
opens the files may show entries twice or hide a file, as the documentation says (`lgRaced`).

**`AbuseIpdb`** (`ab`): `abUsed`, `abSaved`, `abTried` are its database, the rest memory guarded by a mutex
that nobody holds during a request. `abGen` counts the changes of settings. A request is `Takes`n,
`Admitted`, `Reserve`d in the database, sent and answered, each a step, next to administrators' requests.
Times are flags; a request reserved before midnight counts for the earlier day. The budget is
that of an endpoint and an installation, whatever the key. The run has one key and one change of the settings, which sets, removes or keeps it; the theorem
is about any number of both.

**`SmtpSession`** (`sm`): one operator per command and per end of a connection. Every reset begins a new transaction; `smLines` remembers
which accepted line, of which transaction and user, gave each part of the envelope. Addresses are one of own, foreign, local or remote;
their syntax is an outcome. A change of the user's credentials is noticed at the next command, not during DATA.

**`Outbound`** (`ob`): `obAt` is the answer the client waits for. `ConnectNext` goes to the next address,
`Upgraded` and `UpgradeFails` end STARTTLS. After the final dot a lost answer ends the attempt
(`AnswerLost`): directly as `delivery_unknown`, by the relay as a failed transfer. Both are tried again later
and may duplicate the message; `AttemptIsSafe` is about one attempt. A line of the relay that is too long or holds a
bare line feed is reported as `message_too_large`, a permanent failure, at every stage (`UnreadableReply`), also after the
final dot, when the relay may have taken the message; a saved password that cannot be sent is permanent as well
(`PasswordInvalid`). So a sender may be told by the relay mode that mail failed which arrived; what
`TakenOnce` says about a false report is about direct delivery.

**`Forwarding`** (`fw`): patterns are sequences of characters, `NextRow` is one row of the dynamic
programme of `forwarding_matches`, `Outranks` the comparison of `forwarding_specificity`, `Selected` the choice of `resolve_recipient`. The property compares
them with a definition of matching that cuts the address into pieces (`Matches`). `fwAccount` is what auth keeps of an address: the account exists, is being deleted,
is cleaned up by `DeleteMailbox`, is free to be registered. Auth disables an account before storage drops the rules that lead to it; in between the rule is
still chosen, but `AskDestination` finds nobody and the answer names no destination. Auth may move between the choice and that
question. `tests/forwarding_integration.py` reaches the same state by removing the row of the account. The rules are those of one domain.

**`Listeners`** (`ln`): `lnAcceptor` are the accepting threads, `lnConn` the sessions, `lnIo` the
operation that a session waits for and the reactor executes, `lnStop` how far `request_stop` has come. A waiting connection
is dropped after 200 ms without capacity. If posting to the pool fails, the freed place is not announced;
the waiting thread looks again after 200 ms and the service stops anyway, so `NoLostWakeup` leaves this out.

## Runs

| Run | Asks | Bounds, and why they are enough |
| --- | --- | --- |
| `mail_attempts` | one copy per submission; what a sender reads is so; the whole implements the delivery contract | one submission to a local and a remote recipient, one fault: a call is late while the job is attempted again |
| `mail_reuse` | the next owner of an address gets no old mail and loses no new mail; targets of jobs and rules have owners | an alias with a rule, an account registered twice, one fault: a deliver or cleanup call is late across the registration, storage's question to auth becomes stale |
| `mail_drains` | liveness: each pending job is settled; a repeated `submission_id` queues once | two jobs, so that one that always fails could starve the other; both may carry one identifier |
| `mail_snapshot` | the documented promise that a reused address gets no old mail | expected to be violated, see below |
| `mailbox` | a UID names one content; derived rows are true; a message is recent once; mail lies in folders that can be opened; usage grows only within the quota | two messages, three UIDs, two contents, folders of depth two and at most three: rewrites meet stale rows, UIDs run out, subtrees are renamed into and out of one another. A batch of two *copies* that exceeds the quota half-way would need four UIDs and is outside |
| `sessions_numbering` | clients' sequence numbers are right | two IMAP sessions, two messages, three UIDs, Inbox and one client folder: rows disappear and arrive between two refreshes, a selected folder is renamed, deleted, created anew |
| `sessions_destroy` | a permanent delete removes what was shown and, in IMAP, is still flagged; a maildrop has one owner; each step is one of `Mailbox` | one IMAP session, two POP3 sessions and the web, one message under three UIDs, two contents, one late delete |
| `login_security` | guesses stay within the thresholds; permanent bans stay | three checks at once from two addresses, thresholds of one to three, a table that holds one ban, one policy change, one transaction that cannot begin |
| `credentials` | stored passwords and accepted sessions are current; keys, invitations and their uses are sound; what is stored was admitted at that moment | two accounts and two calls at once, two policies that exclude one another, two keys and one invitation; three draws are enough for a rehash between a change and its answer, for an account registered twice, and for an invitation between two registrations |
| `supervisor` | maintenance is exclusive; the launcher can always start; the group serves one release and one configuration; the download's configuration stands still; no rollback overwrites a manual edit | two administrators, two services, three modules, one update job to release 2 or 3, the latter with a launcher that may not execute; two disturbances, so that a fault meets a rollback or a kill meets a recovery |
| `supervisor_endpoint` | the documented promise that affected services run the new configuration | expected to be violated, see below |
| `operations` | twelve properties of the ten parts above | edits: two editors, three requests and one manual edit; first run: two forms, two cleanups, three stops; backup: four writes, two backups; certificates: three jobs, so that a cancellation can reach a wrong one; logs: two processes, six entries, three files of two; AbuseIPDB: a budget of one, a change of day, one change of settings; SMTP: five transactions; outbound: three destinations of which two are tried; forwarding: strings of at most three characters, two rules, accounts deleted, cleaned up and registered again; listeners: two ports, three connections for two places, one fault |

Type invariants that are theorems, and `ReservationsAreOwned`, are not repeated in the runs;
`SessionsTypeOK` and `SupervisorTypeOK` document types and are no run's question.

`MaxIncarnations` bounds registrations of an address, `MaxRevision` changes of the login policy,
`MaxFaults` timeouts, aborts and restarts (in `LoginSecurity`: transactions that cannot begin), `Submissions` the transactions of `enqueue` that commit, `Patterns`
the forwarding patterns, `MaxDraws` the salts and identifiers drawn, `MaxDisturbances` what goes
wrong around the launcher, `Newest` and `Jobs` releases and updates. The bounds of the operations are
marked where they are declared. In `mailbox` no quota is lowered below what is used, and in `operations` there is one relay
password file at a time (`MaxSecrets`); the theorems `UsageStaysWithinQuota` and `NoEditIsLost` have neither limit. That DNS evidence is at most 24 hours old
is not part of `ActivatedOnEvidence`.

Deadlock is checked in the runs of mail delivery, login security, credentials and the supervisor. The runs of the mailbox and its
sessions do not need it: each operation may be refused there, and a bounded instance stops once its
identifiers and UIDs have run out. Most of the ten operations end: a session closes, an attempt has a
result, a service has stopped. Symmetry is used only among names that are interchangeable (message identifiers,
running checks, accounts, passwords, keys, sessions of one protocol, client folders,
administrators), and in no run that checks liveness. The `supervisor` run also leaves out of its view how a
finished restart job ended, which no step and no property reads.

*Fairness* (`FairSpec`). The worker's own steps and storage's steps after `Begin`
are weakly fair: threads that can run do run, and a handler terminates. Taking a
job and beginning the worker's call are strongly fair: both need storage's mutex,
which clients also take again and again, and a waiting RPC is served in the end. Clocks
advance: a delay ends (`DueAgain`) and a job ages (`GrowOld`). Nothing is assumed
of clients, administrators, the outcome of scans and transfers, or the success of
calls. Faults stop (`MaxFaults = 0` in that run), as no mail moves while storage
never answers. `Supervisor` states its own fairness (the launcher runs on, a call ends, a request that holds the
reservation is posted, the service manager starts a failed launcher again), but only its safety is checked.

### What a run found

`mail_snapshot`: `docs/access.md:43` and the comment at `storage.cpp:563` say that
receipts keep a running worker from restoring mail from a deleted queue snapshot.
`delete_mailbox` leaves receipts only for the mailbox it deletes. When the
*sender's* account is deleted, its job to another local mailbox goes without a
receipt. A worker that has resolved that job delivers it still; if the recipient's
account is deleted and registered again in between, the mail of the former
owner's time arrives at the new owner. `UnsharedMailStaysWithItsOwner`
(run `mail_reuse`) is the part of the promise that the code keeps: mail that involves
no second local mailbox stays with its owner.

`supervisor_endpoint`: `docs/architecture.md:42` says that saving restarts the services affected by the
changed values, and `tests/restart_test.cpp:190` compares the services restarted for a moved port with the
port's consumers. `restart_plan` (`restart.cpp:33`) counts delivery and the front ends among the callers of auth, but storage calls
auth as well, as it asks whether accounts exist. After a changed port of auth is applied, storage goes
on calling the old one until it is restarted for another reason.

A smaller difference, found while reading: `docs/architecture.md:102` and `docs/api.md:472` describe log
pages as tails of 64 KiB, while `read_logs` follows a cursor through all files.

## Proofs

`MailProofs` proves, for all values of the constants that satisfy the named
assumptions (`IncarnationAssumption`, `StorageAssumption`, `DeliveryAssumption`: disjoint
kinds of addresses, markers that are no addresses):

- `TypeCorrect`. `TypeOK` is not inductive by itself: the answer storage gives a
  worker moves `pc` only if the request it serves is the one the worker awaits, and
  `deliver` needs an envelope whose destination is a mailbox. `WorkerIsServed` and
  `DeliverHasInbox` add this, giving `TypeInv`.
- `AtMostOneCopy`. `CopiesHaveReceipts` says that each copy has left the receipt
  `deliver` looks for. Only `deliver` inserts into an Inbox, and no step removes a
  submission receipt.
- `TargetsHaveOwners`. The argument runs over two databases. Storage's answers name
  accounts that existed under its mutex; such an account may be disabled before the
  commit, but its cleanup cannot *finish* before it: finishing needs a `mailbox_delete`
  that ran after the disabling, and that waits for the mutex. `OwnersInv` makes
  this inductive, with `Clean(u)` for what a cleanup leaves.

Each proof has one lemma per group of actions, and `PTL` combines them.

Its second part goes on from there, under the same assumptions:

- `StatusStaysTrue`. A status is written when a job is finished, and what is known about the mail then was
  learned in earlier calls. `JourneyInv` follows a job on its way: `WorkIsJustified` says that each step of the worker, and
  each request of its that is still on the wire, is about a committed job of the right kind, and that a `finish` is
  about mail that has arrived (`Earned`); `RecordsAreTrue` that receipts stand for stored copies and that a
  finished job had its message received. Receipts and hand-overs only grow (`Grown`), so a late
  request stays justified however long it is late.
- `DeliveryKeepsContract` is the refinement `ImplementsContract`. For each parcel, every step of the whole
  system is a step of `DeliveryContract` or leaves that parcel alone; the theorem's lemmas go through
  the groups of actions, and the contract's guards are what `JourneyInv` says.
- `MailStaysWithOwner`. `OldRoutesAreClosed`: a queued job that only one mailbox takes part in was accepted for the *present* owner
  of that mailbox, and one that has left the queue has left a receipt there, which refuses a
  worker that still holds it.
- `RequestsAreQueuedOnce` and `CleanupsSpareOwners`. `PurgesSpareOwners` says that while a `mailbox_delete`
  that believes the account gone is in progress, an owner registered since has nothing stored yet;
  `RequestsRemembered`, that storage remembers each request identifier of the present owner.

`MailboxProofs` proves, for any mailbox that satisfies `MailboxAssumption`:

- `MailboxTypes`. Folder operations must keep every message's folder a legal name
  and `SetQuota`, `Allocate` the counters in range.
- `UidsNameOneContent`. The inductive part is `UidInv`: identifiers and UIDs are unique;
  each identifier in use is remembered as drawn; each UID in use lies below `uidnext` and means its
  message's content; UIDs not yet given out mean nothing. Batches are the work: a
  block of fresh UIDs is injective and above all others, whatever the order in it.
- `DerivedRowsAreTrue`. A derived row agrees with the message of its identifier: operations that change
  a content replace the rows, and an identifier that is free again is never drawn again.

- `MailStaysReachable`. `CatalogInv` says that the catalog is closed under parents and that
  each message's folder can be selected. A rename moves a subtree: `RenamedInjective` and
  `AboveRenamed` show that no two folders are renamed to one and that parents of renamed
  folders are renamed parents. Pruning removes only leaves that hold no mail.
- `RecentIsOnce`. The inductive part, `RecentInv`, says that mail handed out as recent lies
  below the mark its folder keeps, and each message was handed out for its UID at most once;
  a renamed folder takes its mark along, a deleted one is empty.
- `UsageStaysWithinQuota`. Usage is a sum over a set, folded in an order of which nothing is known. That
  it does not depend on the order is an induction on the number of messages, by smallest counterexamples (`LeastOf`);
  `BytesUnion` and `BytesOfImage` then give what is used after a copy. A copy asks once for the
  whole batch, so the proof needs that its copies are as many and as large as its originals, and
  fresh (`CopyFits`); moves and renames store nothing new (`NothingNew`).

Its second part lifts this to the sessions of `MailSessions`:

- `SessionsImplementMailbox`. Each step of a session is a step of `MailboxSpec` or leaves
  the mailbox alone. Sessions send guards, the arbitrary caller none: a guarded delete is an
  unguarded one of what it removes (`DestroyIsRemoval`), a guarded copy that succeeds is
  an unguarded one.
- `SessionsKeepMailbox` is what follows with the theorems about `Mailbox`.
- `OneMaildropOwner`. `MaildropInv`: the lease is taken exactly while one session is not off.
- `OnlyTheShownIsDestroyed`. Delete requests name a UID, so the history `meaning` links the row that was shown to the one that
  goes: a UID once given keeps its meaning in every operation (`MeaningsStay`), so a row stays `Known` when others move or rewrite
  the message. `ShownInv` says that all a session, a web call or a late request may still delete is known and was in the folder it names: an IMAP session dooms
  messages only while it waits for their delete (`ImapShown`), and what a POP3 session marks it has listed (`PopShown`).
- `NumbersAgree`. `NumberingInv` says more than that client and session have one list: its rows are in the order of their UIDs, all
  of which were given out, and whatever shares a folder with one of them, wherever that is by now, is one of them or has a
  higher UID than all of them. This is what a refresh relies on: what it announces as new belongs behind what stayed
  (`KeptIsPrefix`, `ToldIsListed`). Every mailbox operation keeps it, since mail that changes folder gets fresh UIDs and a
  rename makes no two folders one (`Together`, `FoldersStayApart`). What the loop over the rows
  keeps (`Walked`) is shown by a smallest counterexample (`ExpungesAgree`), and so is that a folder can be sorted (`CanBeSorted`).

`LoginSecurityProofs` proves all four properties of `LoginSecurity`, for any number of addresses and
of verifications that hash at once (`SecurityAssumption`: there are finitely many, and thresholds are positive):
`SecurityTypes`, `ReservationsMatch`, `GuessesAreBounded`, `PermanentBansHold`. The invariant is
`SecurityInv`. `GuessesWithinThreshold` speaks of answers and checks in flight, but `begin_auth` decides by the
row and the reservations. `CountersRemember` links the first: the row of an address counts at least what was
answered in its window. `ReservationsAreOwned` links the second: reservations count at least the checks in flight.
`CallsRemember` covers checks that reserved nothing: under the policy they began with they are
exempt, so their failures are not counted, and under a later policy they belong to an earlier account.
`BegunFacts` and `SettleFacts` say once what `begin_auth` and `finish_auth` may do to tables and
counts; the library's theorems on finite sets turn a call that joins or leaves into one more or one less.

`CredentialProofs` proves all properties of `Credentials`, for any number of accounts,
calls, sessions and keys (`CredentialAssumption`: identifiers are finitely many). Two invariants carry it:

- `CurrentInv`, for `PasswordsAreKept` and `SecretsStayCurrent`. Whoever holds a proof, a running
  verification or a session, has its password and registration right *if* its salt is
  still the row's (`Agrees`). Each write of a row draws a salt that nobody holds (`RowWritten`),
  which ends all other proofs; a rehash that finds its salt unchanged therefore writes the
  password last set (`RehashCurrent`).
- `GrantInv`, for `GrantsStaySound`. Owners of keys and invitations exist and
  are of the registration that created them; only `DeleteUser` removes an owner (`OwnersStay` for all
  other steps). Uses count accounts, as both are written in one transaction (`RedeemKeepsGrants`).
- `RulesGovern` is an action property: each write looks at the policy, and each redemption at the invitation,
  in the transaction that stores.

`OperationsProofs` holds an inductive invariant and a theorem for each of eight operations:

- SMTP: `SmtpTypes` and `TransactionsAreWhole`, for any users, recipients, senders and limits
  (`SmtpAssumption`). A queued message is a copy of the envelope, so the invariant speaks of the envelope being built:
  `EnvelopeIsCurrent` (each line is of the present transaction and user, and each part of the envelope
  has its line) and `EnvelopeIsAllowed` (who may have built it: needed because RCPT decides by the sender and the
  user, while DATA queues later). Whatever ends a transaction empties all of it (`Emptied`).
- Outbound: `OutboundTypes` and `AttemptsAreSafe`, for any set of destinations and any limit. Each way in which the final dot is answered
  (`FinalAnswer`) ends the attempt unless the message was put off.
  `ResultsByAt` says that while the attempt goes on nothing was taken and no upgrade failed, as each of these ends it;
  `EncryptedBeforeEnvelope` and `ImplicitTls` that the modes demanding TLS do not reach the envelope without it.
- Certificates: `CertificateJobsKeepApart`, for any number of jobs. `OneWorker`: the one thread that works is that of the
  job the manager reports. `ControlIsCurrent`: while a start or a cancellation waits for the mutex,
  what it decided is still so; a set flag was asked for this job. `StageIsEarned`: a stage has the
  challenge and the files of the stages before it.
- Backup: `BackupsAreOneInstant`, for any number of writes and backups. `PinsAreCurrent`: with both writers locked out, what is pinned is
  what the databases contain. `PinsAreAMoment`: later on, the pair was once together with a configuration that is
  not older than the one read, and the comparison at the end makes it that one. `CopiesAreOfPins`: what is copied is what was pinned.
- Edits: `NoEditIsLost` and, as an action property, `DomainsActivateOnEvidence`, for any number of editors. `HoldersCompare`: from comparison to rename a
  call holds the lock, which one call holds, so `ConfirmedIsCurrent`: a confirmed comparison still holds
  unless the file was edited by hand. `CallsMatchForms`: a call expects what its form shows. `SecretsAreOwned`: a password
  file just written is named by no other request, nor by the configuration before its own request succeeds.
  `OnEvidence`: a request makes a domain active only with the evidence its own configuration binds.
- First run: `ServingNeedsAdmin`, for any number of forms, cleanups and stops. `LeaseHolds` and `CallsAreAtWork` say who may write;
  `TokensAreOwned`, that a committed configuration names a token file that exists; `OrderIsKept`, that
  provisioning precedes the commit and the mark precedes the removal, in whatever order they are cut off.
- AbuseIPDB: `ClientKeepsItsKey`, for any callers, keys, budget and number of days. `ReservationsCount`: what was sent on a day's
  reservations and what may still be sent on them (`Spent`) stays within the budget, and today's is at most what the table counts.
  `GenerationsTell`: a request of the present generation has the present key, and none is of a later one.
- Connections: `ListenersTypes` and `ConnectionsAreAccountedFor`, for any number of ports, connections and places. An accepted
  connection is in the hands of one thread (`HandsHold`); the registry lists what has a place until it is released
  (`RegistryFits`), and the queue what no worker has taken yet (`QueueFits`). Only a place given adds to the registry, so it
  never exceeds the places (`PlacesKept`). A released place stays announced until a waiting thread sees it (`NoLostWakeup`); main joins
  threads in an order (`MainFits`) after which nothing comes to life, and the flags it has set stay set (`StopReachesAll`).

Its last part is about the ten together, as `MCOperations` composes them. `EachBehavesAlone`: in every behaviour of the
composition each part behaves as its own specification allows, whether it moves or not. So the theorems about the parts hold of the
composition (`PartsKeepTheirPromises`), and `PartsKeepTheirTypes` gives `OperationsTypeOK`. Most types are part of
an invariant above. Three needed more: for `ConfigEdits` and `FirstRun`, that one call at most holds the lock (`EditsBounds`,
`FirstRunBounds`); for `AbuseIpdb`, that what a day reserves is no more than what was asked for (`AbuseBounds`). The last is not
inductive by the counter alone: a request is counted when it is asked for and reserved later, so the invariant adds those that
still wait (`RequestsCount`), and a scheduled request has a key because the settings had one when it began (`ScheduledHaveKeys`).

`RulesAndLogsProofs` is about two computations whose loops the model writes as recursive functions. The library's induction
theorems take an operator as a parameter, which no installed prover instantiates, so each induction is a smallest counterexample
of its own (`LeastOf`):

- Forwarding: `ForwardingTypes` and `RoutesAreRight`, for any letters, lengths and rules. `IterationExists` gives a value to each recursion
  and `UpTo` carries a fact along it. `RowsMean`: position `i` of row `k` holds exactly if the first `k` characters of the pattern
  can be cut to fit the first `i` of the value (`NextRowMeans` is one row, and for `*` a second induction along it); so `forwarding_matches`
  is `Matches`. `LettersFit`: the letters of a matching pattern occupy different places of the value, so no pattern has more letters
  than the value is long, and the verbatim one, with all of them and no wildcard, outranks any other (`VerbatimIsBest`). This is why
  the code need not look for an exact rule. `ChosenIsBest`: the scan by `Better` ends with the first of the best. The invariant,
  `ForwardingInvariant`, adds that a pattern has one rule and that each rule leads to an account that exists or is still to be cleaned
  up (`LeadToOwners`): auth's answer and the commit of a rule are one step, and a cleanup, which comes before the address is free again, removes the
  rules that lead there. `AnswerFits` follows an answer in progress: the rule chosen stays there until auth has been asked, as storage serves no other request meanwhile.
- Logs: `LogTypes` and `PagesReturnTheLog`, for any number of writers, files and entries. A position in a file stands for the first
  `left` entries of it (`Covers`), since a page is read from the end towards the beginning. `ReadingFits`, for readings during which no file
  was renamed while a request opened the files (`lgRaced`; the property excludes those too): the files of a cursor are
  different ones; no entry they cover was returned, and none was returned twice (`ReadFits`); unless the reader was told of rotated
  files, what they cover and what was returned is all there was when the reading began (`NothingMissed`). While the first page opens its
  files, those opened so far are where they were found (`OpenedInPlace`), so `FindsAll` can speak of the open ones and of the names still to come.
  Rotations between requests move files to other names and remove the oldest: a cursor finds its files by identity
  (`FollowsCursor`), and says so if one is gone.

Only model-checked: `QueueDrains`. It is liveness under fairness, which is out of the prover's reach, as is `ENABLED`. All other properties
of the runs that pass are proved.

## Plan

What is left: the web service's other requests (drafts with attachments, invitations by mail), IMAP login, FETCH and SEARCH.

## Not modelled

Parsers and encoders of message and network data (MIME, verification codes, remote
images, addresses, DNS, DKIM, the contents of update archives), the browser code, the command line
client and lookups in tables have no shared state. Message contents, sizes,
wording of errors and logging matter to no property here. The filter's score is
arithmetic; its verdict is an outcome of `Scan`. The records inside a TLS stream and the steps of an
outgoing connect are one operation of `Listeners`. Saving the certificate paths of a domain (`domain_tls.cpp`) is
one more edit of the configuration file like those of `ConfigEdits`. The Windows takeover of a running launcher needs that system's process handles.
