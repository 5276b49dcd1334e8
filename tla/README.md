# A TLA+ model of registry.xho.st

registry.xho.st is a service that manages nginx reverse proxies. It stores
domains in a database, renders them to nginx configuration files, tests and
reloads nginx, and obtains certificates with certbot. Three pieces of state
have to agree, the rows, the files and what nginx has loaded, and no
transaction spans them. This directory models how the code keeps them together
when commands fail, the disk fails, a commit gets no answer or the container
dies; how requests, imports, forms and migrations change the rows; and how the
page keeps its session.

Paths below are relative to the repository root.

## 1. The system

| Component | Code | State | Operations |
| --- | --- | --- | --- |
| File transaction | `backend/services/file_transaction.py` | snapshots in memory; `.bak` files and `manifest.json` on disk | capture, write_deployment, remove, rollback, commit |
| Nginx driver | `backend/services/nginx.py` | none of its own; nginx's loaded configuration, certbot's lineages | transaction, test, reload, issue_certificate, certificate_expiry |
| Domain service | `backend/services/domain_service.py` | one asyncio lock; rows of the database | create, update, apply, disable, delete, issue certificate |
| Schema | `backend/models/` | domains, server names, routes, deployments, certificates, users | queries; `latest_deployment`, `applied_deployment` |
| Startup importer | `backend/services/config_importer.py`, `backend/templates/` | rows added before one commit | parse enabled files, import those no row knows |
| Supervision | `entrypoint.sh`, `backend/__init__.py` | the two processes of the container | migrate, test, start, stop when one dies |
| Normalization | `backend/functions/normalization.py` | none | payloads to names, ports and routes |
| HTTP pipeline | `backend/utils/middlewares.py`, `backend/routes/` | a database session for each request, the user row, the lock's waiters | check a token, create the user, wait for the lock, map errors to statuses |
| Auth proxy, static files | `backend/routes/auth.py`, `frontend.py` | none | relay, serve |
| Frontend session | `registry/src/store`, `services`, `router` | tokens in memory and local storage, one shared refresh | login, refresh, route guard (`logout` is dispatched nowhere) |
| Frontend views | `registry/src/views`, `components` | page state around asynchronous calls | list, preview, edit |
| Migrations, settings, delivery | `alembic/`, `backend/config`, Docker files | none at run time | |

How they interact. A request passes the HTTP pipeline and calls one operation
of the one `DomainService`, which holds its lock to the end. Apply, disable,
delete and certificate issuance open `Nginx.transaction`: it snapshots every
path of the domain's history (capture), hands the files to the operation, and
on any exception restores them and validates and reloads nginx (recover). The
operation changes files, tests and reloads nginx, runs certbot, and commits
the database last. The importer runs once before requests are served, under
the same lock. certbot's renewal hook reloads nginx from outside at any time.

What is hard here, and what must hold:

- *File transaction*: the disk fails at any call and the process dies between
  any two. The previous files must always be recoverable, and files that are
  not the previous ones must be flagged by the manifest.
- *Domain service and driver*: every step can fail, time out or be cancelled;
  a reload or a commit can take effect and still be reported as failed. Between
  operations files, rows and nginx must agree unless something says they do
  not, an operation that succeeds must repair its domain, the lock must be
  released, and domains must not disturb each other.
- *Certificates*: certbot's effect is not undone by a rollback. nginx must not
  serve names its certificate does not cover.
- *Supervision and importer*: a restart starts from the disk and the database
  as a crash left them.
- *HTTP pipeline*: sessions opened before the lock is held, requests that
  overlap, commits that fail or go unanswered, first requests of one user.
  Changes must be as if made one after the other, each answer must be true, and
  every request must get one.
- *Normalization and the edit form*: partial payloads in several spellings laid
  over a row that others change. A row must be a whole host name or a whole
  proxy, what is not mentioned must stay, and a form must store what it shows.
- *Migrations*: histories of two releases. What is applied must be told from
  the rows. A downgrade followed by an upgrade must give every deployment back
  what it had, and must not make a certificate cover more than it did, although
  the names of the certificates are lost.
- *Frontend session*: overlapping refreshes of one token, reloads in between. A
  token must be sent once, whoever waits must be decided, and a session that
  could be refreshed must not be lost.

`PROJECT.json` lists every component with its status and every hazard with its
line and the properties aimed at it.

## 2. Modules

| Module | What it is |
| --- | --- |
| `AllOrNothing` | what a file transaction promises, in four actions |
| `FileTransaction` | `file_transaction.py`, call by call, with I/O errors and crashes |
| `DomainService` | `domain_service.py` over `nginx.py`: rows, files, nginx, certificates, container |
| `SerialRegistry` | what the README promises of changes: one operation after the other |
| `RequestPipeline` | middlewares, routes and the lock: overlapping requests and their sessions |
| `ConfigImporter` | `config_importer.py` and the templates it reads back |
| `Normalization` | `normalization.py` as operators on a payload and a row |
| `EditForm` | one row, the clients that PUT it and the form of `Edit.vue`; over `Normalization` |
| `FrontendSession` | the store, the interceptor and the route guard |
| `Migration` | the TLS metadata migration between two releases |
| `MC...` | instances for TLC; `MCRegistry`, `MCConfigImporter` and `MCEditForm` choose a scenario in the first state |
| `...Proofs` | the proofs about the module of that name; `DomainFilesProofs` is the second part of `DomainServiceProofs` |

How they fit. `FileTransaction` implements `AllOrNothing`, and `DomainService`
takes from it, in one step, a snapshot and a rollback that restores the files
or says it did not. `RequestPipeline` implements `SerialRegistry`: what its
overlapping sessions do to the rows are single operations, which is the grain
at which `DomainService` and `ConfigImporter` have create, update and delete.
`ConfigImporter` opens up `Import` and `Started` of `DomainService`. `EditForm`
is built on `Normalization`, whose results are the payloads of `DomainService`.

### FileTransaction

`fs`, `backup` and `manifest` are the disk and survive a crash; `declared`,
`snapshots`, `todo`, `relinking`, `job` and `errors` are the object's memory;
`orig` and `outcome` are what the caller had and got. A path holds nothing, a
plain file with its mode, a symbolic link, or something that is no file.

| Code | Action |
| --- | --- |
| constructor | `Open` (paths outside the directories are refused) |
| `capture` | `CaptureOne`, `WritePending`, `CaptureFails` |
| `write_deployment` and `atomic_write` | `WriteDeployment`, then `WriteNext` for the available and the enabled path |
| `remove` | `Remove` |
| the body returns or raises | `BodyReturns`, `BodyRaises` |
| `rollback` | `RestoreEntry`; `UnlinkForLink` and `MakeLink` for links; `RestoreFails`; `FinishRollback`, `FinishRollbackUnrecorded` |
| `commit` | `Commit`, `CommitUnrecorded` (its OSError is only logged) |
| the process dies | `Crash` |

An `OSError` can hit any call: inside the body it is `BodyRaises`, which may
come between the two writes of one `write_deployment`. Every path is visited
once by capture and by rollback, in any order, which is more than the order of
a dict. Left out: temporary files (`atomic_write` renames or leaves nothing
behind), `fsync`, the names of backups. A file replaced by anyone else during
the transaction is outside the model, as it is outside the code.

### DomainService

`db` has a row for each domain: its payload, enabled, status, the deployment
history and its active certificates. `files` maps each available and enabled
path to the text it holds, `running` is what nginx loaded, `lineage` what each
certificate on disk covers. `op` is the operation that holds the lock: its
kind, where it is, the paths left to change, the captured files, whether an
issuance is at its TLS deployment, the cause of a failure and whether recovery
failed. `phase` is the container. `flagged` says that some finished transaction
left a pending or rollback_failed manifest. `alarm` is a history variable: the
kinds of incident so far.

| Code | Action |
| --- | --- |
| `create_domain`, `update_domain` | one action each: under the lock they touch the database only |
| `apply_domain`, `disable_domain`, `delete`, `issue_certificate` up to the transaction | `ApplyDomain`, `DisableDomain`, `Delete`, `IssueCertificate` |
| capture | `Capture`, `CaptureFails` |
| `write_deployment`, `remove_obsolete` | `ChangeFile`, path by path, the available file before the enabled one and removals last; `ChangeFails` |
| `validate_reload` | `Test`, `Reload`, `WaitFails`, `ReloadFails` (killed after it took effect) |
| certbot, `certificate_expiry`, the second deployment | `Certbot`, `CertbotKilled`, `Expiry` |
| `session.commit`, `files.commit` | `Commit`, `CommitUnknown` |
| recover() | `Rollback`, `RollbackFails`, `Retest`, `Rereload`, `RecoverFails` |
| `record_apply_failure` and its like | `Record`, `RecordFails` |
| `entrypoint.sh` | `Crash`, `Restart` |
| `import_current_configs` | `Import`, `Started` |
| `certbot renew --deploy-hook` | `ExternalReload` |
| a certificate passes `expires_at` | `CertificateExpires` |

`Valid` is `nginx -t`, an external program: it reads every enabled file, and
refuses a file it cannot use, a missing certificate, and two streams on one
port. A payload carries whether nginx accepts it (`valid`), so a domain can be
broken and repaired by an update.

From `FileTransaction` this module takes in one step what was checked and
proved there: a snapshot, and a rollback that either restores the files or says
that it did not, leaving some of the paths (`Mix`).

Abstractions worth knowing when reading it against the code:

- A text is its payload, whether it has TLS and its certificate name. Upstreams
  appear only as `valid`.
- Paths are a directory pair chosen by the type and a name chosen by the name.
- The deployment history is never empty: create, import and issuance always
  leave one, so the branch of `apply_domain` that builds a missing one is out.
- Certificate rows of any status but ACTIVE never take part in a decision and
  are not kept; those without `server_names` are in `Migration`.
- Reserved ports (80, 443, the service's own) are payloads that never occur.
- An empty `NGINX_RELOAD_COMMAND` is not modelled.
- A commit that fails with nothing written is `WaitFails` at "commit"; one
  that was written but not answered is `CommitUnknown`.
- A second cancellation during recovery, which only a shutdown sends, is the
  `Crash` that may strike at every step of recovery.
- One API process, as the README of the repository requires.

### SerialRegistry and RequestPipeline

A row is its listen port, the one resource no unique constraint protects, and
its deployments. `req` holds where each request is, its user, what it asks and
its session: the snapshot its statements see, if any, and the row it has
loaded. `queue` is the asyncio lock with its waiters in order; `users` the
table of users. `Snapshot` says which kind of database it is.

| Code | Action |
| --- | --- |
| a request arrives | `Receive` |
| `jwt_middleware` | `TokenVerified`, `TokenRefused`; `GetUser`, `SaveUser`, `SaveUserFails` (another request has inserted the row) |
| `get_domain` | `ReadDomain`, without the lock |
| `payload()` | `BadPayload`, before the lock |
| `serialized` | `Enqueue`; `Holds` and `Release` are the `async with` |
| `find`, `check_conflicts`, a ValueError | `Reject` |
| the operation's reads | `Load` |
| flush and commit | `Commit` (`Flushed` writes the columns the session changed) |
| a commit that fails or is not answered | `CommitFails`, with or without effect (`MaybeCommitted`); answered 500, or 502 where `transaction` makes an `NginxOperationError` of an `OSError` or of a recovery that fails too |
| a failing apply or delete | `NginxFails`, with `record_apply_failure` |
| the same over a row that is gone | `CommitStale`, `NginxFailsStale`, only where snapshots are read |

Disable and certificate issuance hold the lock as apply does and are in
`DomainService`. The bound `Admitted` keeps ids and histories finite.

### ConfigImporter

`files` are the enabled directories, `read` what the import has read of them,
`rows` the committed rows and `pending` the rows as the import's session sees
them. A row has the rule, path and text of its newest deployment, the paths of
all its deployments, the certificate of the applied one and its active
certificates. A text is the sequence of its server blocks, a block what the
patterns of the importer find in it. A port and its protocol are apart: the
template writes `udp` out and leaves tcp unsaid.

| Code | Definition |
| --- | --- |
| `parse_http_file`, `parse_stream_file` | `Simple`, `ParseHttp`, `ParseStream` |
| the two templates | `Render` |
| `parse_current_configs` | `StartImport` |
| `upsert_config`, `check_conflicts`, one savepoint | `ImportFile` over `Importable`, `Known`, `Clash` |
| `build_deployment`, `build_certificate` | `Imported`, `Certified` |
| the commit | `CommitImport`; `ImportLost` when it fails or the process ends (SQLite commits released savepoints, so what was imported may stay) |
| `create_domain`, `update_domain`, `apply_domain`, `issue_certificate`, `delete` | what they leave in rows and enabled files when they succeed, one action each |
| `payload_from_domain` | `Spellings`: the server names of a row are read in no order |
| the operator, `disable_domain` | `EditFile` |

### Normalization and EditForm

A payload is a function on the keys it mentions, with `route` and `domain`
inside it. `TypeOf`, `NameOf`, `NamesOf`, `SchemeOf`, `ProtocolOf`, `PortOf`
and `ListenOf` are the helpers of `normalize_payload`, `Normalize` the row it
returns or `Refused`. Host name syntax is three parameters that normalize a
string or refuse it. `EditForm` adds POST, PUT and DELETE of other clients and
the form: `Open` is `fetchDomain`, `ChooseType`, `ChooseScheme` and `Edit` its
computed inputs, `BuildPayload` and `Submit` its PUT.

### FrontendSession

The auth service issues tokens in numbered pairs and exchanges a refresh token
once. `pair` is what the store holds, `stored` what localStorage does, `calls`
what is on its way to and from `/refresh`, `refreshing` the caller whose
refresh the interceptor shares, `auth` whether /auth has been shown since the
page was loaded. The router shows /auth whenever the access token is not valid,
with a pair that could be refreshed and with refreshes under way as well, and a
login sent from there may be answered much later. So `Login` asks for nothing
but that /auth was shown. The pair it brings is issued in the same step, since
nobody else can know it before.

| Code | Action |
| --- | --- |
| request interceptor | `Send` |
| `router.beforeEach` | `Navigate` |
| the auth service behind `proxy_auth` | `Exchange`, `RefuseToken`, `Unavailable` |
| `setTokens` or `clearSession`, then those who await the promise | `Deliver` |
| `router.beforeEach` for /auth; `login` | `ShowAuth`; `Login` |
| a page load; a later call; tokens growing old | `Reload`, `Again`, `Time` |

### Migration

`rows` are the deployments in the order of their ids, `version` the release of
the schema, `names` the names of each domain's row, `certs` what
`domain_certificates.server_names` says of the active certificate a domain has
under a name. `Upgrade` and `Downgrade` are the migration: the TLS columns of
the deployments, their statuses (`Upgraded`, `Downgraded`), and the column of
the certificates (`NamesAdded`, `NamesDropped`). `InsertOld`, `Draft`,
`Imported`, `Issue`, `Apply`, `Fail` and `Expire` are what happens in between;
`Covers` is `certificate_covers`, with its way out for a certificate without
names. The previous release is known from its schema only.

## 3. Properties and runs

| Run | Instance | Checks |
| --- | --- | --- |
| file_transaction | two configuration paths and one outside, two texts, two modes, three calls | `TypeOK`, `OriginalOnDisk`, `DamageIsFlagged`, `FailureLeavesNoTrace`, `ModeKept`, `AbstractSpec` |
| registry | five scenarios of `DomainService`, below | `TypeOK`, `UnflaggedFilesFollowDatabase`, `NginxFollowsFiles`, `HistoryAgreesWithRow`, `DomainsDisjoint`, `TlsCovered`, `StartsUnlessFlagged`, `SuccessHeals`, `OthersUndisturbed` |
| lock | one hostname broken and repaired, one kind of incident, fairness | `LockReleased`, `CleanRestartRecovers` |
| serial | two requests, two ids, two ports, no snapshots, fairness | `TypeOK`, `WaitersAreQueued`, `PortsDisjoint`, `HistoryAgrees`, `SerialSpec`, `AnswersAreTrue`, `Answered` |
| import | three scenarios of `ConfigImporter`, below | `TypeOK`, `RowsDisjoint`, `ImportIsComplete`, `ReadsBack`, `NotOverwritten` |
| form | two scenarios of `EditForm`, below | `RowIsOfItsType`, `FormStoresWhatItShows`, `PartialUpdates` |
| session | two requests, one navigation, three pairs, fairness | `TypeOK`, `NobodyWaitsInVain`, `RefreshedOnce`, `WaitersAreDecided`, `SessionIsKept` |
| migration | two domains, two names, two certificates, three deployments | `TypeOK`, `HistoryIsUnambiguous`, `RoundTrip` |
| aliases, issuance, stale, guard | see section 4 | one violated property each |

### Bounds

*file_transaction*: `MaxCalls = 3` is enough to write both files, remove one
and write again. Symmetry in paths and in texts.

*registry*: the first state chooses one of the scenarios of `MCRegistry`: a
stream that changes name and upstream, with one kind of incident; the same
without the rename, with two; one hostname with and without an alias, three
deployments and no incident; the same with two deployments and one incident;
two domains, one of each type, that compete for names, paths and a port.
`MaxDeployments` bounds a history: two are enough for an applied deployment and
a draft with another payload, three for a superseded one. `MaxIncidents`
bounds the number of different kinds of incident in one behaviour (a kind may
repeat): an unflagged disagreement needs one, repair of the damage of a second
needs two. Ordinary failures, a command refused or timed out, a cancelled
request, a full disk that rolls back cleanly, are no incidents and are never
bounded. Symmetry in domains, which differ in nothing but their id.

*serial* and *stale*: `Contention` has both ids want both ports, one applied,
deleted and updated without a port, and one read. An id is given once and two
deployments are kept. Two overlapping requests are what a lost update needs.

*import*: two sites with and without TLS, of the templates and of an operator
(two names, a wildcard), one of which may be renamed to the other's name; two
proxies, one of whose names differs from its file's, on one port for tcp and
udp, with a reserved port; a row the database refuses, beside a file of two
rules. A file is met as it was left at any start. Two names are enough for an
order that differs from the payload's.

*form*: "clients" sends every payload of one field, and pairs of fields that may
disturb each other, in each place and spelling, with ports at 0, 65535 and
65536; "form" edits in any order a form that was opened on any row, while four
payloads of other clients change the row. `MaxNames = 2`.

*session*: `MaxPairs = 3`: one pair that expires, one a refresh brings, and one
after a login.

*migration*: three rows are enough for two drafts of one domain after an
applied deployment and for one domain beside another; two names for a
certificate that covers one of them. Domains, names and certificates are
interchangeable, so all three are symmetric. `Comments` has only the empty one
here.

Deadlock is not checked where the system may stop for good: a container whose
configuration nginx refuses, and a file transaction that is finished.

### Fairness

- *lock*: weak fairness of the operation's own steps (every command has a
  timeout, `run_command` kills and reaps it, and the rest is synchronous or a
  database call that returns), of `Restart` (the container's restart policy)
  and of `Started`. None of requests, crashes, the outcome of a command or the
  hook.
- *serial*: weak fairness of each request's steps: the event loop runs every
  task that can go on, and the lock of asyncio wakes its waiters in order.
- *session*: weak fairness of the answer to each call, since the proxy answers
  within 20 seconds if only with 502 or 503, and of its delivery by the page's
  event loop.

### What the properties say

- `OriginalOnDisk`, `DamageIsFlagged`, `FailureLeavesNoTrace`, `ModeKept`: what
  was there can be rebuilt from manifest and backups at every instant, damage is
  flagged, a failure without rollback_failed changed nothing, and permission
  bits survive. `AbstractSpec` is the refinement of `AllOrNothing`: the
  contents that can be recovered from the disk change only with "ok".
- `UnflaggedFilesFollowDatabase`: between operations the files are those of
  the applied deployments of enabled domains and no others, or a manifest says
  pending or rollback_failed, or a commit went unanswered.
- `NginxFollowsFiles`: nginx runs the enabled files, unless recovery failed.
- `SuccessHeals`: an operation that succeeds leaves its domain right on disk
  and in nginx whatever went wrong before.
- `HistoryAgreesWithRow`, `DomainsDisjoint`: the history and ownership
  invariants the operations rest on.
- `OthersUndisturbed`: an operation on one domain never changes what nginx
  runs for another, reloads from outside included.
- `TlsCovered`: the certificate on disk covers every name nginx serves with it.
- `StartsUnlessFlagged`: what a stopped container would start with passes
  `nginx -t`, or a manifest tells of the transaction that left it.
- `LockReleased`, `CleanRestartRecovers`: the lock is always released; a
  container that died between operations starts again.
- `SerialSpec`: overlapping requests change the rows as operations made one
  after the other; `PortsDisjoint` and `HistoryAgrees` are what those keep.
  `AnswersAreTrue`: success says that the operation was made, as a whole; 500
  and 502 leave open whether it was, but nothing else has changed than the
  record of a failed apply; any other answer says that no row has.
  `WaitersAreQueued`: a change has one place in the queue of the lock until it
  has ended, and none afterwards. `Answered`: every request is.
- `RowsDisjoint`, `NotOverwritten`: no import makes two rows share a name, a
  port of one protocol or a file of any deployment, or touches a row that is
  there, however often it is lost half-way. `ImportIsComplete`: a file that
  fails does not keep others out. `ReadsBack`: what the templates write the
  importer reads as the same names, port, protocol, upstream and TLS. It does
  not promise the row's name: after a rename that keeps the old name as an
  alias, an issuance may render the old name first, and an import into an empty
  database would call the row so.
- `RowIsOfItsType`, `PartialUpdates`, `FormStoresWhatItShows`: see section 1.
- `RefreshedOnce`, `NobodyWaitsInVain`, `WaitersAreDecided`, `SessionIsKept`:
  requests share one refresh, whoever waits has an answer coming and is decided,
  and the session outlives reloads, logins and refreshes unless an answer says
  the service is unavailable or belongs to another pair. The last case is real:
  the answer of a refresh that was under way when a login was answered.
- `HistoryIsUnambiguous`, `RoundTrip`: at most one applied deployment, newer
  than what it superseded, whichever release wrote it; downgrade and upgrade
  restore what the columns and statuses of the deployments said. They do not
  restore the names of the certificates: the downgrade drops the column and the
  upgrade adds it empty, so that `certificate_covers` goes by the applied text.
  A draft that was covered may need a new certificate then; `RoundTrip` says
  that none is covered which was not.

## 4. Where the documentation and the code differ

1. *aliases*. `README.md:104` says occupied aliases are checked. They are
   checked against rows, and an update changes rows before it is applied: an
   alias dropped by a draft is free for a second domain while nginx still
   serves it for the first.
2. *issuance*. `README.md:110` says a failed certbot or TLS apply restores the
   previous configuration. Files come back, but certbot has replaced the
   certificate in place; a reissue for fewer names that fails afterwards
   leaves the old configuration served with a certificate that lacks a name.
3. *stale*. `README.md:88` says all changes are serialized. The user lookup
   opens the session's transaction before the lock is held. On a database that
   reads from the snapshot of the first statement (MySQL's repeatable read),
   the checks under the lock see the rows from before the operation it waited
   for, and two rows get one listen port. `PipelineIsSerial` proves that
   nothing of the kind happens without snapshots.
4. *guard*. `registry/tests/auth.test.cjs:49` says login and refresh preserve
   rotated tokens. The route guard dispatches a refresh beside the one the
   interceptor shares: both send one refresh token, and the refusal of the
   second clears the session the first has just renewed. The run leaves out
   logins answered while a refresh is under way (`QuietSpec`), so that the guard
   alone is to blame; `RequestsPreserveTokens` proves that requests alone do not
   lose it.

Further differences seen while modelling, shown by no run:

- /auth can be opened while a refresh is under way (`router/index.js:59`). Its
  answer, arriving after the login's, sets or clears the tokens the login
  brought. `SessionIsKept` says that this is the only other way to lose them.
- `models/domains.py:28` has no `order_by`, so a certificate's text may name the
  server names in another order than the draft did (`domain_service.py:295`).
- A crash inside an operation may leave an enabled file that was written and
  never tested. If nginx refuses it, `nginx -t` under `set -e` ends every start
  (`entrypoint.sh:5`), where the comment in line 19 trusts in the restart
  policy. `README.md:99` says that recovery after a crash is not automatic.
  `CleanRestartRecovers` is therefore stated of crashes between operations, and
  `StartsUnlessFlagged` says that otherwise some manifest tells of it.
- Two first requests of one user both insert the user's row; the second is
  answered 409 `domain_or_route_conflict`, also a GET (`middlewares.py:81`;
  `SaveUserFails`).
- An imported certificate row takes its names from the file, not from the
  certificate (`config_importer.py:173`), while `README.md:124` says that
  certificate metadata is read.
- The comment at `normalization.py:62` says an explicit type change resets the
  old stream scheme. It does for the key `type`; spelled `proxy_type` or
  `domain.type` the update is refused with `invalid_upstream_scheme`.
- The backfill of migration 7c102e936fe1 reads comments of imported files as
  directives, which the importer strips: "# listen 443 ssl;" makes a plain
  deployment a TLS one. `MigrationsRoundTrip` is proved without such comments.

## 5. Proofs

TLAPS proves the following for every value of the constants; they rest on the
named assumptions of the modules (paths, rows and modes distinct from the
markers for "nothing", payloads of their type, a host name among its own server
names, as `normalize_payload` puts it) and on nothing else.

`FileTransactionProofs`: `TypeCorrect`, `OriginalRecoverable`,
`DamageFlagged`, `FailureRestores`, `ModesKept`, and `Refinement`
(FileTransaction implements AllOrNothing). `OriginalOnDisk` alone is not
inductive. The invariant `IInv` adds that

- before the manifest exists nothing has been changed (`Untouched`);
- from then on manifest and memory agree and every declared path is recorded,
  with a snapshot that restores what was there (`Recorded`);
- during rollback, what is no longer to do is restored or an error is noted
  (`Unwinding`);
- what the caller was told matches manifest and files (`Reported`).

`IInvStep` has one step per action. For the refinement, a lemma says that the
recoverable contents are the original ones until "ok", so each step is one of
the abstract actions or a stutter.

`DomainServiceProofs`: `ServiceTypeCorrect`, `HistoryAgrees`, `Disjoint`,
`NginxFollows`. The type of a row is not inductive: applying marks the last
deployment, so histories must never be empty, and a commit or a failure record
writes to the row of an operation, so that row must still be there. `IInv`
adds the shape of each row (`RowOK`) and of the operation (`OpOK`). Lemmas say
what each operator does to a history (`AppendDraft`, `ApplyNewest`,
`FailNewest`, `SameHistory`) and that a row which fits beside the others can be
written (`RowWritten`). `NginxFollows` uses a second invariant,
`RunningFilesAt`, on the points of an operation at which nginx must run the
enabled files.

`DomainFilesProofs` relates files, rows, nginx and certificates. Its base is
`FilesInv`, which adds to `IInv`

- that a crash or a failed rollback is flagged (`Flags`), and which operations
  may be where (`Shape`);
- how far the body of a transaction has come, whatever went wrong before it: a
  path of the domain is still to be changed or as the operation wants it
  (`Written`, `Body`);
- that paths of other domains are as in the snapshot (`Untouched`);
- while nothing has happened that exempts the property, that rows and files
  agree outside the body, and rows and snapshot in it (`Following`).

On it rest six theorems:

- `FilesFollowDatabase`. The step that needs the most is the commit: a row whose
  newest deployment is marked applied asks for exactly what the body has written
  (`CommittedFollowed`), and for the other rows their paths are disjoint
  (`DomainsDisjoint`). The importer then finds nothing to adopt, since every
  file belongs to a row (`NothingToImport`).
- `SuccessAlwaysHeals`. `Written` holds without exemption, so the committed row
  finds its files (`CommitHeals`); `ReloadedInBody` adds that nginx has loaded
  them by then, and `EndsByCommit` that nothing else ends an operation there.
- `OthersAreUndisturbed`. While nothing has gone wrong, what nginx runs
  elsewhere is what the files hold there (`Elsewhere`), and the holder of the
  lock still has its row (`There`). A reload can then only change paths of its
  history, and those are nobody else's.
- `StartsUnlessFlaggedHolds`. Whether nginx accepts a set of files depends on
  them and on which certificates there are, and none is ever removed
  (`LineageGrows`, since a host name is one of its server names).
  `FilesValid` follows the operation: what it has tested passes until it
  ends, and what it would go back to (`Origin`) passes all along, unless a
  crash or a failed rollback has been flagged.
- `TlsIsCovered`. `Certified` joins four invariants: an issuance is for a host
  name (`Issuing`), certbot's certificate covers the names of its row
  (`Issued`), an apply writes a certificate that covers them (`Applying`), and
  so does the one of every certificate row and every applied TLS text
  (`Backing`). Because certbot replaces a lineage in place before the commit,
  `Backing` excepts the one it has just written (`Fresh`) until then. What nginx
  runs is covered because it runs the files and the files follow the rows.
- `OperationsEnd`, the part of `LockReleased` that is not liveness: the stages of
  an operation only rise, and within one its files to change only get fewer.

`RequestPipelineProofs`: `RequestTypeCorrect` for both kinds of database; and,
without snapshots, `PipelineIsSerial` (RequestPipeline implements
SerialRegistry), `PipelinePortsDisjoint` and `PipelineHistoryAgrees`, which
follow from the refinement and `SerialKeepsInv`, and `PipelineAnswersAreTrue`.
The argument: the row an operation has loaded stays the committed one until it
commits, since only the head of the queue commits, so the flush of its changes
writes the row the operation makes. An answer of 500 or 502 after a commit
comes with that row, with the record of its failure, or with neither.
`LockPassesOn`, and `SnapshotLockPassesOn`
for sessions with snapshots, say of the queue that a request joins it at the
end, leaves it from the front or does neither (`QueueMoves`), which keeps every
waiter in it once and nobody else (`QueueStep`).

`ConfigImporterProofs`: `RoundTrip` (parsing what the templates render of any
rule gives it back, but for a proxy's name), `TypeInvariant`,
`RowsStayDisjoint`, `RowsReadBack`, `ImportOverwritesNothing`,
`ImportLeavesNothing`. The session of an import only adds rows to the committed
ones, each disjoint from those before it, and what was refused once is refused
later, since rows only come to be known and to clash. An update and an issuance
are a removal (`RemoveRow`) and an addition (`AddRow`) of a row; that any order
of names is a rule again (`SpellingFacts`) is what an issuance needs.

`EditFormProofs`: `RowKeepsItsType`, `UpdatesArePartial`, `FormStores`, from an
invariant that relates the form's fields to its type.

`MigrationProofs`: `TypeInvariant`, `HistoryStaysUnambiguous`, and
`MigrationsRoundTrip` where no comment looks like a directive. The invariant
adds that a superseded deployment is followed by one that was applied later,
which is what the upgrade finds again after a downgrade. `CoverInv` adds that
the text applied under a certificate whose names are recorded lists no other
name (`AppliedIsNamed`), which is why going by the text covers no more.

`FrontendSessionProofs`: `SessionTypeCorrect`, `RequestsRefreshOnce`,
`SessionSurvives`, `WaitersAreServed`, and `RequestsPreserveTokens` where nobody
navigates and no refresh is under way when a login is answered (`QuietSpec`). The invariant says that a request's call is the shared one, and that
the token of a call that was exchanged or refused is good no more. For
`WaitersAreServed`, `ServedInv` adds that the shared refresh is a call under way
until its delivery, which also ends all waiting for it.

Only model-checked are the liveness properties, because liveness under fairness
and ENABLED are beyond the prover. What they rest on is proved: for
`LockReleased`, that an operation cannot go round in circles (`OperationsEnd`);
for `CleanRestartRecovers`, that the files at a start pass `nginx -t`
(`StartsUnlessFlaggedHolds`);
for `Answered`, that the lock is passed on (`LockPassesOn`); for
`WaitersAreDecided`, that whoever waits has an answer coming
(`WaitersAreServed`).

## 6. Not modelled

- Serving the static frontend, relaying `/auth`: decisions on one request,
  without state. The relay's answers are in `FrontendSession`.
- Settings, image build, deployment scripts: constants of a run of the service.
- Signals, the `cleanup` trap and the poll of `entrypoint.sh`: they end in the
  same restart as a death.
- Several tabs of a browser: they share localStorage, the store never listens
  to it, and nothing is promised between them.
- A GET that reads rows and relations by several statements may mix two
  commits; no decision rests on what it shows.
- The branch of `apply_domain` for a row without deployments: no operation
  leaves one.
- The syntax of host names, and the tokenizing of nginx text into blocks and
  directives: parameters and inputs of `Normalization` and `ConfigImporter`.
- The views Index, Preview and Auth: each shows one answer or starts one
  operation, with no state of their own to relate.
- Migrations before 7c102e936fe1, which only create tables.
- More than one API process, which the repository's README excludes.
