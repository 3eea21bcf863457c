# A TLA+ model of the achievement system's back end

The program is a Rust web service (actix-web, sqlx, tokio) in front of
PostgreSQL, Redis and an S3 store. Most of its handlers are one SQL statement;
its hard parts are where a request or a background task works on several of
these stores, or on one of them in several statements, with other requests and
other processes in between. These parts are modelled here, model-checked with
TLC, and their safety is proved with TLAPS. Line numbers of the modelled code are in
`PROJECT.json` under "map"; paths below are relative to the repository's `src/`.

## 1. Inventory

| Part | State it keeps | Operations | What is hard | What makes it correct |
|---|---|---|---|---|
| Task outbox (`tasks/dispatcher.rs`, `manager.rs`, `handler/default_handler.rs`, `periodic/outbox_pull.rs`, `startup.rs`) | table `task_outbox`; per process a bounded channel, a worker with handlers in flight, the pull task, the recovery | submit, immediate enqueue, pump, requeue, reclaim, recover, execute, settle, shut down | several claimants of one row, in several processes; a permit held over an await; crashes, cancelled futures, lost answers; a running timeout racing a live handler | a row is claimed once, its slot comes back, its command is executed until it succeeds or is dead, and is never lost |
| Delete command (`tasks/handler/command/`, `command_runner.rs`, `utils/s3_storage.rs`) | keys still to delete, retry counter, backoff | delete a chunk, classify failures, retry, give up | mixed partial failures, a lost report, repeated execution | success and death account for all keys; the retry ladder fits the running timeout and ends |
| Archive records and files (`modules/archive`) | `archive_record`, `sys_file`, objects under `temp/` and `archive/`, the upload session in Redis | create, compensate, delete | two stores without a common transaction; failures after each step; the same upload used twice | a committed file has its object; what is condemned belongs to no record; requests end |
| Avatars (`modules/user`, `modules/admin/user`) | `sys_user.avatar_key`, objects under `avatar/` | upload, save, delete the user | one key for all avatars of a user | a saved avatar has its object |
| Orphan cleanup (`tasks/periodic/s3_cleanup.rs`) | advisory lock, list of old keys | list, compare, delete, unlock | check and act on two stores, racing the two parts above | it deletes orphans only, and all of them in the end |
| Templates and schema cache (`modules/admin/template`, `utils/schema.rs`) | `sys_template`, one cached schema per process and template | update, delete, toggle; validate a record | check then act; a read put into the cache after an await | a record has its template and matches its schema |
| Upload sessions (`modules/archive/service.rs`, Redis) | owner, remaining quota per field and expiry, in a key of Redis | init, take quota (a Lua script), presign, delete | overlapping requests take quota before the file is checked, and prolong the session; the template changes between validation and storing | quota is given once; a session ends; the files of a record are the ones its data name |
| File field definitions (`domain/schema.rs`) | part of a template's JSON schema | write definitions into a schema, read them back | quotas zero and one, repeated definitions, fields the schema had before | what is read back is what was defined |
| Record queries (`modules/archive`, `common/pagination.rs`, `utils/schema.rs`) | none of their own; they fill the schema cache | COUNT, SELECT a page | two statements; rows come and go between pages | a reader misses or repeats a record only when others interfere |
| Access rules (`middleware/auth.rs`, `modules/admin/api_rule`) | `sys_access_rule`, JWT claims | grant, revoke, check, list | conflict check and upsert are two statements; four queries must agree on what a rule covers | a refused grant adds nothing; listing and checking agree |
| Accounts (`modules/admin/user`, `modules/auth`, `startup.rs`) | `sys_user` | register, disable, delete, change password, bootstrap | accounts acting on each other; two processes bootstrapping | the table is emptied only by accounts that delete each other |
| Lists of users, templates and rules, configuration, responses, API docs, deployment scripts | none of their own | read, format | nothing a model checker reaches | tested |

The parts interact as follows. The create and delete handlers submit delete
commands to the outbox; the worker executes them against S3. The cleanup is the
net under both: it removes what no handler and no command removed. Creating a
record first validates it with the cached schema of its template. Everything is
shared by all server processes through PostgreSQL, Redis and S3, except the
channel, the worker and the schema cache, of which each process has its own.

## 2. Modules

| Module | Models | Kind |
|---|---|---|
| `TaskOutbox` | the outbox, all processes | component |
| `TaskLedger` | what the outbox promises, without processes, queues or clocks | abstract specification |
| `DeleteCommand` | one delete command from first attempt to end, executed again or not | component |
| `ArchiveLedger` | what the archive promises of records and their files, without sessions, transactions or an object store | abstract specification |
| `ArchiveStore` | records, files, avatars, their requests, the commands they leave and the cleanup | composition: its `RunCommand` stands for `TaskOutbox` and `DeleteCommand` |
| `TemplateCache` | one template, its records, the caches of all processes | component |
| `RecordQuery` | a client reading the records page by page, beside everything `TemplateCache` does | composition |
| `FileFields` | file field definitions, the files that data name, store, compensate and show | operators |
| `UploadSession` | sessions, presign requests and creates, over `FileFields` | component |
| `AccessControl` | accounts, access rules, the middleware and the administrative requests | component |
| `MC*` | TLC instances with their symmetry | |
| `TaskOutboxProofs`, `TaskClaimProofs`, `LedgerProofs` | theorems about `TaskOutbox`; the last holds the refinement of `TaskLedger` | proofs |
| `DeleteProofs` | theorems about `DeleteCommand` | proofs |
| `ArchiveProofs` | theorems about `ArchiveStore`, with the refinement of `ArchiveLedger` | proofs |
| `AccessProofs` | theorems about `AccessControl` | proofs |
| `TemplateProofs` | theorems about `RecordQuery`, and with it `TemplateCache` | proofs |
| `UploadProofs` | theorems about `UploadSession` and the operators of `FileFields` | proofs |

One step of a model is one SQL statement, one S3 or Redis request, or one
operation on shared memory: what lies between two awaits. A handler is a small
program counter (`enq[n][c].pc`, `create[r].pc`, `clean[n].pc`, ...) that moves
through these steps; error branches of the code are disjuncts of the action.
Every action that can fail because a store does not answer takes a `Fault`, and
`MaxFaults` bounds them; where the effect may have taken place although the
answer was lost, both outcomes are allowed.

**TaskOutbox.** `row[t]` is a row of the table, with time reduced to "due"
(`next_retry_at <= NOW()`) and "stale" (`updated_at` older than the running
timeout). `permits`, `queue` and `chan` are the tokio channel; a permit is taken
by `TryReserveSlot`, held while `MarkRunning` is awaited, and used by `Send` or
returned. `CancelSubmit` is the future dropped at an await: the limit of one
second around the compensation in `create_archive_record_handler`, or a client
that goes away. `PullTick`..`PumpRequeue` are the interval task, `Start`..
`RecoverNext` the start-up, during which worker and pump already run;
`StopSignal`..`ProcessExit` the ordered shutdown, which drops what is queued,
and `Crash` everything else. A process without a worker closes its channel
(`close_command_channel`): it only writes rows. `Foreign` rows are those whose
payload does not decode. `AllowLate` says whether a claim may outlive the running
timeout (300 s): the retry ladder of a command sleeps at most 181 s, but the
time of its S3 requests and the time a command waits in the queue have no bound
in the code.

**DeleteCommand.** Failures are abstracted to the verdict of
`is_retryable_delete_object_failure` and `classify_delete_archive_error`. Chunks
are answered one by one; a failed request loses the reports of earlier chunks.
`dropped` remembers the objects a mixed failure leaves behind when only the
retryable keys go into the next attempt. `refused` holds keys as S3 reports them: a
failure without a key is `Unknown`, the code's `"<unknown>"`, and the object behind it
is only in the history `unnamed`, as the code cannot tell which one it is.

**ArchiveStore.** A key is a pair of record and file, or a user. Objects are
absent, fresh or old (older than the cleanup's minimum age). `record[r]` is
"open" while the transaction of the create runs; `fileRow` is `sys_file` with its
primary key `file_id`, whose uniqueness makes a second transaction wait
(`Waits`), fail or be chosen as the victim of a deadlock. A copy whose answer is
an error may have happened, or happen later (`landing`, `LateCopy`). With
`AllowSlow = FALSE` a request ends within the minimum age of the cleanup (24 h by
default), which is what the code relies on. `CanGoOn` gives the points at which
a create has a step without a fault, and `Waits` those at which it waits for another's INSERT. `Archive` maps all
this to `ArchiveLedger`: a record is present when it is committed, and a file can be
read in it when its row is there and its object too; the transaction, the copies one by
one, compensations, commands and cleanups are not to be seen.

**TemplateCache.** A schema is its version. The create handler loads the context
twice, before validating and before it looks for file fields. `Restricts` is
the foreign key with ON DELETE RESTRICT, which makes the DELETE wait for open
transactions that inserted a record.

**RecordQuery.** Adds one client to `TemplateCache`: `walk` is its place in the
pages and its current query, which looks up the schema as a create does
(`QueryLookup`..`QueryInsertIntoCache`), counts (`CountRecords`) and selects
(`SelectPage`). `rank` is the sort order, any order without ties; `Place`,
`Offset` and `TotalPages` are the arithmetic of the pages. `Watch` records, as
history, what other requests do to the table during the walk. The data of a
record never change, so a filter selects the same records in both statements and
only the records that pass it are there.

**FileFields.** A property of a schema is the handful of keys the code looks at,
a JSON value its kind and its strings, a string a file id or `Junk`. `IntoSchema`
writes a definition, `FileConfigs` reads all of them; `WithFiles` writes a list of definitions one after the other. `Stored` is what
`create_files_record` copies, `Collected` what the compensation lists and what a query
tries to show. `Conforms` stands for the compiled JSON schema, which is a
library's.

**UploadSession.** `session[s]` is the Redis key with its remaining time,
`presign[p]` a request between the script and its answer, `url` the addresses
given out, `temp` what was uploaded. `Answer` and `AfterScript` are the Lua script: what
it answers and what it writes. A request that fails or is dropped after
the script does not give its unit back (`lost`, history). A create validates
(`ValidateInstance`), loads the context again and inserts its record
(`CreateArchiveRecord`), looks for the session, copies and inserts the files,
commits and deletes the session, each with its error. `UpdateTemplate` may change the
context at any time, because the check for records does not prevent it and because
processes may answer from caches of different age (findings 3 and 4 below). The
order of copies and inserts and the compensation itself are in `ArchiveStore`.

**AccessControl.** A path is the sequence of its segments, a rule covers what
extends its pattern, and `expires` counts clock ticks with `Never` for NULL. The
condition of each query is an operator: `RuleAllows` (the middleware),
`Conflicts` (a grant's check), `Listed` (a user's routes) and `Lacking` (routes
still to be granted). `_` is a wildcard to the LIKE of the first two and a letter to
the `starts_with` of the others; no two registered routes differ only there, so
the model leaves it out. `request[r]` passes `CheckUserEnabled`,
`CheckUserRole` and its handler as separate statements; a grant has two
(`CheckApiRuleConflict`, `GrantRule`). `Bootstrap` is the start-up on an
empty table: servers that start together all find it empty, and each may insert an
administrator of its own; this is how the system begins (`Init`), and how it
begins again (`Restart`). `seen` is history. Rules granted to
administrators are left out: the middleware never reads them.

## 3. Runs

| Run | Instance | Checks |
|---|---|---|
| `outbox_claims` | 2 processes with worker, 2 rows, queue of 1, 1 fault | `TypeOK`, `PermitConservation`, `ExclusiveClaim`, `StrandedOnlyByFault`, `NothingLost`, refinement of `TaskLedger` (`ImplementsLedger`) |
| `outbox_settles` | 1 process, 3 rows of which 1 does not decode, batches of 2, 2 faults, fairness | `EveryTaskSettles` |
| `outbox_dead_revived` | 1 process, 1 row, late claims | finds `DeadStays` violated |
| `delete_command` | 3 keys in 2 chunks, the code's retry configuration, 2 executions, fairness | `TypeOK`, `OkLeavesOnlyDropped`, `DeadNamesTheRest`, `LadderWithinTimeout`, `ExecutionWindsDown`, `ExecutionEnds` |
| `archive_files` | 2 creates for the same 2 uploads, 1 delete, 2 cleaners, 1 fault | `TypeOK`, `NoDanglingFile`, `CondemnedAreDead`, `WaitsResolve`, refinement of `ArchiveLedger` (`ImplementsArchive`) |
| `archive_orphans` | 1 record, 1 user, 1 delete, 1 cleaner, 2 faults, fairness | `OrphansVanish` |
| `avatar_cleaned` | 1 user, 1 cleaner, 1 fault | finds `AvatarNotCleaned` violated |
| `record_pages` | 1 process, 3 creates, 1 admin request, pages of 1 and 2 records, every order of them | `QueryTypeOK`, `RecordHasTemplate`, `WalkComplete` |
| `upload_sessions` | 1 session, 2 presign requests of the owner or a stranger, 1 create with 9 kinds of data, 2 files, 4 templates, fairness | `TypeOK`, `QuotaConserved`, `CompensationComplete`, `RecordFilesComplete`, `DefinitionsReadBack`, `SessionWindsDown`, `SessionEnds` |
| `access_rules` | 1 or 2 administrators from the bootstrap, 1 user, 2 requests, 2 nested scopes, 2 rule ids, 2 instants | `TypeOK`, `RefusedAddsNothing`, `LackingIsGrantable`, `ListedIsAllowed`, `RulesHaveUsers`, `NarrowsUnseenOnly`, `EmptiedByDeletedOnly` |
| `template_modified` | 1 process, 1 create, 1 update | finds `RecordsMatchSchema` violated |
| `template_stale_cache` | 1 process, 1 create, 1 update | finds `CacheCoherent` violated |

*Why these bounds.* Two claimants, two rows and a queue of one slot are the least
with which rows compete for slots, a batch is cut in the middle and two
processes race for a row. For the safety properties these bounds matter only to the
mutants, since the theorems of section 5 hold for every instance; for liveness
they are what is checked. Two faults, in `outbox_settles` and `archive_orphans`, let a second failure
hit the repair of the first. Two creates with the same two uploads are the least
that can deadlock on `sys_file`. Three keys with chunks of two give a full chunk,
a short one and a report lost between them. Two requests, a scope for everything
and a narrower one for one method, and one instant before and one
at expiry are the least with which grants overlap, one rule is broader than another
in pattern, method or time, and a rule expires. Two presign requests and a field
with a quota of two make requests compete for the last unit; four templates
(a required single file with an optional list, the reverse with a quota of zero, a
hand-written one with an array of one, no files) give every change of a field's kind between validation and storing, and nine
data give one file or none or two, empty and full arrays, repeated ids, ids that are none, and
an id in two fields. One create is enough there because creates that compete for the same uploads are
in `archive_files`. The run goes through all lists of at most two
definitions over blank, plain and existing schemas; the theorem about them has no such bound. Three records on pages of
one and two are the least with a full page, a short page and a record that moves
from one to the other; one process is enough because the walk depends on the caches
only for whether the template is there (and `WalksComplete` is proved for any number).
Where the cfg turns the deadlock check off the system has really
come to rest: `delete_command`, at the last execution of the bound; `access_rules`,
when the account table is empty and no account is left to bootstrap;
`upload_sessions`, whose ids are used up (only the template can still change).

*Fairness.* Weak fairness of steps that the tokio runtime polls without anyone's
help: a future that can go on does, interval tasks tick, a process that is down
is started again (the compose file restarts it), and the clocks of PostgreSQL and S3
pass. No fairness is assumed of clients, of the compensations in `ArchiveStore`
(`OrphansVanish` holds without them) or of faults not happening beyond the bound.
`PoolClosesConnection` is fair because sqlx ends a pooled connection at the end
of its lifetime; it is what finally releases a lock that `pg_advisory_unlock`
failed to release. `SessionEnds` assumes only that time passes in Redis
(`Tick`): the clients may ask as often as they like.

*Mutants.* Each property has a mutant of a mapped definition (an unguarded claim,
a leaked permit, a forgotten rest of a batch, a missing age limit, ...) that TLC
refutes under the same cfg. They stand beside the definition they change.

## 4. Disagreements found

Each is a run that finds a violation. To each there is a theorem (section 5) that says
what has to be excluded for the property to hold, and so that the run shows the
only way to lose it.

1. `outbox_dead_revived`: `requeue_outbox_rows` and the statements that settle a row
   update by id only. A row whose handler outlives the running timeout is reclaimed
   and pumped again; if the slow handler then marks it dead while the
   pump finds the queue full, the pump turns it back to pending. A test says a
   dead task remains for inspection. Without late claims it does (`DeadRowsStay`).
2. `avatar_cleaned`: all avatars of a user have one key. A failed upload leaves an
   orphan; the cleanup lists it, finds no reference, and by the time it deletes the
   key the user has uploaded again: the new object goes and `avatar_key` dangles.
   The minimum age is meant to keep the cleanup away from writes in flight, but
   the age was that of the object listed, not of the one deleted. An avatar is safe
   unless the upload overlaps the deletions of a cleanup (`AvatarsKept`).
3. `template_modified`: the check for records and the UPDATE of a template are two
   statements; a record committed in between keeps a schema that is then
   changed under it. In one process it takes such an overlap (`RecordsStayMatched`).
4. `template_stale_cache`: the schema is read, awaited and then put into the
   cache; an update that clears the entry in between leaves the old schema there. The run shows
   it with one process. The caches of other processes are never cleared at all
   (`UpdateTemplate` of `UploadSession` lets a create meet such contexts). In one process it takes an
   update that writes between another request's read and its insert
   (`CacheStaysCoherent`).

Noticed while reading, with no run of their own:

* `TemplateSchema::validate` looks for the key `x-config-file`; the key that is written
  and read is `x-file-config`. A hand-written array field with `maxItems` 1 passes,
  reads back as a quota of one, and its files are then looked for in a string and
  not stored, though a query looks for them. The run `upload_sessions` has such a
  template; `RecordFilesComplete` names the ids in such an array (`ArrayOfOne`) as the
  only ones that may lack a file row.
* `delete_objects_with_report` stores a failure without a key as `"<unknown>"`, which the command
  never retries. The object it stands for is not named by the dead row, only
  `"<unknown>"` is (`DeadNamesTheRest`), and a mixed failure drops it with the other refused keys.
* The elements of `schema_files` are not validated one by one: a quota of zero gets in
  (the model has it), and `allowed_types` with capitals or blanks never match
  the lower-cased extension.
* `update_template` unwraps the schema when only `schema_files` is sent, and
  `into_schema` panics on a property that is `true` or `false`.
* The COUNT of the rule list and its page treat a missing `user_id` differently.
* Sorting by `template_id` or `created_by` has ties and no second key, so that pages may overlap
  without any concurrent change; page number times page size may overflow.
* A record validated with one template and stored with another, whose field
  changed its kind, keeps ids in its data that have no file row. `RecordFilesComplete`
  excludes this case by name; the required fields hold in every case.

## 5. What is proved

For every set of processes, workers, callers and rows, every capacity, batch
size and number of handlers, whether or not claims may be late
(`OutboxAssumption` is all that is assumed of the constants):

* `TypeCorrect` (`TaskOutboxProofs`): `Spec => []TypeOK`. Besides types proper it
  says that free permits never become negative and that a busy handler or call
  names a row. `TypeOK` is inductive as it stands.
* `NeverLost` (`TaskOutboxProofs`): `Spec => []NothingLost`. The strengthening is
  `OkExecuted`: a handler that carries the result "ok" has recorded the success of
  the row it names. It is needed because the DELETE comes in a later step than
  the execution, and the row may have been reclaimed meanwhile. Only `Settle` can
  delete (`RowsKept` for all other steps).
* `ClaimCorrect` (`TaskClaimProofs`): `Spec => []ExclusiveClaim`. The invariant
  couples two facts that are inductive only together, given `TypeOK`: a row not taken from a live
  holder has at most one holder among queues, handlers, pumps and enqueue calls
  of all processes (`HolderUnique`), and a held row is marked running
  (`HolderMarked`). New claims need a pending row, so by `HolderMarked` nobody held
  it; moves (send, receive, pump to queue) replace one holder by another; drops only
  remove one; and whoever unmarks a row was, by `HolderUnique`, its only holder. The
  lemmas `HoldsStep`, `ClaimStep` and `DropStep` state these shapes once and each action
  is an instance of one.
* `FaultsAloneStrand` (`LedgerProofs`): `Spec => []StrandedOnlyByFault`. Faults only
  grow, so it is enough to follow the steps that are none. The invariant `Steady` adds
  what these rely on: the pull task has no batch between its rounds and, before any
  fault, no process stops and no channel closes under a reserved slot. Each step of a
  process has the same four effects (`Effects`): it touches the claims of its own process only
  (`Local`), it takes no row without marking it just then (`Gains`), it makes no row
  stale (`Ages`), and a row running after it is held by the process or was already somebody
  else's (`Keeps`).
* `PermitsConserved` (`LedgerProofs`): `Spec => []PermitConservation`. The invariant is
  `Balanced(n)`: the calls that reserve are finitely many, permits, queue and
  reserving calls add up to the capacity while the channel is open, and a process that
  is down has none of them. Finiteness is part of the invariant and not
  assumed of the callers.
* `LedgerImplemented` (`LedgerProofs`): `Spec => ImplementsLedger`, if claims are settled within the
  running timeout (`~AllowLate`). Without this it is false: that is
  finding 1. Under it no claim is ever taken from a live holder (`Timely`), so
  by `ExclusiveClaim` whoever settles a row is its holder, and by `OkExecuted` a row
  is deleted after its success. `Submit` maps to `Accept`, a successful `Execute` to
  `Perform`, `Settle` to `Complete` or `Bury`, a row that does not decode to `Bury`; every other step,
  crashes, requeues and reclaims among them, is a stutter of the ledger.
* `DeadRowsStay` (`LedgerProofs`): `Spec => DeadStays`, again if claims are settled within the running
  timeout. It is read off the refinement: a dead row is a buried entry of the
  ledger, and the ledger has no step that leads out of burial (`BuriedStay`).

For every finite set of keys, chunk size, retry configuration and number of
executions (`CommandAssumption`), in `DeleteProofs`:

* `CommandTyped`, `SuccessAccounts` and `DeathAccounts`: `TypeOK`, `OkLeavesOnlyDropped` and
  `DeadNamesTheRest`; the last says that the failed keys of a dead command name every object left,
  except those dropped before and those whose failure came without a key, and that
  `"<unknown>"` is among the keys if there are any of these. The strengthening is `Accounted`: during an
  attempt every object left is dropped, still to be sent, or among this attempt's
  failures; after an attempt that failed it is dropped or pending for the next. It is
  needed because the keys that matter move between these sets, and a lost report empties
  two of them at once.
* `LadderBounded`: `LadderWithinTimeout`, for every configuration whose first backoff is
  at most its cap and whose retries times the cap fit the running timeout. Those of
  the code do: 10 retries, 30 s, 300 s. The invariant bounds the time slept by retries
  times the cap.
* `ExecutionsWindDown`: `Spec => ExecutionWindsDown`. `StepsLeft` weighs each retry left with more
  than a whole attempt can take, so it goes down with every chunk, every evaluation and
  every retry. It is the ranking that termination rests on; that fairness
  then leads to the end (`ExecutionEnds`) is left to TLC.

For every set of records, files, users, requests and cleaners, finite or not
(`StoreAssumption`), in `ArchiveProofs`:

* `StoreTypeCorrect`: `TypeOK`.
* `CondemnedStayDead` and `FilesHaveObjects`: `CondemnedAreDead` and `NoDanglingFile`, if
  no request outlives the minimum age of the cleanup (`~AllowSlow`). Both need the same invariant
  `Linked`, which ties each request to what it has done so far: a create's
  record and rows fit its program counter (`Phase`); the keys of a command and of a
  delete request belong to records that are aborted or deleted
  (`CommandDead`, `DeleteDead`); a row of `sys_file`, open or committed, has its
  object (`Backed`); an object of a record not yet dead has its row, or is the one about
  to be inserted, or its create is on the way to ROLLBACK (`Traced`); a copy that lands late belongs to a create that failed
  (`LateFailed`); an old object is not of a create under way
  (`OldSettled`); a key the cleanup has listed is of a settled record, with its row if
  that is in the table, and an orphan is of a dead one (`CleanLinked`). `OldSettled` is where `~AllowSlow`
  is used.
* `NoLastingWait`: `Spec => []WaitsResolve`, with no assumption at all. The invariant `Books`
  ties the rows a request holds to what it has still to do (`Booked`): a row is held
  only by a record that is open or committed, so whoever a request waits for is under
  way. It can go on, or waits in turn; and where a finite group waits only for its own
  members and all of them wait, some wait in a circle (`CircleExists`), of which PostgreSQL aborts
  one (`Deadlocked`).
* `ArchiveImplemented`: `Spec => ImplementsArchive`, if no request outlives the minimum age
  of the cleanup. `Books` says that a committed record holds the rows of all files its request
  names, `Linked` that each has its object; together a record shows all its files or
  none (`AllOrNone`). Every step follows the `Course` of one record: the insertion of the
  record maps to `Ask`, COMMIT to `Publish`, ROLLBACK to `Refuse`, deletion to `Withdraw`, and
  everything else, copies, commands and cleanups among it, to a stutter.
* `AvatarsKept`: `Spec /\ []CleanApart => []AvatarNotCleaned`. `CleanApart` says that no avatar
  request has copied its object and not ended while a cleanup is between its last reading of the
  tables and its deletions. The invariant: a saved or just copied avatar has its object
  (`Pictured`), and a key marked as an orphan is nobody's avatar (`Marked`). It needs no limit
  on how long requests take.

For all accounts, routes, scopes and numbers of requests (`AccessAssumption`:
roles are disjoint, patterns and paths are sequences of segments, every operation
has a route), in `AccessProofs`:

* `AccessTyped`: `Spec => []TypeOK`, with the keys of the rule table. It is inductive
  because a request carries what its operation needs (`Pending(op)`) and an upsert
  keeps the id of the row it finds (`UpsertTyped`).
* `RefusedRedundant`, `LackingGrantable`, `ListedAllowed`: the agreement of the queries. All
  three follow from the types, the transitivity of covering
  (`CoversTransitive`) and `BroaderAllows`: a rule that conflicts with a grant
  allows whatever the grant would.
* `RulesKeepUsers`: `Spec => []RulesHaveUsers`. The deletion of an account takes its rules with it
  and an upsert inserts only for an account that is there at that moment, whatever was true at the check.
* `EmptiedOnlyByDeleted`: `Spec => EmptiedByDeletedOnly`. Only a deletion removes an account,
  never the one that asks for it; if none is left, the asking account was gone before.
* `NarrowsOnlyUnseen`: `Spec => NarrowsUnseenOnly`. The strengthening is `AsksForMore`: a grant past
  its conflict check asks for more than the row of its key gave at that time
  (`seen`). If the row is still what it was, the upsert extends it.

For every number of processes, of requests (finitely many creates), of schema versions and page sizes
(`TemplateAssumption`, `QueryAssumption`), in `TemplateProofs`:

* `TemplateTyped`: `QuerySpec => []QueryTypeOK`, and with it that a record is
  inserted only with a version its data were validated with.
* `TemplateKept`: `QuerySpec => []RecordHasTemplate`. The strengthening is
  `CommitsOpen`: a transaction about to commit has its record open. With it a
  commit finds the template there, because the DELETE of a template takes effect only
  when no record, open or committed, refers to it.
* `WalksComplete`: `QuerySpec => []WalkComplete`. The invariant `WalkInv` says, of a walk
  that has read the pages up to some offset: if no record went, none that was due is at
  a place below the offset without having been read, for places only grow
  (`NoneSkipped`); if none came, no record read is at or beyond it, for places only
  shrink (`NoneAhead`); and the count is the number of rows unless one came or went since
  (`CountRight`). `LastPage` and `NextPage` are the arithmetic of `Offset` and
  `TotalPages` for every page size.
* `CacheStaysCoherent` and `RecordsStayMatched`: `CacheCoherent` and `RecordsMatchSchema`, in one
  process (`Nodes = {n}`; the caches of others are never cleared), under `[]LoadApart` and `[]UpdateApart`:
  no update writes while another request is between its read of the template and its
  insert into the cache, and for the second also not while a create is between its validation and its
  COMMIT. The invariant `Current` says that what was read is what the template has, and
  that the cache is too unless an update has yet to clear it; `Matched` that requests
  and records were validated with the schema of now, and that an update past its check has
  rightly found no record.

For all sets of templates, data, files, sessions and requests, in `UploadProofs`:

* `CompensationKnowsAll`: `Spec => []CompensationComplete`. The keys of the compensation are
  collected one step and the files copied a later one, so the strengthening
  (`Prepared`) says that in between the keys are those of the data under the very
  schema the copies go by; `StoredCollected` then shows, for data of any shape, that
  whatever is stored is among what is collected.
* `SessionsTypeCorrect`: `Spec => []TypeOK`, with quotas that never become negative.
* `QuotaNeverDoubled`: `Spec => []QuotaConserved`. The addresses given for a field and the
  requests under way are counted, so that the invariant also says that they are finitely
  many (`Counted`), and that a session never opened has no quota (`Unopened`). Each step of a presign
  request moves one unit from one of the four accounts to another (`Balance`, `Taken`).
* `CommittedFilesComplete`: `Spec => []RecordFilesComplete`, with nothing assumed of the templates. A field
  that is no array of one is stored as a whole when its data fit the schema
  (`FittingStored`); `into_schema` writes no array of one, by hand it can be had (section 4). The
  invariant `Linked` follows the create from its context to its COMMIT: what it
  stored has a row and an upload of its session (`FilesStored`), by the schema it loaded.
* `DefinitionsKept`: `Spec => []DefinitionsReadBack`, for every list of definitions over every schema. What
  one `IntoSchema` does to each field is a lemma (`FieldSays`, `WrittenNext`); that a whole list
  does what its last definition of each field says (`WrittenAll`) is by induction over the list,
  which is proved as the absence of a least counterexample (`LeastNumber`, `HandedOn`), so
  that no induction rule with an operator parameter is needed.
* `SessionsWindDown`: `Spec => SessionWindsDown`. Only the script and the clock change a live session; the
  script prolongs it only together with a unit it takes (`ScriptWinds`), so the number
  of prolongations is bounded by the quota the session began with.

Only model-checked, because fairness and ENABLED are out of the prover's reach:
liveness (`EveryTaskSettles`, `ExecutionEnds`, `OrphansVanish`, `SessionEnds`). For the same reason
`WaitsResolve` has the guards of the handler's steps in a predicate, `CanGoOn`, and not as ENABLED. Every other property of every run is a theorem: of the passing runs as it
stands or under the named assumption, of the others under the condition
that excludes the violation.

## 6. Not modelled

Login, passwords, tokens and profile data only decide who may send a request. A
password that an administrator sets while the user changes it himself is
overwritten; this is the one listed hazard without a property. The lists of users,
templates and rules are single reads with the paging of `RecordQuery`. Sort keys
with ties have no order to state a property about. What a JSON schema says of
fields that are not files is decided by a library. Configuration, telemetry, responses, API
documentation and deployment scripts change no shared state.
`TaskDispatcher::queue_in_memory` has no caller. Error texts, `attempts` and
`last_error` of outbox rows have no effect on control.

## 7. Plan

Done in this order, most important first: outbox, its ledger and proofs; delete
command; archive store with cleanup; template cache; access control and its
proofs; upload sessions and file fields; record queries and the proofs about
templates; the compensation theorem; the bootstrap by several servers; the theorems
about the delete command, the archive store, permits and the ledger, quota and files of
a record, rules and accounts, and the page walk; of the refuted properties the part
that holds; waiting creates and the abstract archive; definitions in general; the measures
by which executions and sessions wind down. What is left:

1. Passwords: the overwritten change of section 6.
2. Liveness as theorems, for which the measures are prepared.
