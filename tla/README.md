# Digital Will: a formal model of the dead man's switch

Digital Will is a daemon (`cmd/digitalwilld`) that keeps encrypted "wills". An
owner checks in periodically; when a will's deadline passes, the scheduler fires
it and delivers its actions (mail, webhooks, scripts), with retries. Everything
it knows is in one SQLite database. This directory holds TLA+ modules translated
from the Go source, the TLC configurations that check them, and TLAPS proofs.

All paths below are relative to the repository (`src/`). The source is modelled as
it is meant to be built: some files do not compile as committed (unused and missing
imports, `err` undeclared in `handleAddAction`, `meta` undeclared where `dw will create` has just
made a key, `cmd/dw/main.go:145`), and the model follows what the statements say; for `meta` it takes the
row that was just inserted, the only one the call can mean.

## 1. The system

### Components

| component | code | state | operations | what makes it correct |
|---|---|---|---|---|
| wills | `internal/will` | table `wills`: status, interval, last check-in, deadline | Create, Transition, TransitionToPending, CheckIn, UpdateStatus, Archive, GetOverdue | lifecycle respected; a check-in moves the deadline; the trigger is a compare-and-swap |
| actions and executions | `internal/action` | tables `actions`, `action_executions` | Create, ListByWill, CreateExecution, FailExecution, MarkCompleted, calculateRetryDelay | one execution per action; outcomes are true and final; retries bounded |
| scheduler | `internal/scheduler` | ticker loop, worker semaphore, one goroutine per job | tick, processWill, processRetries, retryAction | fires each overdue will once and not early; queues each action; one delivery of an execution at a time; reaches everything due; keeps no worker but for a delivery |
| notification | `internal/notification` | none | Execute | a delivery returns with or without an error; over SMTP, which has no timeout, perhaps never |
| crypto engine | `internal/crypto` | key enclave, `initialized`, table `crypto_meta` | Initialize, DecryptDEK, Encrypt, Decrypt, Shutdown | one key between restarts; what is encrypted can be opened |
| HTTP API | `internal/api` | rate limiters, table `tokens` | unlock, wills, actions, check-in, tokens, audit, health | nothing happens without a token; requests that overlap leave one truth |
| audit log | `internal/audit` | table `audit_log` | Log, VerifyChain | the hash chain verifies |
| storage | `internal/storage` | `user_version`, `schema_migrations`, the file and its backups | Open, Migrate, CreateBackup, RestoreBackup | each migration once and in order; a cut-off backup is never restored, and what is restored is what was accepted |
| health | `internal/health` | none | Check | status from last tick and engine |
| configuration | `internal/config` | none | Load | defaults and parsing |
| command line | `cmd/dw` | its own connection and engine | will create, check-in stubs, backup | works beside the daemon on one file |
| process | `cmd/digitalwilld` | all of the above | start, signal, stop | a restart resumes from the database |

### How they interact

The handlers, the scheduler loop and its workers are goroutines of one process.
They share the crypto engine (behind a RWMutex), the worker semaphore `workerSem`
and the database. The pool of `database/sql` is limited to one connection
(`internal/storage/db.go:41`), so two statements never overlap, but a goroutine
that keeps rows open keeps the connection: `processRetries` does, for as long as it
hands out retries. `dw` is another process on the same file. A tick runs
*stale reset, scan of overdue wills, compare-and-swap per will, spawn*, and, on every
tick but the first, *processRetries*. `processWill` lists the actions, inserts one
execution per action and starts a goroutine of `retryAction` for each while there is room, without
waiting for any: deliveries of one will run side by side, in any order.
`retryAction` loads the row, prepares the delivery, claims the row by
compare-and-swap, delivers, and writes the outcome.

### What is hard

* Owner and scheduler race on the rows of `wills`: a list read by the scan is stale
  by the time its wills are fired.
* Two workers can hold the same execution: the first dispatch against a retry, two
  ticks against each other, a delivery against the stale reset.
* A restart may come between any two statements; only the database survives.
* Any statement may fail, and most errors are logged or dropped.
* The pool may be full at each of the three places that fill it.
* The outcome is written `WHERE id = ?`, whatever the row holds by then.
* Unlocks with different passphrases overlap; the engine keeps the first before it is verified.
* Two processes may make the first key, or migrate, at once.
* Backup and restore write several files and look at few errors; the process may end between any
  two, and another process may have the database open while it is replaced, or leave its `-wal` there.
* A delivery over SMTP may hang, with a place in the pool.

The list with source lines and the property for each is `hazards` in `PROJECT.json`.

## 2. The modules

| module | models | extends |
|---|---|---|
| `WillService` | `internal/will`: the rows of `wills` and every statement on them | |
| `ActionService` | `internal/action`: actions, executions and every statement on them | `WillService` |
| `Scheduler` | `internal/scheduler`: loop and workers, one step per statement, semaphore operation or delivery | `ActionService` |
| `Daemon` | `cmd/digitalwilld`: scheduler, handlers of `internal/api` that write, `dw will create`, clock, restarts; the specifications and the type invariant | `Scheduler` |
| `DeadMansSwitch` | the abstract specification: a switch per will | |
| `Deliveries` | the abstract specification of an execution: one delivery at a time, repeated only after a failure or a loss | |
| `KeyEngine` | the abstract specification of the crypto engine: `Keys` implements it, and `Daemon` has its three steps in `CliCreateWill`, `HandleUnlock` and `Restart` | |
| `DaemonProperties` | what the daemon promises, its refinement of `DeadMansSwitch` and `Deliveries`, and what the documents say that it does not do | `Daemon` |
| `DaemonInvariants` | the inductive invariant behind the promises | `DaemonProperties` |
| `MCDaemon` | instances of the constants for TLC | `DaemonInvariants` |
| `DaemonProofs` | type correctness, the inductive invariant and what it gives: when a will fires, that it is processed once or never, what archiving does, for all constants | `DaemonInvariants` |
| `SwitchProofs` | the refinement, for all constants | `DaemonProofs` |
| `DeliveryProofs` | what holds of executions, for all constants | `DaemonProofs` |
| `PromptProofs` | what holds of them while deliveries are prompt, and the refinement of `Deliveries` | `DeliveryProofs` |
| `DeliveriesProofs` | what follows from `Deliveries` alone | `Deliveries` |
| `Keys` | `crypto_meta`, the engine, the token check of `internal/api`, unlock requests, token handlers, `dw will create` | |
| `MCKeys` | its instances for TLC | `Keys` |
| `KeysProofs` | what holds of keys, and the refinement of `KeyEngine`, for all constants | `Keys` |
| `Storage` | `db.go`, `schema.go`: opening, migrating and writing the database, by several processes | |
| `Backup` | `backup.go`: `CreateBackup` and `RestoreBackup`, one step per file, beside them | `Storage` |
| `MCBackup` | their instances for TLC | `Backup` |
| `StorageProofs` | what holds of the database and its backups, for all constants | `Backup` |
| `AuditLog` | `internal/audit`: `Log`, one step per statement, and `VerifyChain` | |
| `MCAuditLog` | its instances for TLC | `AuditLog` |
| `AuditProofs` | what holds of the chain, for all callers and events | `AuditLog` |

### State and code

* `wills[w]`, `execs[e]`, `actions` are the tables, restricted to the columns the
  behaviour depends on; a row with status `"ABSENT"` does not exist. An identifier
  stands for a UUID. `ActionWill` and `Position` are the values an action will be
  inserted with.
* `loop` is the goroutine of `Start`: its place (`pc`), whether this tick is followed by
  `processRetries`, the rest of the list it ranges over, and the rows it has open.
  The place `"dispatch"` is inside `processRetries`' open rows, where the connection
  is held (`ConnFree`).
* `tasks[s]` is the goroutine holding place `s` of the semaphore: `processWill`
  (`TriggerPc`) or `retryAction` (`RetryPc`). A free place has `pc = "free"`.
* `engine` is `"locked"`, `"open"` or `"bad"` (a wrong passphrase is kept by
  `Initialize` before `handleUnlock` verifies it); `meta` says whether there is a
  `crypto_meta` row.
* `now` is the clock, `faults` and `crashes` count the failures taken so far;
  `fired`, `tried` and `sent` are histories the program does not keep.

A handler is one step because each makes one statement that writes, guarded in the
same statement. The clock is read in the step of the statement that uses it; the seconds
between the two are below the model's unit of time. A goroutine moves one statement at a time. A statement that fails is
`LoopFault` or `TaskFault`. `Restart` keeps the tables and drops everything else.
Where a `select` has a `default` branch, `StartOrSkip` takes it only when the
semaphore is full.

* The audit log writes to a table nothing else reads, so it is a module of its own. `log` is that
  table, `call[c]` the place of a caller in `Log`: between reading the last checksum and
  inserting its row, or outside. `Log` digests the fields of a row joined with nothing between them
  (`internal/audit/audit.go:81`), so an event is a *text*, what the fields give joined, and a *split* of it into
  fields; a checksum is modelled by what it digests, the checksum before and the text. The split and the place of
  the row (`seq`) are not digested. `issued` and
  `seen` (how many rows there were when the call of each row read the last) are histories.
* `Daemon` takes an unlock as one step; `Keys` takes it in the four that others can come
  between (`IsInitialized`, SELECT, `Initialize` under its mutex, `DecryptDEK`). `Daemon`'s steps on the
  engine are those of `KeyEngine`, and `Keys` is shown to implement it (`ImplementsEngine`). In `Keys`, `metas` is `crypto_meta`,
  `kek` the engine's enclave, `sealed[x]` the row whose key item `x` was encrypted with, `req[r]` and `cli[c]` the
  places of requests and `dw` processes. A key is the passphrase and the row it is derived from.
  `Daemon` takes an open engine to open every will, which is so while there is one row of `crypto_meta`
  (with two, `Keys` shows the engine to be right for the row it loaded only).
* In `Backup`, `at` is the inode the database's path leads to and `disk` what each inode holds;
  `conn[p]` keeps the inode it opened. `files` are the backup, its encrypted form, the manifests and the
  `.tmp` of a restore; `job` is the operator's place in either function. A transaction is one step; a copy or a
  write of a file is not: it may be cut off (`partial`) or mix two states (`torn`). The errors both functions drop are
  there: of the checkpoint (`backup.go:40`), the re-read (`:91`), the writes (`:95`, `:103`, `:161`), the removal (`:96`), the
  close (`:156`) and the rename (`:162`); each takes one of `MaxFaults`.
* The database is in WAL mode (`db.go:43`). `wal` is the inode whose log lies beside the path. The last process to close
  the file writes the log back and deletes it, one that dies leaves it, and a process whose file is no longer the one
  at the path leaves it too (SQLite looks at that before it deletes anything). After a restore the log may thus be that of
  *another* file (`Foreign`): whoever opens the database next takes it for its own, and both files are torn from then on
  (`OpenTorn`). What SQLite makes of a torn file is not followed: `Open` returns an error or goes on.
  `raced` records that another process had the database open while the operator copied or replaced it, which
  `docs/OPERATIONS.md:104` tells the operator to avoid. `Calm` says that this has not happened and that no file operation has failed.

Operators whose comment begins with "Mutation" are variants of an operation with a plausible
mistake; no specification uses them. They show that a property depends on the code:
put in place of the operation, each makes TLC find a property violated (`mutants` in
`PROJECT.json`).

## 3. What TLC checks

| run | specification | instance | shows |
|---|---|---|---|
| `Trigger.cfg` | `Spec` | 1 will, 2 actions, 3 executions, 2 workers, 2 time units, 1 restart, 1 failing statement | the will fires once and not early, nothing precedes the trigger, each listed action gets its execution unless the failing statement was its own or the process ended, outcomes are true, an execution that is QUEUED has one goroutine or none for ever, a will whose processing was skipped is never processed, whatever is delivered is delivered in the owner's silence and for a will with content, the daemon refines the switch, and the inductive invariant of the proofs |
| `Delivery.cfg` | `PromptSpec` | 1 action, 1 execution, 2 workers, 4 time units, 1 restart, 1 failing statement | while deliveries are prompt: exclusive delivery, repetitions only after a lost record, final outcomes; the daemon refines `Deliveries` |
| `Progress.cfg` | `FairSpec` | 2 actions, 2 executions, 2 workers, 1 row per query, 1 time unit, 1 failing statement, 2 attempts | overdue wills are reached; due retries are, though two compete for the rows of the query and the pool, unless hanging deliveries fill it; an execution is not IN_PROGRESS for ever even then; a worker is kept by a delivery only |
| `Order.cfg` | `Spec` | violated: `DeliveredInOrder` | of two actions the second is delivered while the first has not been tried |
| `Archived.cfg` | `Spec` | violated: `ArchivedIsFinal` | an archived will becomes TRIGGERED when `processWill` ends |
| `SkipForNow.cfg` | `FairSpec` | violated: `PendingIsProcessed` | a will skipped because the pool was full is never processed |
| `Exhausted.cfg` | `PromptSpec` | violated: `RetriesAreUsedUp` | `max_retries = 3` allows two deliveries |
| `LateDelivery.cfg` | `Spec` | violated: `CompletedIsSkipped` | a delivery older than the stale cutoff takes a row out of COMPLETED |
| `Audit.cfg` | `AuditLog!Spec` | 3 callers, 5 texts, 2 splits | the chain is a tree, `VerifyChain` reports exactly the rows whose call was overtaken, and on a chain that verifies finds another text, another checksum or a row missing before the last, and neither another split nor rows missing at the end |
| `Keys.cfg` | `Keys!Spec` | 3 requests, 2 `dw`, 2 rows, 2 passphrases, 2 items, 2 tokens | what is stored is encrypted with a stored key, a verified unlock stays true, all of it is one engine; no deadlock |
| `Storage.cfg` | `Backup!Spec` | daemon and operator, 2 inodes, versions 0 to 3, 1 write, 2 passphrases, 1 failing file operation, any number of crashes | versions recorded and never falling, open processes on their schema, cut-off backups not restored, what is restored is what was accepted, backups restorable; a file at the path that is not a whole database is explained by a failed operation, or by another process on it during a copy or a restore. A torn copy *is* restored, as in the code: its checksum is made of the copy |
| `AuditChain.cfg` | `AuditLog!Spec` | violated: `ChainIsValid` | two overlapping calls of `Log` leave a row that does not verify, though nobody changed the log |

**Bounds.** `MaxTime`, `MaxCrashes` and `MaxFaults` bound the clock, the restarts and the failing
statements or file operations; `ExecIds` bounds the executions. They are guards of `ClockTick`, `Restart`,
the fault steps and `QueueAction`. Two workers are enough for every race between two
goroutines; two actions for what is left of a list and for competition; three execution identifiers leave room for one that
should not be there. Wills interact only through the semaphore and the loop, so one will is enough where the
property is about one, and `SkipForNow` has two wills and one worker. The retry delays
are 0, 1 and 2 units and the stale cutoff 1: what matters is that a delay can be zero,
that another can be longer than the cutoff, and that 2 to 4 units reach
past both. `Progress.cfg` shortens delays and cutoff to fit one unit of time, since liveness needs the whole graph: a delivery is stale
when the clock has moved, one that was reset is due at once and one that failed a unit later, and two attempts still give a retry, after a reset or a
preparation that failed. `CHECK_DEADLOCK FALSE` is there because a bounded clock stops and an
engine nobody unlocks leaves the system idle. In `AuditLog` the number of texts bounds the calls; three
callers and five texts allow a call to be overtaken twice and verified rows to follow. In `Keys` two `dw` are enough to make two
first keys, and of three requests two unlock with different passphrases while the third stores or revokes. In
`Backup` two inodes are the file at the path and the one that was there before, which another process or the log still
uses; a third would only let the operator restore again while that is so, when everything it opens is torn already. Two versions to migrate give a state between migrations;
a third stands for a newer build. One write is enough to tell a snapshot from what came after; one
failing operation meets each file that is written, and crashes are not bounded at all. `Storage.cfg` does not check
deadlock: a newer database nobody can open leaves nothing to do, as in the code.

**Fairness.** `FairSpec` asks weak fairness of the loop (the Go scheduler runs it and the ticker
keeps firing) and strong fairness of each worker except while it delivers: a worker that waits for the connection
is queued by `database/sql`, which hands a released connection to a waiting request, so
`processRetries` taking it again and again cannot starve it. A delivery may never return: the SMTP client
has no timeout (`internal/notification/service.go:89`, `:120`, `:153`), so `RetryIsHandled` and
`WorkersAreReleased` say what then still holds. Nothing is assumed of the
owner, the clock, failures or restarts. The bounded clock has one consequence to know of: an empty will's execution is put off by
five minutes each time it is prepared, and with an unbounded clock comes back for ever; since the query has a `LIMIT 10` and no
order, ten such rows can keep another from being returned. The runs do not show that.

**Promptness.** `PromptSpec` holds the clock back so that no delivery outlives the
cutoff of the stale reset (600 s). A webhook is limited to 30 s and a script to 30 s by
default, but a script's timeout is the owner's and the SMTP client has none:
the assumption is the environment's, and `LateDelivery.cfg` shows what happens without it.

## 4. What is proved

For every value of the constants (any number of wills, actions, executions, workers, requests, tokens, keys,
processes, files, versions; all bounds), from the named assumptions on the constants alone:

| theorem | module | statement |
|---|---|---|
| `TypeCorrect` | `DaemonProofs` | `Spec => []TypeOK` |
| `FiredOnceHolds` | `DaemonProofs` | `Spec => [](TypeOK /\ FiredOnce)` |
| `NeverEarly`, `NothingBefore`, `ExecutedOnce` | `DaemonProofs` | `NoEarlyTrigger`, `NothingBeforeTrigger`, `SingleExecution` always |
| `SkippedForEver` | `DaemonProofs` | `Spec => SkippedIsLeft` |
| `ArchivedInTimeIsFinal` | `DaemonProofs` | a will archived before it fired never fires and stays ARCHIVED; one archived later can only become TRIGGERED, by the goroutine that processes it |
| `DaemonIsASwitch` | `SwitchProofs` | `Spec => ImplementsSwitch` |
| `QueuedHasOneOwnerAlways`, `TurnedAwayForEver` | `DeliveryProofs` | `QueuedHasOneOwner`, `TurnedAwayIsLeft` |
| `ListedAlwaysQueued` | `DeliveryProofs` | `Spec => ListedIsQueued` |
| `OutcomeAlwaysTrue` | `DeliveryProofs` | `Spec => []OutcomeIsTrue` |
| `AlwaysInSilence` | `DeliveryProofs` | `Spec => []DeliveredInSilence` |
| `DeliveredWithKey` | `DeliveryProofs` | from the claim to the record of a delivery the engine is open |
| `RetriesAreStillDue` | `DeliveryProofs` | what `processRetries` has still to hand out is FAILED and due |
| `DeliveryIsExclusive`, `OutcomesAreFinal`, `RepeatsAreAlwaysLosses` | `PromptProofs` | `ExclusiveDelivery`, `OutcomeIsFinal`, `RepeatsAreLosses` under `PromptSpec` |
| `DeliveriesAreImplemented` | `PromptProofs` | `PromptSpec => ImplementsDeliveries` |
| `CompletedIsSkippedWhenPrompt` | `PromptProofs` | `PromptSpec => CompletedIsSkipped` |
| `DeliveredOrUsedUp`, `EndsAreEnds` | `DeliveriesProofs` | of `Deliveries` alone: repetitions are paid for with losses, ends have a reason and are final |
| `AuditTypeCorrect`, `ChainIsAlwaysATree`, `VerifyChainExact`, `VerifyChainFindsChanges` | `AuditProofs` | `TypeOK`, `ChainIsATree`, `VerifyIsExact`, `ChangesAreFound` always |
| `SerialCallsKeepTheChain` | `AuditProofs` | `Spec /\ []OneAtATime => []ChainIsValid` |
| `KeysTypeCorrect`, `KeysAlwaysStored`, `UnlockedStaysTrue`, `KeysAreAnEngine` | `KeysProofs` | `TypeOK`, `KeysAreStored`, `UnlockedIsTrue` always, `ImplementsEngine` |
| `StorageTypeCorrect`, `SchemaAlwaysRecorded`, `OpenAlwaysCurrent`, `NoVersionEverFalls` | `StorageProofs` | `TypeOK`, `SchemaIsRecorded`, `OpenIsCurrent`, `VersionNeverFalls` |
| `FileAlwaysWhole`, `RestoredAlwaysAccepted`, `AcceptedAlwaysComplete`, `BackupAlwaysRestorable` | `StorageProofs` | `FileIsWhole`, `RestoredIsAccepted`, `AcceptedIsComplete`, `BackupIsRestorable` |

**The daemon.** `TypeOK` has one part per group of variables and includes the operands of each
place in the code (a goroutine that executes has a recorded execution). Each statement
has a lemma that it keeps its table's part; each step combines them.

None of the promises about the trigger is inductive. `SingleExecution` can only break when an action is
queued twice, so `FiredOnce` says why it is not: what `processWill` still has to queue has no
execution (`TodoIsFresh`), no will has two goroutines (`OneProcessor`), and a will about
to be given one has nothing yet, because it had not fired (`OnlyForFired`) when
the compare-and-swap found it `ACTIVE` (`RowsTellFired`). The last part also
relates the deadline to the last check-in, which gives `NoEarlyTrigger`. Nearly every step is
*calm*: it records no execution and starts no processing (`CalmStep`). The four
that are not (compare-and-swap, spawn, list, queue) have a lemma each. The same split proves
`SkippedIsLeft`: a calm step gives no will a goroutine and records nothing, and each of the other four works for a
will that was ACTIVE or had a goroutine already (`Attended`). So what `SkipForNow.cfg` shows of one will is true of
every one: the comment's "for now" is for ever.

For the refinement, `Phase` maps a will to `off`, `armed`, `paused`, `disarmed` or `fired`. Each step changes
the phase or the deadline of one will at most; six lemmas turn what it does to that row into a
step of the switch, and the rest stutter. The switch may be resumed, which the documents promise; no step of the
daemon maps to `Resume`.

**Executions.** There are some thirty actions, but only a handful of things one can do to an execution
and to the goroutines that work on it. `NextEffect` shows that every step of the daemon has one of these
effects (nothing, reset, queue, dispatch, hand over, or a step of `retryAction`), and the
invariants are proved of the effects. `QueuedHasOneOwner` is inductive with them: a row that leaves QUEUED
does not come back to it, and only FAILED rows are dispatched. `Truth` relates the status of a row and the
place of a goroutine to the deliveries made: a will's content is written once, when it is created, so an empty will
never gets to the claim. It also bounds the attempt a
row shows, and the attempt a goroutine has loaded, by the deliveries made: a stale attempt is too small, never too
large, so an EXHAUSTED execution was delivered `MaxRetries - 1` times at least, however many goroutines raced
(the one missing is `Exhausted.cfg`). With `NoEarlyTrigger` this gives `DeliveredInSilence`, the promise of the program from
end to end. `RetriesAreStillDue` is why `processRetries` may hand out rows it read long before: its open rows hold the only
connection, so nobody writes to an execution meanwhile, and the clock only makes them more due.
For `ListedIsQueued`, a
goroutine keeps its list, hands an action over to an execution, or loses one with a failing statement and all with a
restart (`KeepsList`, `ListInv`).

Under `PromptSpec`, `Exclusive` adds that a row that is delivered is not stale: the reset then leaves it
alone, and the claim of anyone else fails on IN_PROGRESS. For `RepeatsAreLosses` each delivery of an execution is
paid for with a fault or a restart, except one while its record is there or about to be written (`Counted`).

`Deliveries` says the same without rows, goroutines or retries: an execution is *open*, *running*, *made* or
*missed* (tried, not yet on record), *lost* (nobody knows any more), *done* or *over*. `Stage` reads the stage from the
status and, while the row is IN_PROGRESS, from the goroutine that delivers it; there is one at most (`Exclusive`), so the
place of that goroutine is the stage. Each effect is a step or a stutter: a claim is `Begin`, a delivery `Make` or `Miss`, its
record `Finish`, `TryAgain` or `GiveUp`; a fault or a restart takes every delivery it cuts off to *lost* at once (`Lose`), and the stale
reset takes those it finds back to *open* (`Reopen`). That `GiveUp` is only taken when the deliveries are used up is `Truth`'s
bound on attempts. `DeliveriesProofs` shows what a reader may conclude from the abstract module alone.
`CompletedIsSkippedWhenPrompt` is the counterpart of `LateDelivery.cfg`: promptness is all that is missing.

**Keys.** Rows of `crypto_meta` are never deleted and `Initialize` keeps what is there, so the engine's key, once
it opens a row, opens it until the restart; a fresh row has nothing encrypted with it. With these the
facts are nearly inductive as they stand; no item is encrypted with a row that is not there, because the
foreign key rejects it.

**Storage.** `SchemaInv`: each database records exactly the versions up to its own, a process that is about to apply
version *v* has seen *v - 1*, and an open one has nothing left to apply. Two migrations that meet are told apart by
the primary key of `schema_migrations`. For backups, `SumsAreComplete` says a checksum is made of a file
that was written to its end; `BackupInv` and `RestoreInv` relate each file to what the operator's place in the code says it
wrote, as long as no operation failed. `CalmInv` is the invariant of the file at the path: while nothing has failed and no other process
was on the database during a copy or a restore, every process has the file at the path open, the log beside it is its own, and when
a restore gets to the rename there is none, since the operator was the last to close the database. It is what makes
`FileIsWhole`, `OpenIsCurrent` and `VersionNeverFalls` inductive; each excepts the rest, and names what it excepts.

**Audit log.** `ChainIsATree` is inductive: a row's checksum extends the one at the place its
call saw, and its event is in no other row. So no two places have the same checksum
(`ChecksumsDiffer`: a checksum ends with its row's text), hence a row verifies exactly when
the place its call saw is the one before it. A change makes some row's digest differ, and rows
before it are untouched, so `VerifyChain` stops there. That is so of a change of the *text* a row's fields give; the same
text split into other fields is the same digest, and nothing after the last row tells that there was one: the theorem
states both as what `VerifyChain` does not find. SHA-256 is taken to have no collisions.
`SerialCallsKeepTheChain` is the counterpart of `AuditChain.cfg`: when no two calls are between their statements
at once, whichever fail or are cut off, every row's call saw the row before it (`NotOvertaken`), so the chain verifies.

**Only model-checked.** The liveness properties of `Progress.cfg` (fairness and ENABLED are beyond the prover). What the
violated runs refute is refuted by TLC's counterexample; two of them have a theorem that says under which condition the statement
holds (`CompletedIsSkippedWhenPrompt`, `SerialCallsKeepTheChain`), and `ArchivedInTimeIsFinal` and `SkippedForEver` say exactly how
far two others go.

## 5. What is not modelled

* Cryptography, SMTP, HTTP and process handling: `Execute` ends one way or the other.
* The rate limiter: it refuses requests earlier than the token check and changes no table.
* Health: read from a ping, the last tick and the engine when it is asked for; it keeps nothing.
* What SQLite makes of a file whose pages are of two states, and the file `-shm`, which is rebuilt from the `-wal`.
  Two operators at once in `CreateBackup` or `RestoreBackup`. Expiry of tokens, which no code sets.
* Encryption itself: AES-GCM opens what was sealed with the same key and nothing else.
* Configuration, logging, handlers that only read, `handleUpdateWill` (it sets the name of a will, which nothing the
  modules follow depends on), stubs that answer and do nothing (`handleCheckinAll`, `handleUpdateAction`,
  `handleDeleteAction`).
* The order of two goroutines inside Go's memory model: every variable they share is behind a
  mutex, a channel or the database. `lastTick` of the scheduler is the exception (health).

Where the documents say otherwise and a passing run shows what the code does (`findings` in `PROJECT.json`):

* A paused will can not be resumed: `handleActivateWill` asks for `DRAFT` (`internal/api/server.go:351`). The design document
  (lines 536, 809), `docs/ARCHITECTURE.md:84` and `service_test.go:40` have PAUSED to ACTIVE. `ImplementsSwitch` has
  `Resume` in the abstract switch, and the daemon never takes it.
* An execution that finds the pool full stays `QUEUED` for ever (`TurnedAwayIsLeft`), always so with one worker, since `processWill` holds
  it; `docs/OPERATIONS.md:158-160` has the operator wait for the scheduler.
* A will is TRIGGERED when its actions have been gone through, with executions still open or turned away; the design document (line 811) says
  when all are COMPLETED or EXHAUSTED.
* An action of a will without content fails before its execution is claimed, with the attempt unchanged, so it is
  retried for ever and never EXHAUSTED; the design document (lines 269-270) counts every failure.
* `VerifyChain` does not detect "any tampering" (`README.md:158`): see `ChangesAreFound`.
* An encrypted backup is restored from its `.enc` path (`BackupIsRestorable`); `KNOWN_GAPS.md:33` says the original name is expected.
* The "atomic replace" of `backup.go:159` renames whatever a failed write left (`FileIsWhole` excepts it).

Observed while modelling, without a run:

* Activation sets the deadline to the present (`internal/api/server.go:352`), so a will fires at the next tick unless its
  owner checks in first.
* A restore beside a running daemon leaves the old file's `-wal` at the path, and the next process to open the database
  mixes it into the restored one.
* `calculateRetryDelay` is called with attempts counted from 1 and indexed from 0, so the immediate first
  retry of the table is never used.
* Check-in for all wills answers `ok` and changes nothing.
* Shutdown does not wait for workers.
* `/unlock` and `/health` are registered under "Public routes (before auth)" (`internal/api/server.go:64`, README
  "Public Routes (no auth)"), but a middleware of a `mux` subrouter covers all its routes, so both need a token.
  No code makes the first token, since `/tokens` needs one too, though `docs/OPERATIONS.md:67-70` makes it through the API without.
* An engine that holds a wrong key answers `already_unlocked`.
* The limiter refills one request a minute after a burst of 60 (`internal/api/server.go:174`); `SECURITY.md:60` says 60 a
  minute. A limiter is made for every bearer string before it is verified, and none is removed.
* Two first `dw will create` make two keys, and `LIMIT 1` without an order decides which is loaded.
* The checksum of a backup is of the copy, so a copy torn in the fallback is restored.
* A restored backup of a newer build cannot be opened again by this one; the database it replaced is gone.
* A daemon that runs during a restore goes on with the file that was replaced (`docs/OPERATIONS.md:104` says to stop it).
* Nothing calls `CreateBackup` or `RestoreBackup`: `dw backup` prints their names.

## 6. Plan

Done, in this order: the daemon's core, the trigger's promises and the refinement of the switch; the audit log; executions and
prompt deliveries; keys, unlocking and tokens; migrations, backup and restore; the abstract deliveries and their
refinement by prompt behaviours; the conditional counterparts of two violated runs; deliveries that hang, dropped errors and the
log of the database. Every safety property of a passing run is also proved.

What could follow:

1. **Two rows of `crypto_meta`** in the composition: `Daemon` with an engine that opens some wills only.
2. **Health**: `lastTick` is written by the loop and read by handlers without a lock; a property needs what Go
   promises of such a read.
3. **Shutdown**: the engine is destroyed while workers run; each of their statements then fails.
