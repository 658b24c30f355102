# A formal model of Rule-Bot Client

TLA+ specifications of Rule-Bot Client, the TLC runs that check them on small
instances and the TLAPS proofs of what holds for every instance. Paths are
relative to the root of the repository; `client/` stands for
`src/internal/client/` and `openwrt/` for `src/internal/openwrt/`.

## The system

One client process follows the log streams of Mihomo controllers, keeps the
domains that the final `MATCH` rule handled in a deduplicated file, and may hand
them to a Rule-Bot service.

```
 controller --/logs, /connections--> reader, snapshot   (one pair per controller)
                                        |  candidates (bounded channel)
                                     processor + deduplication set
                                        |  writes (bounded channel)
                                     writer --buffer--> output file --fsync--> durable size
                                                                                  |
 Rule-Bot service <----HTTP---- sender <---- reads up to the durable size --------+
                                   |
                                checkpoint file (offset, retries, pause)
```

On OpenWrt a second program, the back end of the LuCI pages, writes the
configuration of the client, restarts it, backs its data up, clears it and
updates the packages. Each request is a process of its own; the rpcd bridge
waits for it, so requests of the pages follow one another, but procd, package
scripts and cron run the same code at any time, without a common lock.

```
 LuCI page --ubus--> rpcd bridge --one process per request--> back end
                                                               |  writes
      package scripts, procd triggers                          v
                 |                          UCI file, credentials, exclude list
                 v                                             |
         init script: stop, initialize, generate  <------------+
                 |                     |
                 v                     v
          procd -> client <---- config.json          output, checkpoint <- clear, restore
 cron, page --> update worker -- update.lock, update-status.json -- opkg or apk
```

### Components

| Component | State | Operations | What is hard | What makes it correct |
|---|---|---|---|---|
| Rule-Bot sender, `client/rulebot.go` | scan offset, bounded queue of retries, endpoint pause, delivered keys, checkpoint file | open and rebuild, one turn of `Run`, `deliver`, write of the checkpoint | crash between rename, directory sync and end of turn; lost answers; Retry-After across restarts; a full queue; edits of the exclude file | nothing forgotten, nothing acknowledged sent again, checkpoints always accepted, deadlines kept, no starvation |
| Privacy policy, `client/privacy.go` | none (the exclude file) | projection of a host to what is sent | the file is read again for each record | excluded hosts are not sent |
| Output store, `client/writer.go` | file, buffer, dirty flag, durable size | open with repair of the tail, write, flush and fsync, close | torn lines, failed writes, an fsync that never came | set of seen domains equals what is stored, no repeated line, durable size never ahead of the disk |
| Deduplication set, `client/dedupe.go` | map, then a hash table in a file | `Add`, spill, growth | change of representation, probing, growth | answers of a mathematical set |
| Pipeline, `client/app.go` | goroutines, two channels, results | read, submit, process, write; select, cancel, join | order of the shutdown, any failure at any time, full queues | no send on a closed channel, nothing submitted is lost, every failure reported, the process ends |
| Controller client and reconnection, `client/client.go`, `client/app.go` | log stream, backoff, snapshot slot | connect, read, snapshot, wait | a snapshot that outlives its stream, authentication floor, delayed response headers | no gap between snapshot and stream, bounded waits |
| Parser, `client/parser.go`, `client/domain.go` | none | recognise log lines, normalise hosts | exact forms, bounded lines | only exact forms count |
| Status reporter, `client/status.go` | status in memory, one wake-up, status file | events, coalesced writes, ticker, last write | the last event before a quiet period, failing writes | the file catches up |
| Configuration, `client/config.go` | none | validation | numeric ranges | rejects what the rest assumes impossible |
| Locks, `client/lock_*.go` | file lock | lock, unlock | none beyond the system call | one client per output |
| Self update, `client/selfupdate*.go` | binary, backup | replace, health check, roll back | failure of any step | a working binary remains |
| OpenWrt settings, `openwrt/backend.go`, `openwrt/generate.go` | UCI file, credentials, generated configuration, service | save, switch of the updates, service actions, rollback | outside starts write settings back, failure of any step, power loss | all of a request or nothing, no inherited secret, the client runs with what is stored |
| OpenWrt backup, `openwrt/archive.go`, `openwrt/backend.go` | archive, output, checkpoint | backup, restore, clear, rollback | copies of a running client's files, replacement under a client | checkpoint fits output and vouches for delivered lines only, the client comes back |
| OpenWrt package update, `openwrt/update.go` | lock file, status file, installed package | check, install, verify, roll back | stale locks, killed and terminated workers, outdated workers | one installer, a true final status, the latest version in the end |
| OpenWrt initialisation and discovery, command line, LuCI front end, service scripts | little | text processing, dispatch | — | — |

## Modules

| Module | What it is |
|---|---|
| `RuleBotSender` | the sender with its checkpoint file, an environment that captures records, lets time pass and edits exclusions, stops and power losses |
| `ReliableForwarding` | what the sender promises, abstractly: a record is settled only after the service took over its key, and never unsettled |
| `RuleBotSenderProofs` | theorems about the sender: its checkpoints, what it delivers, and the refinement of `ReliableForwarding` |
| `OutputStore` | the store, with the processor that feeds it |
| `Delivery` | `OutputStore` and `RuleBotSender` in one process; the sender is an `INSTANCE` whose output is the file up to the durable size |
| `DeliveryProofs` | theorems about the store inside `Delivery`, and about store and sender together; `RuleBotSenderProofs` is an `INSTANCE` |
| `Pipeline` | the goroutines of one process and their end |
| `PipelineProofs` | theorems about them |
| `FingerprintSet` | the deduplication set |
| `FingerprintProofs` | theorems about it |
| `Controller` | one controller, the reader that follows it with its snapshots and backoff, the forms of the log lines, and the status reporter |
| `ControllerProofs` | theorems about them |
| `SettingsStore` | the settings requests of the OpenWrt back end, the runs of the init script and the client as far as its configuration goes |
| `Transaction` | what a settings request promises, abstractly: all of it or nothing |
| `SettingsProofs` | theorems about `SettingsStore`, and the refinement of `Transaction` |
| `DataArchive` | clear, backup and restore around a running client |
| `ArchiveProofs` | theorems about it |
| `PackageUpdate` | workers, check, lock, status and package manager |
| `PackageUpdateProofs` | theorems about it |
| `MC…` | values of the constants for TLC |

### How state and actions correspond to the code

**RuleBotSender.** `offset`, `pending`, `pauseUntil` and `delivered` are the
fields of `ruleBotSender`; `retryTurn`, `retrying` and `index` are the locals of
`Run`. `stateFile` is the checkpoint the file system shows and `stateStable` the
one a power loss is certain to preserve; they differ between the rename
(`Rename`) and the directory sync (`Synced`, `CreateSynced`) of
`writeRuleBotState`. A turn of `Run` is `SkipFresh` or `SkipRetry` (the record
needs no request) or `StartFresh` or `StartRetry`, then `Acknowledged` or `Failed`,
then `Synced`. `Failed` covers the three kinds of failure that the code treats
differently (a `temporary_error` of the application, a failure of transport or
endpoint, an authentication or throttling status), each with or without the
request having reached the service. `phase` records where between these steps a
crash can strike.

**OutputStore.** `file` holds complete lines, `tail` the unfinished last one,
`synced` what is certain to survive a power loss, `durable` the size published
to the sender. `OpenClean`, `OpenRepair` and `RepairSynced` are `openOutput` with
`loadExistingDomains`; `WriteLine`, `Flush` and `FlushSynced` are `Run` and
`flushAndSync` with the moment between flush and fsync; `torn` says that a full
buffer was written out in the middle of a line.

**Pipeline.** One location variable per goroutine (`reader`, `snapshot`,
`processor`, `writer`, `sender`, `main`), two bounded sequences for the channels,
`consumed` for the results that `Run` has received. `SelectShutdown` and
`SelectResult` are the branches of its select, `ReadersJoined`, `ProcessorJoined`,
`Collect` and `Return` the lines after it.

**FingerprintSet.** `table.file` is the whole cache file in slots; `Grow` appends
the table of twice the size and inserts what the old one holds, in slot order.
`InsertAll` is the loop of `grow` over the slots and of `spill` over the map, a recursive
function with the body `InsertNew`.

**Controller.** `link` is the position of `runInstance`, `stream` what the controller
has logged since it was asked and the reader has not read. `snap` is the
snapshot goroutine that holds the slot; `snap.now` says whether its stream is still
the current one. `Asks`, `Connects`, `Reads`, `Disconnects` and `TriesAgain` are the
loop; `TakesSnapshot` to `EndsSnapshot` the goroutine; `Shows` what `connected`,
`disconnected` and `event` do; `WakesUp` to `Writes` the reporter, with the moment
between the copy of the status (`Marshals`) and the rename. `link` also says whether the
wait follows a refusal (401 or 403). A log line is a sequence of hosts, markers and words:
`Line` puts the names of proxy and rule and the text of the error, which are arbitrary such
sequences, where Mihomo writes them, and `Parsed` is `parseLogPayload` on the whole of it: the
target stands between the last arrow before the end marker and that marker, wherever
these are. `Readings` tabulates what a line of each connection may be read as.

**SettingsStore.** `uci`, `creds`, `readable` and `conf` are the files (the last one in
memory), `svc` and `client` what procd has and what the client has loaded. `rpc` is
the process of a request with its step, request and snapshot; `start` the runs of
the init script, one for the request and one for everything else, each as the steps
stop, load, write back and secure, generate, launch. A save is
`SaveBegins`, `WritesCredential` with `SecuresCredential`, `WritesUCI`, `Generates`, `Reloaded`,
`ConfirmsHealthy` or `StopsDisabled`, `Commits`; `SaveFails`, a failing start or
`ConfirmTimesOut` lead to `Restores`, file by file in any order, and `RestartsOld`.

**DataArchive.** `out` and `ckpt` are the files that requests replace, `client` the
lines of the file that the client has open, whether a name still leads to it, its
offset, and whether it was started for the restore that waits for it. The requests share
their steps: `ReadsOutput` and `ReadsState` (the snapshot, one file after the other),
`Stops`, then `Truncates` to `RemovesState` (clear) or `PurgesOutput` to `OwnsFiles` (restore, and
its rollback with `rpc.src` as the snapshot), `Starts`, `Confirms`. The rollback of a clear
writes or removes the two files directly (`AppliesOutput`, `AppliesState`). `other` is a run of the
init script from outside, by a package script, a reload trigger or the operator:
`OutsideBegins`, with or without a stop, and `OutsideStarts` or `OutsideFails`, at any moment
of a request.

**PackageUpdate.** `worker[w]` is `runUpdate` with the version the process was built as
(`cur`), the package it goes for (`target`), whether it looks at the service and whether
its context is cancelled. `Acquires`, `FindsLock`, `RemovesLock` and `Releases` are
`acquireUpdateLock`; `Resolves` to `VerifiesOld` the steps of `runUpdate`, each with its
failures and its entry in `status`. `Selection` is the loop of `selectUpdatePackage`, a
recursive function over the manifest with the body `Considered`.

### Abstractions

- Offsets count lines, not bytes. Time is a clock in ticks that advances only while
  some deadline lies ahead; nothing else in the code reads it.
- The answers of the Rule-Bot service and what controllers report are
  nondeterministic. Hosts, keys and fingerprints are model values; IDNA, the
  Public Suffix List and SHA-256 are functions given by constants.
- Writes of the temporary file of a checkpoint are invisible: only the rename
  shows them. The directory entry of the output is taken to be durable.
- After a power loss any prefix of the unsynchronized part of the output may
  remain, the first missing line cut short (`Torn`). An invalid tail keeps the
  client from starting.
- In the sender, a failure to write the checkpoint, an unreadable exclude file and
  a cancelled context all end the process between two steps: they are `Stop`.
- In `Pipeline` a goroutine's end and the result it leaves are one step, and the
  Rule-Bot sender is enabled. Without it the pipeline is the same with one
  goroutine less.
- In `Controller`, captured events are the set of domains submitted; jitter is at one
  of its two extremes; lines that are too long or malformed only raise a counter and
  are left out. Between a host and the end marker anything without a host is its port, as
  `net.SplitHostPort` has it. A controller forgets connections without a log record and may
  withhold its response headers until it logs.
- In `SettingsStore` a replaced file is one step and survives a power loss:
  `atomicWrite` synchronizes the file but not the directory. A CA file is handled like
  a secret and is not modelled twice. `preserve_secret` is left out, since no page
  sends it. `rc.common` may report a start as successful although `start_service` failed.
  procd keeps a client whose configuration file is the same.
- In `DataArchive` stopping the service ends the client (procd waits 30 s and kills), and a
  start of a service that runs keeps its client or replaces it, as procd does with an
  unchanged or a changed configuration. Settings are the enabled option; a restore that
  changes the storage location is left out.
- In `PackageUpdate` writing the status succeeds; priorities of architectures are
  natural numbers; a killed worker's package manager runs to its end; opkg does
  nothing where the same package is installed already, apk reinstalls. Version 1 is
  installed at the start, by hand or by an image.
- A fingerprint set is used by one goroutine and never after an error, so an
  `Add` is one step, and a failed file operation is the end.

## Runs

| Run | Question and result | Bounds |
|---|---|---|
| `sender` | Under every order of captures, answers, failures, stops and power losses, are checkpoints always accepted, is nothing lost, sent twice after its acknowledgement or sent too early, and does the sender implement `ReliableForwarding`? It holds. | four hosts of which two share a key and one is `.cn`, queue of two, three records, three faults, no exclusions |
| `sender_live` | With exclusions edited at run time, `send_existing` off, jitter, Retry-After and a queue of one: is nothing forgotten, and is every key delivered or excused in the end? It holds. | two records, two faults |
| `sender_excluded` | Does at-least-once delivery hold with exclusions? It does not, see below. | two records, one stop |
| `delivery` | Are set, file, buffer and channel consistent under kills, failed writes and power losses, and is no line passed over although the file may shrink and grow again? It holds. | two lines, two crashes, buffer and channel of one |
| `delivery_power` | With power losses alone: is the durable size honest, no restart refused, every durable line delivered? It holds. | the same |
| `delivery_refused` | The same with a kill before the power loss: a restart can be refused, see below. | the same |
| `pipeline` | Is the end of the process orderly whatever fails, does it come after every signal and failure, and is what a reader holds saved? It holds, without deadlock. | two controllers with a snapshot each and two reported hosts, or one controller and three; three hosts, one of them without projection; queues of one |
| `fingerprints` | Does the set answer like a set for every hash function and order? It holds. | six keys, four hash values, four in memory, eight slots growing to sixteen |
| `controller` | Do stream and snapshot leave no gap, are only final matches submitted, do delays stay in bounds, and does the status file catch up? It holds. | a connection of the final rule and one of any kind; names that are plain, hold a marker, or hold a target before a marker; errors that mention a peer or hold a marker; two mishaps, delays 10 to 35 with the floor 30 |
| `settings` | Does a request take effect as a whole or not at all, is no secret inherited, does the client end up with what is stored? It holds, with the exceptions that the history variables name. | two controllers, two secrets, two requests of four kinds and the other actions, two mishaps |
| `archive` | After clear, backup, restore and their rollbacks, with starts of the service from outside at any step, does the checkpoint fit the output and vouch for delivered lines only, and does the client come back? It holds, with the same proviso. | two lines, three requests, two mishaps |
| `package_update` | One installer at a time, a true final status, and the latest version in the end? It holds, with the same proviso. | two workers, two versions, two architectures with different or equal priorities, three packages, two mishaps |

The OpenWrt runs and `controller` have properties with a premise over history variables (`lost`,
`torn`, `raced`, `broken`, `halted` in `SettingsStore`; `torn`, `cut`, `astray`, `broken`, `lost` in
`DataArchive`; `stolen` in `PackageUpdate`; `misled` in `Controller`). Each of these variables
becomes true at exactly one kind of event that the code cannot repair or does not
guard against; the properties say that nothing else breaks them. The section on
known limits lists the events.

Why the bounds are enough: each case that the code distinguishes occurs within
them. Three records and a queue of two make the queue full while fresh records wait
and several retries compete; three faults are enough for a failure, a stop in
the attempt that follows and one more in its recovery. In `delivery` one crash
makes the durable size stale and a second one cuts the file back. In `pipeline`
queues of one are full with the second element. A reader before a full queue that
nobody receives from needs three hosts, one lost with the processor (or held by it
while the writer is gone), one in the queue and one in hand: the configuration with one
controller reports three, the one with two controllers, where one of them disturbs the
other, reports two. In
`fingerprints` the fifth key spills, the sixth grows the table, and the hashes
0, 6, 7 and 15 collide in a table of eight, wrap, and part in one of sixteen.
In `controller` the delay doubles twice and is cut back, both below and above the
floor; one mishap breaks a stream whose snapshot is still running and a second one
the next attempt or a write. In `settings` the first request can leave, remove or
disable what the second one adds, and two mishaps give every pair of a failure, an
outside start, a failing rollback and a power loss. In `archive` three requests are a
backup, a clear and the restore of that backup, with two of a failure, a slow client, a start
from outside and a power loss on the way: a failing restore and an outside start in the middle of its
rollback are two mishaps. The checkpoint can lie before, at and behind the end of an output of
none to two lines. In `package_update` the second worker waits, finds an old lock, or is started
by the version that the first one has installed; the second mishap hits the rollback
of what the first one broke.
Bounds are the constants marked so: `MaxOutput`, `MaxFaults`, `MaxLines`, `lines`,
`MaxCrashes`, `MaxRequests`, `MaxMishaps`, `MaxVersion`. Only `pipeline` checks for
deadlock: a client with nothing to send, and a back end without requests, really wait.

### Fairness

Every goroutine that can take a step takes one. For the sender: turns, attempts
(the HTTP client gives up after 30 s), the end of a checkpoint write, the clock,
and the start of a client that went down, which the service manager sees to. For
the store: opening, and the writer with its ticker. For the pipeline: the
goroutines, connection attempts and backoffs, reads that fail once the context is
done, and snapshot requests with their time limit of 15 s. For the status: the reporter and its
ticker. For the back end: the process of a request, the runs of the init script, a
client that can open its files (procd starts it again; a restore gives up after 12 s a client
that cannot, or that is an older one), update workers, cron that starts one a day (with automatic updates on), and the
ageing of a lock. Nothing makes a
controller report, a page send a request, a signal arrive, a worker fail or a server accept within a
bounded number of failures; the last is what `MaxFaults` grants, since without an
accepting server nothing can be delivered.

### Where code and documentation differ

- `sender_excluded`: the delivered keys are rebuilt at a start from all records
  before the offset with exclusions cleared (`client/rulebot.go:245`). An excluded
  host therefore makes a later, eligible host of the same registrable domain
  count as delivered, and it is never sent, although
  `docs/design-contract.md:94` promises at-least-once delivery.
- `delivery_refused`: the size of a file left by a killed client becomes the
  durable size without an fsync (`client/writer.go:83`). The sender may read and
  checkpoint lines that a power loss then takes away, and the next start refuses
  the checkpoint, against `docs/design-contract.md:85-86`.

### Known limits that the models show

Where a property has a premise over a history variable, TLC finds the behaviour when
the premise is dropped. They are consequences of the code that no document
contradicts, except for the last two.

- A line cut short by a crash that still reads as a domain, such as `example.co` of
  `example.com`, is completed and kept (`client/writer.go:116`).
- `initialize` writes the UCI file back as it loaded it (`openwrt/initialize.go:48`). A start
  from outside that overlaps a request puts the settings from before it back, also
  after a rollback or a power loss (`lost`). The switch of the automatic updates
  (`openwrt/update.go:478`) does the same to a start that finishes in between.
- A power loss in the middle of a save leaves settings and credentials of two versions
  (`torn`); `EventuallyServed` still holds, and so does `NoInheritedSecret` unless the loss
  cuts a rollback off (`lost`). `restoreFiles` puts the files back in the order of a Go map
  (`openwrt/backend.go:313`). After three mishaps, a power loss that leaves a secret without
  its controller, a later save that adds the controller and fails, and a second power loss
  once the old secret is back but the settings are not, the controller has the old secret.
- A backup or a snapshot for a rollback reads the output before the checkpoint
  (`openwrt/archive.go:51`); if the client delivers in between, the pair does not fit (`torn`),
  and after a rollback to it the sender refuses to start. `EventuallyBack` then promises nothing,
  and `CheckpointCovers` only that a pair which fits skips no line.
- A power loss or a failing operation within a rollback, or a power loss within a replacement
  of the two files (`cut`), leaves an output and a checkpoint of two versions, for example
  when the power fails between the truncation and the removal of the checkpoint in `clear`
  (`openwrt/backend.go:686`).
- A rollback does not stop the client first (`openwrt/archive.go:141`, `openwrt/backend.go:674`). A
  client that comes up too late for the 12 s, that procd has kept, or that a start from outside
  brings up in between (`astray`) collects into a file without a name, or worse, skips lines: a
  restore fails after it has applied the checkpoint of the backup, which is greater than that of
  the snapshot; the rollback writes the output of the snapshot back; a package script starts the
  client, which opens this output with the checkpoint of the backup; the rollback writes the
  checkpoint of the snapshot, and its start keeps the client. With the next line that it delivers
  the client stores its own offset, and the lines between the two checkpoints are never sent.
- A start from outside writes the settings back that it loaded before a restore (`lost` in
  `DataArchive` too); the service may then be enabled although the backup disables it.
- Two workers that find the same stale lock can remove each other's new one, and
  a worker that takes more than 30 minutes loses its lock (`openwrt/update.go:510`, `stolen`).
  Nothing excludes that workers do so again and again; `EventuallyUpdated` leaves the times out
  in which two of them work at once (`Overlap`).
- `checkUpdate` writes the status without the lock (`openwrt/update.go:464`), so a
  running installation may show as checked. Settings that cannot be loaded, or a
  missing work directory, leave the status at `checking` (`openwrt/update.go:636`).
- SIGTERM cancels the commands of the rollback too (`openwrt/update.go:265`); the
  update then ends as failed with whatever is installed.
- A worker compares the latest release with its own version (`openwrt/update.go:411`). One that
  waited for the lock of another finds its target installed: opkg does nothing, the service is
  not started anew, `confirmHealthy` finds no fresh status, and the worker takes the device back to
  the version before. The next update corrects it, so the device is at the latest version again
  and again (`[]<>` in `EventuallyUpdated`) but not from some moment on.
- The markers of a log line are searched in the whole payload (`client/parser.go:37-46`), and
  `net.SplitHostPort` accepts any text as a port. A proxy whose name contains ` match Match using `,
  or a rule or an error text with a marker, makes a connection of another rule count as final,
  or another host count as its target (`misled`), although `docs/design-contract.md:51-52` says that
  rule and proxy names must not be treated as matching domains. `OnlyFinal` is about lines without
  a marker in a name or error; all other texts, targets included, do no harm.
- A reconnect takes no snapshot while an older one holds the slot (`client/app.go:280`),
  although `docs/design-contract.md:54` says that a reconnect requests one; `NothingMissed`
  is about streams with a snapshot of their own.

## Proofs

The proof modules show the following for every value of the constants that satisfies the
named assumptions of the component's module: what the configuration checks enforce
(positive limits, an initial delay not above the maximal one), the shape of constants that
stand for functions, and that the special values `None`, `NoKey` and the like are no
ordinary ones. A hypothesis beyond that is part of the theorem and discussed below.

| Module | Theorem | Property |
|---|---|---|
| `RuleBotSenderProofs` | `TypeCorrect` | `TypeOK` |
| | `RestartAccepted` | `StateAccepted`: every checkpoint a crash can leave is accepted by the next start |
| | `NothingForgotten` | `NoLoss`: each record before the offset of any checkpoint was taken over, is queued in that checkpoint, or was excused |
| | `TurnsTaken` | `Alternation` |
| | `DeadlinesKept` | `DeadlinesHonoured` |
| | `DeliveredAtLeastOnce` | `AtLeastOnce`, if the exclusions cover whole keys |
| | `SentOnce` | `NoResend`, if they also are never edited |
| | `SenderForwards` | `ImplementsForwarding`, with no exclusions and with existing records sent |
| `DeliveryProofs` | `SeenExact` | `SeenIsAccounted` |
| | `LinesDistinct` | `NoDuplicates`, if no line cut short reads as another domain |
| | `DurableKept` | `DurableIsSynced`, if the client is not killed |
| | `DeliveryTyped` | `DeliveryTypeOK` |
| | `LinesAccounted` | `NothingSkipped`, if no line cut short reads as another domain or the client is not killed |
| | `StartsAccepted` | `NeverRefused`, if the client is not killed |
| `PipelineProofs` | `TypesKept` | `TypeOK`: in particular no queue exceeds its capacity |
| | `ChannelClosedLast` | `NoSendOnClosed` |
| | `FailuresReported` | `ErrorReported` |
| | `NothingLeftBehind` | `Drained` |
| `FingerprintProofs` | `SetTypeCorrect` | `TypeOK` |
| | `TableNeverFull` | `NeverFull` |
| | `AnswersAlwaysExact` | `AnswersExact`, for every hash function |
| `ControllerProofs` | `DelaysBounded` | `TypeOK`: in particular the bounds of the delays |
| | `SubmitsOnlyFinal` | `OnlyFinal` |
| | `StreamAndSnapshotOverlap` | `NothingMissed` |
| `SettingsProofs` | `SettingsTyped` | `TypeOK` |
| | `SecretsNotInherited` | `NoInheritedSecret` |
| | `RequestsAreTransactions` | `ImplementsTransaction` |
| `ArchiveProofs` | `ArchiveTypes` | `TypeOK` |
| | `CheckpointNeverSkips` | `CheckpointCovers` |
| `PackageUpdateProofs` | `TypeCorrect` | `TypeOK`: in particular nothing but a newer version is gone for |
| | `LockExcludes` | `OneInstaller` |
| | `StatusTellsTruth` | `StatusTruthful` |

The bounds on faults, lines, requests and mishaps are constants like the others: the
theorems hold for all their values, so no number of crashes breaks a property that is
proved.

### The sender

`StateAccepted` is not inductive: what a turn writes is computed from memory. The
inductive invariant `Safe` adds `InStep` (memory equals the checkpoint file between
turns, and all but the offset agrees at the end of one) and `SendingReal` (the
record being sent exists, has a key, and a fresh one fits the queue). Its proof
has one lemma per kind of step, over lemmas about removing, appending and updating
entries of a queue without repetition.

`NoLoss` is not inductive either: a record is skipped because its key is in
`delivered`, so one must know what that set vouches for. `Covered` adds
`DeliveredCovered`: each delivered key is acknowledged, waived, queued in the
checkpoint file, or the one being sent. The last case is why a failure must queue
the record and why the set may be rebuilt at a start.

`Alternation` rests on the bit `retryTurn` being the negation of the last kind of
turn after a turn that passed over the other kind. `DeadlinesHonoured` follows
from `InStep`: what is compared with the clock in memory is what the file says.

What is delivered in the end depends on the exclusions. `AtLeastOnce` needs that they
cover all hosts of a key or none (`WholeKeys`); with a list that names a host below a
registrable domain it is false, which `sender_excluded` shows. It follows from `NoLoss` and
from `WaivedExcused`: only excluded keys are waived.

`NoResend` needs `Known` (the keys of all records before the offset are in `delivered`, or
excluded) and `FirstOfKey` (a fresh record being sent is the first of its key), which is
why the next occurrence of a key is skipped. It needs exclusions that are not edited as
well (`Steady`): a key whose request is under way at a crash is skipped at the next start
if it is excluded by then, its offset goes into the checkpoint, and nothing remembers that
when the exclusion is lifted. TLC finds that behaviour when `Steady` is dropped.

For `ImplementsForwarding` the settled records are those that the checkpoint preserved by
any power loss (`stateStable`) accounts for and does not queue. An accepting answer maps to
`Acquire`, a directory sync to `Settle`, and most steps to a stutter. `Retained` makes the sync
a legal `Settle`: the checkpoint file has settled whatever the stable one has. `NoLoss` makes it
justified: the keys of what is settled were taken over. The theorem is for a configuration
that asks for every record, since an excused record is settled without a key taken over.

### The store

The argument follows a line from the channel through the buffer into the file.
`AllLines` is the file with everything on its way to it, and it changes at two places only: where
a line is accepted and where a crash cuts it. `StoreSafe` says what a store that is not
open may hold, `Indexed` that the set holds all lines once the file was read.
`Distinct` adds to `NoDuplicates` that a line cut short is not already in the file, which
is the hypothesis `TornIsComplete`; without it the line that a crash leaves of
`example.com` may be a domain that is stored already, and it stays.

`DurableIsSynced` needs that what was not synchronized makes the store dirty
(`Synchronized`). This holds only without kills: `openOutput` takes the size of the file
over as durable, and what a killed process wrote was not synchronized (`delivery_refused`).

### Store and sender together

The theorems about the sender are about an output that only grows, and in the client it
does so only while the sender is up: a power loss cuts the file back, and a store that is
down publishes nothing. So the proof takes over the steps and not the theorems.
`RuleBotSenderProofs` states what each kind of step keeps as a lemma of its own: the work of
the sender (`SafeWork`, `CoveredWork`, `FirstCoveredWork`, `OrderedWork`) and the growth of
its output (`SafeGrows`, `CoveredGrows`). `DeliveryProofs` instantiates that module with the
readable lines as the output, shows that every step of the client is one of the two as long
as the sender stays up (`SenderWorks`, `ReadableGrows`), and handles its ends itself.

`SenderInv`, from which `DeliveryTypeOK` follows, says what remains of `Safe` while the sender
is down: the queues of the checkpoints are in order, and the stable checkpoint is not ahead of
the other one (`Ordered`). When a start accepts the checkpoint it finds, the other one is
therefore acceptable too, and `Safe` holds again (`SafeBefore`).

`NothingSkipped` is not inductive, for two reasons. A start builds `delivered` from the
lines before the offset, so that a line may be passed over because an *earlier* line of its key is
queued; when a crash cuts the file, a queued line that came later could be gone. `Settled`
therefore asks for a queued line of the key at or before the line itself (`FirstCovered` in
terms of the sender). And an unfinished line becomes a line of the file at the next
start, so `Settled` speaks of `Text`, the file with its unfinished line. What a crash does to
it is the lemma `TextKept`: before the offset of a checkpoint it cuts lines off, but replaces
none. That needs that a line cut short does not read as another domain (`TornIsComplete`),
or that no checkpoint reaches behind what a power loss preserves (`Preserved`), which holds
without kills. If neither is given, the property is false: a killed client leaves lines
that were not synchronized, the next one sends them, and a power loss turns one of them
into a shorter domain that no checkpoint ever comes back to. TLC finds that behaviour when a line
of `MCDelivery` may read as a third domain.

`NeverRefused` follows from `Preserved`. With kills it is false (`delivery_refused`).

### The deduplication set

`Good` is the invariant of a table: its slots are the end of the file, no key is in two of
them, `count` is the number of keys, and the way from a key's hash to its slot passes no free
slot (`Reached`). With at least one free slot the search ends (`SearchEnds`): going round
the table from any hash passes all slots (`AllSlotsProbed`), and the first slot on the way that
holds the key or is free is the key's own or, if it is not stored, the one where writing it keeps
`Reached`. That there is a free slot is counting: a full table would be an injection of the
slots into fewer keys (`FreeSlot`).

`InsertAllKeeps`, by induction over the keys, carries this through `spill` and `grow`. It needs room
for all keys only as the code provides it: twice the slots for a growth, and for a spill
the assumption that `maxInMemoryFingerprints` is at most 70 % of
`initialFingerprintSlots`, which is half of them (`client/dedupe.go:16`). `AnswersExact` then says that
the map, and after the spill the table, hold exactly the fingerprints ever added (`SetInv`).
Neither the hash function nor the order in which Go ranges over the map matters.

### The pipeline

Four inductive invariants. `Typed` adds to
`TypeOK` that a goroutine that submits has something in its hand. `Closing` says
that a reader outlives its snapshot and that the channel is closed after the
readers. `Reporting` ties the results already received to the error to be returned:
only goroutines that have ended fail or are collected, and `fatal` is set as soon
as a collected one has failed. `Accounting` follows a host from the candidate
channel to the set, the processor's hand, the second channel, the buffer and the
output; it needs `Closing` because a processor that has finished must not find the
channel filled again.

### The controller

`OnlyFinal` is about lines with any names and error texts. `ReadAs` says what each line may be read
as when none of these holds a marker, from one lemma per form of line (`ParsedFinal`, `ParsedFailed`,
`ParsedOther`). They rest on where a mark stands first, or last before the end marker, in a
concatenation (`FirstIs`, `LastIs`): the marker of the line comes first, whatever the names before
it are, as they hold none; the arrow of the line is the last one before that, as whatever an
error mentions comes after it; and a host is no marker. A line with a marker in a name or error
puts what it is read as into `misled`. Then `OnlyFinal` needs only that a snapshot holds
connections of the final rule (`Selected`).

`NothingMissed` needs `Overlap`: as soon as a snapshot of the current stream has its
answer, what it does not hold has been submitted or lies in the stream. That is true
because the stream is opened first, and a snapshot counts as current only while its
stream is up (`Current`).

### Settings

`PhaseInv` says how far a request is: which credentials it has written, that the
settings follow after all of them, and what a rollback has put back. It holds until a
stale write has come between (`lost`). From it the steps of the refinement follow: the
promise changes its value where a request commits, and a request that ends otherwise has
put everything back. `NoInheritedSecret` needs `GrantInv`, which says of secrets not only
that the stored ones were given to their controller since it was added, but also those that a
rollback would put back and those that the request brings. A rollback in progress is the
exception that the proof brought to light; see the limits above.

### Backup and restore

`CheckpointCovers` speaks of the moments between requests only. `CoverInv` extends it to
each step, as long as no replacement was cut off and no client ran during one (`Calm`): copies whose
parts fit are covered whenever they were made (`CopiesInv`), since what was dealt with stays so; between
the two reads of a copy the output only grows (`ReadInv`); a running client has the current file open,
stands within it and is covered (`ClientInv`); the files are covered except while they are being replaced
(`FilesInv`), and of what is replaced the parts that are done are those of the source
(`PurgedInv`, `AppliedInv`). A start from outside may bring a client up between any two of these steps. While
the files are replaced the invariant says nothing of it: it sets `astray` when it opens them, or the
next replacement does when it finds it running. `Calm` is a statement about the past (`CalmBefore`), so
each step may assume it of the state before. That a sender never stands behind the end of its file
(`ArchiveTypes`) needs none of this: `openRuleBotSender` compares the two.

### Package updates

`Owned` says that a worker between `Acquires` and `Releases` has made the lock file that
lies there, as long as none was `stolen`; two installers would both have made it. `Truth`
says what a worker that verifies has installed, and that the status of an earlier
update is gone before a worker can change the package. `StatusTruthful` also says that
the installed package is the best one for the device, which is a statement about
`selectUpdatePackage`: lemma `SelectionCorrect` shows by induction over the manifest
that an unambiguous result of `Selection` is in the manifest and has a higher priority than
every other package the device accepts.

### Only model-checked

- Liveness: `EventuallyDelivered`, `EndToEnd`, `EventuallyReturns`, `EventuallySaved`,
  `EventuallyShown`, `EventuallyServed`, `EventuallyBack`, `EventuallyUpdated`. TLAPS 1.4
  reasons about neither `ENABLED` nor fairness.
- The examples of what goes wrong without the hypotheses above: each is a behaviour of a small
  instance.

Every safety invariant and action property of the passing runs, and both refinements, are
proved.

The library's induction theorems have an operator as a parameter, which the installed
provers cannot instantiate. `SelectionCorrect` and `InsertAllKeeps` therefore use induction as
a statement about sets of numbers (`AllNumbers`, `EveryNumber`), derived from the
well-foundedness of `<`. That the recursive functions they are about are defined at all is shown in
the same way (`SelectionDefined`, `FilledDefined`).

## Plan

1. Done: the modules above, their runs, and proofs about all of them.
2. Open: liveness beyond the small instances, which needs a prover for fairness.
3. Worth modelling next: the self update, as one process between the service manager and two
   binaries, and the initialisation of the OpenWrt configuration, of which
   `SettingsStore` has only the steps that write files.

## Not modelled

- Validation of the configuration (`client/config.go`, most of `openwrt/config.go`), the
  UCI syntax, discovery of OpenClash and Nikki, the probe, manifest and version
  syntax: sequential text processing without state. What they accept appears as
  the values of constants and as assumptions on them.
- The file locks: single system calls, which the models assume to work (one client
  per output).
- The self update of the client (`client/selfupdate*.go`): one process that renames
  files and asks systemd or the Windows service manager to restart; what is hard
  about it is the state of those, not of this program.
- The LuCI pages, `recover.sh`, build and deployment scripts.
- In the status, the sizes of the output and of the retry queue that the reporter copies
  before each write, and the storage reserve.
- In the sender, steps of the wall clock: nothing says what should happen. A shutdown
  between an answer with Retry-After and the checkpoint loses the pause by design.
