# Formal model of forge's provisioning core

This directory holds TLA+ specifications of the parts of forge
(`forge-build/forge`) that run provisioners on a build machine, the TLC
configurations that model-check them, and TLAPS proofs. It sits beside the
source under `src/`. The sources of the shell provisioner's controllers come
without file names, as `src/unnamed/part_000`. Line numbers below refer to
that file and to `src/pkg/ssh/ssh.go`.

## 1. Inventory

### Components

| Component | Source | State it keeps | Operations |
|---|---|---|---|
| ProvisionerJobOrchestrator | `part_000` 17-68 (`controller.Reconcile`) | none of its own; it mutates the `ProvisionerSpec` it is given (`spec.UUID`) and creates a batch/v1 Job | `Reconcile(ctx, client, build, spec)` |
| JobStatusWatcher | `part_000` 89-289 (`ShellJobController`) | none of its own; it reads Jobs from the informer cache and, live, from the API server; it lists pods; it emits failure records to an outcome sink (`setCache`); it deletes Jobs | `SetupWithManager` (watch predicates), `reconcileJobs`, `processCompleteScanJob`, `processFailedScanJob`, `deleteJob`, `GetTerminatedContainersStatusesByJob`, `getPodByJob`, `podListLookup`, `GetTerminatedContainersStatusesByPod` |
| RemoteExecutionClient | `pkg/ssh/ssh.go` | `Creds` (user, password, key, guarded by `Creds.mu`), `cryptoClient`, the `close` channel (guarded by the global `closeMutex`), `Options` (KeepAlive, Pty) | `Validate`, `Connect`, `keepAlive` (goroutine), `Disconnect`, `Run`, `Upload`, `Download`, `WaitForSSH`, credential getters and setters |
| Event predicates | `utils/predicates/predicates.go` | none | `All`, `ResourceHasFilterLabel`, `ResourceNotPaused` (pure filters) |
| Build API types | `part_000` 290-367, `part_001` | data only | none |
| Manifests, CI, tests | CRD YAML, `part_002`, `part_003`, `ssh_test.go`, `part_004` | none | none |

### How the components interact

The Build controller sits outside `src/`. For each `ProvisionerSpec` it calls
the orchestrator's `Reconcile`, then writes the mutated spec back to the API
server. That write-back uses optimistic concurrency, and on a conflict the
controller re-fetches the Build (spec §5). While `spec.UUID` is nil,
`Reconcile` does the following:

1. It mints a UUID.
2. It builds a Job labelled with the build name and the UUID.
3. It calls `CreateOrUpdate` on that Job.
4. It sets `spec.UUID`.

The two controllers share no memory. They interact through the API server's
Job objects and the UUID label. Kubernetes runs the Job's pod. Inside the pod
the provisioner image uses the RemoteExecutionClient to run the script on
the target machine. The Kubernetes job controller then appends conditions to
the Job. The informer copies the Job into the watcher's cache and enqueues
its key when the event passes the predicates (managed-by, namespace, labels,
at least one condition). Resyncs and status updates enqueue the key again.
The watcher then takes these steps:

- It reads the Job from the cache.
- It dispatches on `Status.Conditions[0]`.
- For a Failed Job, it re-reads the Job live and lists the Job's pods.
- It emits one failure record per container that terminated with a non-zero
  exit code.
- It deletes the Job with background propagation, so the pods are removed
  later.

Any error returned from `reconcileJobs` re-queues the key, with controller-runtime's rate limiting.

### What is hard

- **Partial failure across two writers.** The Job is created before
  `spec.UUID` is persisted by a different code path.
- **Stale state.** The watcher dispatches on a cache that lags the API
  server. Deleted Jobs can be re-delivered, and their pods outlive them.
- **Retries of work already done.** Failure records are emitted before the
  delete, and either step can fail.
- **Ordering of conditions.** Only the first condition is inspected.
- **Goroutine interleavings in the SSH client.** These are `keepAlive`
  against `Disconnect`, `Connect` against the credential setters, and the
  two or three goroutines of `Upload` and `Download` joined by a WaitGroup
  and a buffered error channel.
- **Timeouts and retries.** `WaitForSSH` runs a time-bounded retry loop
  around a 60 s dial.

The full list, each hazard at its line, is under `hazards` in `PROJECT.json`.

### What makes each component correct

- **Orchestrator.**
  - At most one live Job per provisioner.
  - The correlation id is assigned once and never changes.
  - Every provisioner eventually gets a Job.
- **Watcher.**
  - Failure records are sound: only non-zero exits of a Failed Job.
  - Failure records are complete: every non-zero exit is reported when the
    pod is readable.
  - Failure records are not duplicated.
  - Every Job is eventually resolved and deleted.
  - A Job is deleted only when terminal.
- **SSH client.**
  - `Disconnect` is idempotent and safe under concurrency: no double
    close of the channel.
  - The keepalive goroutine stops after `Disconnect`.
  - At most one keepalive runs.
  - Connect never dials without an auth method.
  - Upload and Download always return, and they return nil only when every
    goroutine succeeded.
  - An upload header is accepted by a download parser.
  - `WaitForSSH` returns within a bound.

## 2. Plan

Modules, in order of importance. Items marked [done] exist.

1. [done] `ProvisionerJobs`: the shared state (spec UUIDs, Jobs, conditions,
   pods, informer cache, work queue, failure records) and the Kubernetes
   environment actions.
2. [done] `Orchestrator`: `Reconcile` and the Build controller's write-back.
3. [done] `JobWatcher`: `reconcileJobs` and its helpers.
4. [done] `JobLifecycle`: composes 1-3 and adds fairness and the
   properties. `MC_JobLifecycle` and its `.cfg` files instantiate it.
   `JobLifecycleProofs` holds the TLAPS proofs.
5. [done] `SshSession`: `Connect`, `keepAlive`, `Disconnect` and the
   credential setters as interleaved goroutines (`MC_SshSession`,
   `SshSessionProofs`). [done] `WaitForSsh`: `WaitForSSH`'s retry loop
   with a clock in whole seconds (`MC_WaitForSsh`, `WaitForSshProofs`).
   Still to add: a refinement of WaitForSsh's Connect attempt by
   SshSession's Connect, and AtMostOneKeepAlive across reconnects.
6. [done] `ScpDownload` and `ScpUpload`: the goroutines, the WaitGroup,
   the error channel and its capacity, the pipe with a bounded window, and
   the remote `scp -f` / `scp -t`, for termination and for a nil result
   only after a complete transfer (§4).
7. [done] `ScpHeader`: the header's first field as Upload formats it
   (`%#o`) and Download checks it, with a TLAPS theorem over every uint32
   mode (§4b). The field splitting of the rest of the header stays
   abstracted to header classes.
8. [done] `EventPredicates`: `All`'s loop and the label and paused
   filters, as operators with TLAPS theorems (§4a).
9. Extensions of the lifecycle:
   - several pods per Job (backoffLimit), for `Items[0]`;
   - the success outcome reaching the Build's provisioner status;
   - [done] an abstract spec that JobLifecycle refines. It was planned
     per provisioner (`ProvisionerRun`). It became `JobLedger`, per Job,
     because a create that times out after it was committed gives one
     provisioner several Jobs (the `orphan_job` finding). A per-provisioner
     run would be refuted by the code, not refined.

Theorems planned:

- [done] `TypeCorrect` and `RecordsSoundInvariant` for JobLifecycle.
- [done] `FailuresReportedInvariant` and `AtMostOnceRecordInvariant`
  (without sink and Delete faults, the exclusion stated as a hypothesis).
- [done] `LedgerRefinement`: JobLifecycle implements `JobLedger`.
- [done] `SessionRefinesCloseSignal`: SshSession implements `CloseSignal`.
- [done] `TypeCorrect`, `NoClosePanicInvariant` and
  `NoNilClientPanicInvariant` for SshSession.
- [done] `WaitBoundedInvariant` for WaitForSsh.
- [done] `UploadSoundInvariant`, `DownloadSoundInvariant` and the type
  theorems for ScpUpload and ScpDownload.
- [done] `FilterPasses`, `AllIsConjunction` and `NilHandlerPanics` for
  the event predicates (§4a).

## 3. The job lifecycle model

### State (`ProvisionerJobs`)

| Variable | Code |
|---|---|
| `uuid[p]` | persisted `ProvisionerSpec.UUID` (`NoId` = nil) |
| `used`, `owner[i]` | UUIDs given to Jobs; the Job's build-name / provisioner-id labels |
| `jobs` | Jobs existing in the API server |
| `conds[i]` | `Job.Status.Conditions` (types only), kept after deletion for the properties |
| `pod[i]`, `terminated[i]`, `exitCode[i]` | the Job's pod: not terminated / terminated / removed; containers whose state is Terminated; their exit codes |
| `cached`, `cconds[i]` | the informer cache's copy of the Job |
| `queue` | the controller-runtime work queue (a set, as it de-duplicates keys) |
| `recCount[i][c]` | failure records emitted by `setCache` for container `c` of Job `i` |
| `faults` | number of injected API or sink failures (bounded by `MaxFaults`) |

Data is abstracted:

- UUIDs, provisioners and containers are model values.
- Conditions are their types.
- The failure record's reason and message are left out. Only which
  container it names, and how often, matters to the properties.

### Actions

- `Orchestrator!Ensure(p)` is the whole of `Reconcile` (lines 24-68) plus
  the write-back (`PersistUuid`, modelled from spec §4.1/§5 because the
  Build controller is not in `src/`).
  - Guard: `spec.UUID == nil`, and `spec.Run != nil`. Line 41 dereferences
    `spec.Run` whenever `RunConfigMapRef` is set, so a ConfigMap-only spec
    panics there and the step does nothing. Every run gives each
    provisioner an inline script, and `ProvisionerStarts` speaks only of
    provisioners with one: a ConfigMap-only provisioner is never started
    (the hazard at line 41), which the property does not claim.
  - A `CreateOrUpdate` error returns before `spec.UUID` is set. The
    fault `CreateError` creates nothing. The fault `CreateTimeout` stands
    for an error that reaches the client after the API server committed
    the Job, so the Job exists and `spec.UUID` stays nil.
  - Otherwise the Job is created and the UUID is persisted, or the
    write-back is lost.
- `JobWatcher!Reconcile(i)` is `reconcileJobs` (lines 114-146).
  - Cache NotFound or no conditions: done.
  - First condition Complete: `ProcessComplete`, which deletes.
  - First condition Failed: `ProcessFailed`.
  - Any other first condition: error and re-queue.
- `ProcessFailed` runs the live re-read of the Job (`getPodByJob`, line
  240). NotFound returns an error. Otherwise the outcomes are:
  - an API error;
  - a sink error before any record (`Cache.DeleteJob`);
  - a sink error part-way through the record loop, after any subset of the
    records (Go map order);
  - all records, then `DeleteJob`.

  A pod that is gone or not terminated yields no statuses (lines 248-251,
  267-285).
- `DeleteJob` has two outcomes: deleted (NotFound counts as success), or an
  error that re-queues the key.
- Each reconcile of one key is one atomic step. controller-runtime never
  runs two reconciles of one key at once. The only concurrent writers are
  Kubernetes, and the cache's lag stands for their interleaving with the
  watcher's cache read.
- Environment (Kubernetes, not code of this repository):
  - `PodTerminate`: init containers run, then main containers only if
    every init container exited 0.
  - `JobCondition`: the job controller appends `SuccessConds` or
    `FailureConds`.
  - `PodGone`: pod GC, eviction, or the cascade after deletion.
  - `CacheSync`: an informer add, update or delete event, filtered by the
    predicates.
  - `Resync`: periodic resync, or another status update.

### Fairness

Weak fairness applies to:

- `Ensure(p)`: the Build controller requeues while `spec.UUID` is nil.
- `PodTerminate` and `JobCondition`: Kubernetes runs every pod to a
  terminal condition. This assumes the provisioner scripts terminate.
- `CacheSync`: the informer delivers every change.
- `Reconcile`: workers drain the queue.

`PodGone` and `Resync` are not fair: they may or may not happen. Faults are
bounded by `MaxFaults`, so weak fairness on steps that may fail is enough
for progress.

### Runs

All runs use `MC_JobLifecycle`. The containers are one init container
(`ci`) and one main container (`cm`), and the exit codes are {0, 7}.
`CHECK_DEADLOCK FALSE` is set because the system really stops: once every
provisioner's Job is resolved, nothing in this core has work.

| Run | Bounds | Checks | Shows |
|---|---|---|---|
| `lifecycle_faults` (pass) | 1 provisioner, 2 UUIDs, all five fault kinds, `MaxFaults = 1` | TypeOK, RecordsSound, FailuresReported, JobEventuallyDeleted, ProvisionerStarts, JobLifecycleImplementsLedger | Records stay sound and complete, and Jobs are cleaned up, under any single API, sink or write-back failure. The second UUID lets a lost write-back create an orphan Job; the provisioner, which has an inline script, is still started. Every step is a `JobLedger` step or a stutter. |
| `lifecycle_twoprov` (pass) | 2 provisioners, 2 UUIDs, refused creates and API errors, interim `SuccessCriteriaMet` | AtMostOnceRecord | The live re-read of the Job (line 240) prevents double reporting when a stale cache entry of a deleted Job is re-delivered while its pods still exist. The interim condition exercises the "unrecognized condition" branch. |
| `dup_records` (violation) | Delete errors | AtMostOnceRecord | Finding: a Delete error after the records re-emits them on retry (spec §4.2 says exactly one). The retry also repeats `r.Cache.DeleteJob` (line 184) and the failure metric (line 202). |
| `orphan_job` (violation) | create timeouts and write-back conflicts | AtMostOneJobPerProvisioner | Finding: a create that errors after it was committed (line 49), or a lost `spec.UUID` write-back, leaves a live Job. The next Reconcile mints a new UUID and creates a second one (spec §3). |
| `interim_stuck` (violation) | `FailureConds = <<FailureTarget, Failed>>` | JobEventuallyDeleted | Finding: dispatch on `Conditions[0]` never resolves a Job whose first condition is interim (spec §9 open question). |

Why these bounds are enough:

- Every property is about one Job, one provisioner, or a pair of them.
- Two UUIDs are enough for one lost write-back.
- Two provisioners let two Jobs, their caches and queue entries interleave.
- Two containers of different kinds distinguish the init/main handling.
- One fault per behaviour reaches every fault path. Each duplicate or
  orphan needs only one fault.

Larger instances (3 UUIDs, 2 faults) were tried. They run to millions of
states without showing new behaviour.

Each property of a passing run has a mutant, listed in `PROJECT.json`: a
plausible bug that TLC catches. Examples:

- `spec.UUID` set before the create (TypeOK: the UUID is then owned by
  no Job).
- The `spec.UUID == nil` check inverted (ProvisionerStarts).
- The `ExitCode == 0` skip dropped.
- Only main containers collected.
- No `JobFailed` case.
- Pods looked up through the cached Job instead of the live one. This
  also breaks the refinement: records are then taken from a stale outcome.

### The abstract ledger (`JobLedger`)

`JobLedger` says what the lifecycle promises about each Job, without
caches, queues, pods or conditions. A Job is `unused`, `live` or
`deleted`. It is created once. It finishes once, and the set of its
failed containers is fixed when it does. Records are emitted only for
containers of that set, only while the Job is live and finished, and the
Job may be deleted in the same step. How many records a container gets
is left open, because the `dup_records` finding shows retries repeat
them.

The mapping, in `JobLifecycle`:

- `jstate`: unused if the UUID was never used, live if the Job exists,
  deleted otherwise;
- `finished`: the Jobs whose live condition list is non-empty;
- `failed`: for a Job whose first condition is `Failed`, its terminated
  containers with a non-zero exit code;
- `records`: the record counts.

`Create` is Ensure's create. `Finish` is the environment appending the
first condition. `Report` is a reconcile that records and possibly
deletes. Every other step (cache, queue, pod, write-back, faults) is a
stutter. That a pod terminating does not change `failed` needs
`PodFirst`: a Job with conditions has a pod. So the pod terminates before
the first condition, and the outcome is fixed from then on.

## 4. The SSH client model

### SshSession

The goroutines are `Main` (it runs `MaxConnects` Connect/Disconnect
brackets), the `Closers` (other goroutines that call `Disconnect` at any
moment), one keepAlive goroutine per successful Connect, a caller rotating
the credentials, and the server, which may drop a connection.

| Variable | Code |
|---|---|
| `pc[c]` | where goroutine `c` is in `Connect` or `Disconnect` |
| `key`, `password` | `Creds.SSHPrivateKey`, `Creds.SSHPassword` (`Empty` is "") |
| `auth` | the `cssh.AuthMethod` Connect chose (`"none"` = nil) |
| `conn`, `alive`, `nConns` | `client.cryptoClient`; connections the server still serves |
| `closeCh`, `closed`, `nChans` | `client.close` (0 = nil); channels `close()` was called on |
| `holder` | the holder of the package-level `closeMutex` |
| `ka[k]`, `kaCh[k]` | where keepAlive goroutine `k` is; the channel its select evaluated |

A step ends wherever the code reads or writes a shared field without a
lock, or takes a lock:

- `Validate` (lines 470-480) and `ChooseAuth` (183-193) read the
  credentials without `Creds.mu`. In `ssh_concurrent` a rotation can clear
  the key between the two. Then `Dial` takes its nil-auth disjunct: the
  data race that is listed as a hazard at line 183.
- `Dial` (195-213) panics when the auth method is nil (the handshake calls
  a method on it).
- `ConnectLock` and `ConnectLocked` (215-224) make the channel if it is nil
  and start keepAlive.
- Disconnect (246-258) is `DSelect`, `DLock`, `DClose` and `DClear`.
  Closing a closed channel goes to the `closePanic` pc.
- keepAlive (227-243) is `KaSelect`, which evaluates `client.close` at
  each select, `KaTick`, `KaSignal` and `KaSend`. `KaSend` reads
  `client.cryptoClient` at that moment, without a lock (line 233): a nil
  client goes to the `nilPanic` state, a dropped connection ends the
  goroutine.
- The setters (506-524) are atomic, because they hold `Creds.mu`.

Fairness: weak fairness for every goroutine step. Go runs every runnable
goroutine, the ticker keeps firing, and `closeMutex` is released by every
holder. The server and the rotating caller need not act.

| Run | Bounds | Checks | Shows |
|---|---|---|---|
| `ssh_concurrent` (pass) | 2 brackets, 1 extra Disconnect caller, keepAlive on, 2 rotations (key replaced or cleared, password set or cleared) | NoClosePanic, NoNilClientPanic, DisconnectReturns, SessionImplementsCloseSignal | Concurrent and repeated Disconnects never double-close and always return. A keepAlive goroutine that outlives its Disconnect, while the next Connect writes `cryptoClient`, never finds it nil: Connect stores the client only after checking dial's error. The close channel behaves as `CloseSignal` says. 126k states. |
| `keepalive_leak` (violation) | 1 bracket, no drops | KeepAliveStops | Finding: a keepAlive goroutine that first reaches its select after Disconnect reads a nil channel. Disconnect does not close the connection, so the goroutine pings forever. WaitForSSH's connect-then-disconnect is exactly this case. |

### The abstract close signal (`CloseSignal`)

`CloseSignal` says what `client.close` promises. There is at most one
open signal. `Open` makes a fresh one, and at most `MaxChans` are made.
`Close` closes the current signal, which must not be closed yet, and
clears it. SshSession maps onto it:

- `sig` is `closeCh`, or 0 while some goroutine is between `close()` and
  the reset to nil;
- `shut` is `closed`, and `made` is `nChans`.

`ConnectLocked` making a channel is `Open`, `DClose` is `Close`, and
every other step is a stutter. A step to `closePanic` is a stutter too,
because `NoClosePanic` already rules it out. The refinement does not
cover the stale-read hazard at line 253: a Disconnect that read the
channel of an earlier session can close the new one, and `CloseSignal`
allows that.

### WaitForSsh

`now` counts whole seconds. A Connect attempt is `dial` (lines 132-146)
as Connect calls it (173-225). Its TCP dial takes a time from `DialTimes`,
at most `DialTimeout`, because `net.Dialer` has a `Timeout`. If the dial
succeeded, the handshake in `cssh.NewClientConn` takes a time from
`HandshakeTimes`, which has no upper bound, or never returns when
`HandshakeHangs`: no deadline is set on the connection. The attempt then
fails or succeeds. `CheckDeadline` is lines 494-499: the check against
maxWait and the 2 s sleep.

With maxWait 5 s and attempts that fail at once, the code attempts at 0,
2, 4 and 6 s and returns ErrTimeout at 6 s: 4 attempts. Spec §8 describes
this case with 2 or 3 attempts. The model follows the code, and
`WaitBounded` states the bound the code keeps: at most
`maxWait / sleep + 2` attempts. The disagreement with the spec has no
violation run of its own; it is listed as the hazard at line 495.

| Run | Bounds | Checks | Shows |
|---|---|---|---|
| `wait_bounded` (pass) | maxWait 5 s; dials of 0, 1 or 60 s (the dial timeout), handshakes of 0, 2 or 90 s or hanging | WaitBounded | ErrTimeout comes only once maxWait has passed. No attempt starts after maxWait + 2 s, and there are at most 4 attempts. How long the last attempt, and so the return, takes is not bounded: a 90 s handshake runs past every bound the code has. |
| `handshake_hang` (violation) | a silent peer | WaitReturns | Finding: WaitForSSH never returns. Spec §5 says it blocks for up to maxWait. |

Mutants:

- dial's result stored in `cryptoClient` before its error is checked, so
  a failed dial leaves it nil (NoNilClientPanic);
- `client.close` not reset to nil (NoClosePanic);
- a plain receive instead of a select with a default (DisconnectReturns);
- `DClear` that leaves the closed channel in `client.close`
  (SessionImplementsCloseSignal);
- `>` instead of `>=` at the deadline (WaitBounded).

### ScpDownload and ScpUpload

The channel between the client and the remote `scp` is a sequence `buf`
of units: the header line, `FileSize` data units and the NUL. The writer
side may append only while `Len(buf) < Window`: the SSH channel window.
Once the remote has exited the channel is closed, and writes fail
(Upload's `Put`). The remote process (OpenSSH `scp -f` or `scp -t`) is
not code of this repository. It is the environment: `RemoteHeader`,
`RemoteData`, `RemoteExit`, `SinkHeader`, `SinkData`, `SinkTrailer` and
`SinkEOF`, written from the scp protocol, and it is not in the map.

Download's goroutines are `Ack` (lines 295-309), the reader (`ReadHeader`
319-338, `CopyUnit` 340-345) and the runner (`RunReturns` 348-353). A
goroutine that fails moves to `"fail"` and then sends on `errs` (`Send`:
the channel has capacity `ErrCap`, and a send blocks when it is full).
`Finish` is `wg.Wait()` and the non-blocking select (358-365). The header
the remote sends is one of a few classes, and the reader tells them apart:

- `ok`;
- `fields`: a name with a space gives four fields;
- `lead`;
- `length`: non-numeric;
- `remoteError`: scp's `\x01` line, followed by exit 1;
- `missing`: scp is not installed, so there is no output and a non-zero
  exit.

Upload's writer (`WriteHeader` 437-438, `CopyUnit` 439-443, `WriteTrailer`
445-447) ends in `"done"`, which is the deferred `wg.Done()`. Only then
does it close stdin (`CloseStdin`, 429-435), because the defers run in
reverse order. The runner returns once the sink has exited, and the sink
exits only at EOF on stdin.

Fairness: weak fairness for each goroutine and for the remote process. Go
runs every runnable goroutine, and a process that is not blocked runs.

| Run | Bounds | Checks | Shows |
|---|---|---|---|
| `download_transfer` (pass) | 2 data units, window 3 (the remote blocks until the header is read), every header class, session and dst failures | TypeOK, DownloadSound, DownloadReturns | Every path returns. nil means dst has the whole file and scp exited 0. |
| `download_hang` (violation) | 3 data units, window 2, four-field header, dst failure | DownloadReturns | Finding: the reader gives up without draining stdout, scp -f blocks on the full window, and wg.Wait never returns. Spec §8 says "never hang". |
| `upload_transfer` (pass) | 3 data units, window 3, every failure | TypeOK, UploadSound, UploadReturns | Upload returns and stdin is closed, although wg.Done comes first. nil means the sink stored everything and exited 0. |

The bounds suffice for these runs:

- The hang needs `FileSize >= Window`: what remains after the header must
  not fit the window.
- The passing runs keep `FileSize + 2 > Window`, so the writer side still
  blocks on the window at least once.
- Larger sizes only repeat the data step.

Mutants:

- `io.CopyN` replaced by reading on to EOF (TypeOK);
- the select after `wg.Wait` dropped (DownloadSound, UploadSound);
- `errorChan` of capacity 1 (DownloadReturns);
- io.Copy with one unit too many (TypeOK);
- stdin never closed (UploadReturns).

## 4a. The event predicates

`EventPredicates` models `utils/predicates/predicates.go`. It is pure: a
filter has no state, so the module has operators and theorems and no
TLC run.

- A `predicate.Funcs` is a record: the set of event types whose handler
  field is set, and the handlers (`Funcs`).
- An object is abstracted to what the filters read: the paused annotation,
  and the value of the watch label. An absent label reads as `""`, as a Go
  map lookup gives.
- An event carries `object` and `objectOld`. `object` is `e.ObjectNew` for
  an update.
- `processIfNotPaused` (lines 105-114) and `processIfLabelMatch` (116-130)
  are one line each. The empty label value returns early, before the label
  is read.
- `All` (19-67) runs the same loop for each event type. `AllOutcome` is
  that loop's result:
  - `"true"` when every handler returns true;
  - `"panic"` when the loop reaches a predicate whose handler field is nil,
    because `p.UpdateFunc(e)` is called without a check;
  - `"false"` at the first handler that returns false.

  `Reaches(preds, t, e, i)` says that the loop gets to predicate `i`. The
  loop is written without recursion, so the provers can use it.
- `utils.HasPaused` and `HasWatchLabel` are not in `src/`. They are
  modelled from their contract (the annotation is present; the label
  equals the value).

Theorems, for every label value, event type and event:

- `FilterPasses`: `ResourceNotPausedAndHasFilterLabel` never panics. It
  passes an event exactly when the new object is not paused, and the
  label value is empty or the object has it. The old object of an update
  is never read. So an update that pauses an object, or removes its watch
  label, is dropped.
- `AllIsConjunction`: over predicates with every handler set, `All` is
  the conjunction of their results.
- `NilHandlerPanics`: `All` panics when its loop reaches a nil handler
  field. controller-runtime's own `Funcs` methods treat a nil field as
  true. No caller in this repository passes a partial `Funcs`, so this is
  a hazard for other users of the package.

## 4b. The scp header field

`ScpHeader` models the first field of the scp `C` header. Upload writes
it with `fmt.Fprintf(w, "C%#o ...", mode)` (line 438, `mode uint32`), and
Download rejects any first field that is not five characters starting
with `C` (lines 328-331). OpenSSH's `scp -t` wants exactly four octal
digits there, the same form.

- A text is a sequence; an octal digit is written as its value.
- `PlaceValue[k]` is 8^(k-1), written out for k in 1..11, since eleven
  octal digits hold any uint32. `Digits(m, k)` says that m has k digits,
  and `NumDigits(m)` chooses that k. `OctalDigits(m)` gives the digits,
  most significant first.
- `FormatSharpOctal` is Go's `%#o`: a `0` goes in front unless the first
  digit is already `0`. So 0 is formatted `0` and not `00`.
- The table replaces `8^k`, because the SMT backend cannot use a power
  with a symbolic exponent.

Theorem `UploadLeadAccepted`: for every uint32 mode, `C%#o` passes
Download's check exactly when the mode is in 0100..0777. This is also
exactly when `scp -t` accepts it. The proof:

- every mode has exactly one digit count (`DigitsExist`, `DigitsUnique`,
  split over the eleven counts);
- a nonzero mode has a nonzero leading digit, so `%#o` adds the `0`, and
  the field is k + 2 characters long (`FormatLength`);
- 5 characters means k = 3, which means 64 <= mode <= 511.

So Upload of a file with mode 0644 works. A mode with setuid, setgid or
the sticky bit (for example 04755) gives a five-digit field. A mode below
0100 (for example 0 or 070) gives too few digits. The sink refuses both,
and ScpUpload's `reject` fault covers what the caller then sees.

## 5. What is proved

`JobLifecycleProofs` proves five theorems for every value of the constants
that satisfies `ConstAssumption`. The assumption says there is at least one
provisioner, `NoId` is not a UUID, init and main container names are
disjoint, exit codes are naturals including 0, the condition sequences are
non-empty, and the faults are among the six kinds.

- `TypeCorrect == Spec => []TypeOK`. It is proved by one lemma per
  component (`EnsureTypeOK`, `ReconcileTypeOK`, `EnvironmentTypeOK`),
  with a case per disjunct. It includes the fact that a persisted UUID
  always names a created Job.
- `RecordsSoundInvariant == Spec => []RecordsSound`. RecordsSound is not
  inductive on its own. Two facts are needed:
  - The watcher emits records on the cached first condition. So the
    strengthening adds `CacheConsistent`: a non-empty cached condition list
    has the live list's head. This holds because conditions are only
    appended.
  - A recorded container's exit code must not change afterwards. So it
    adds `RecordedPodTerminated`: a Job with records has a terminated pod,
    and `PodTerminate` only fires on an unterminated pod.

  `IInv == TypeOK /\ CacheConsistent /\ RecordedPodTerminated /\ RecordsSound`
  was checked with TLC as an invariant first. The proof then shows
  `Init => IInv` and `IInv /\ [Next]_vars => IInv'` with one lemma per
  component. The key lemma is `ReconcileRecords`: a reconcile either
  leaves the records alone, or adds records for failed containers of a Job
  whose cached head is Failed.
- `FailuresReportedInvariant == Spec => []FailuresReported`, under every
  fault. It is proved from `IInv` and FailuresReported itself. The key
  lemma is `ReconcileDeletes`: a reconcile deletes only its own Job, and
  only in one of two ways.
  - The cached head is Complete. By `CacheConsistent` the live head is
    Complete too, so the Job is not Failed.
  - The step has just recorded every failed container.

  After the Delete, a Job's conditions, pod and exit codes can no longer
  change (`EnvironmentReported`), except that the pod may go away, and
  records never decrease.
- `AtMostOnceRecordInvariant == NoRetryAfterRecord => (Spec =>
  []AtMostOnceRecord)`. `NoRetryAfterRecord` says that `SinkError` and
  `DeleteError` are not among the faults. The strengthening is
  `RecordedOnce`: a container has at most one record, and a Job with
  records is used and no longer live. Without those two faults, a
  reconcile that records anything records every failed container of a
  live Job and deletes it in the same step (`ReconcileNoRetry`). Ensure
  mints only fresh UUIDs, so a deleted Job is never live again. The
  `dup_records` run shows the property failing once `DeleteError` is
  allowed.
- `LedgerRefinement == Spec => JobLifecycleImplementsLedger`, under
  every fault. The invariant is `IInv /\ PodFirst`. `PodFirst` (a Job
  with conditions has a pod) is proved inductive on its own. The step
  lemmas are `EnsureLedger` (a create is `Create`), `EnvironmentLedger`
  (the first condition is `Finish`, a later one or a pod termination is
  a stutter), and `ReconcileLedger` (by `ReportStep`, a reconcile that
  records is `Report`; by `RecordNothing`, one that does not is a
  stutter or a `Report` with no records). `CacheConsistent` gives the
  live head from the cached one, and `RecordedPodTerminated` keeps the
  exit codes fixed.

`SshSessionProofs` proves four theorems under `SessionAssumption`.

- `TypeCorrect == Spec => []TypeOK`. The counter bounds need `Counting`:
  - a dial happens only in an unfinished bracket;
  - connections are at most the brackets, plus one while Main is in
    `closeMutex`;
  - channels are at most the brackets.
- `NoClosePanicInvariant == Spec => []NoClosePanic`. The strengthening has
  two parts:
  - `LockHeld`: a goroutine in `closeMutex`'s critical section is its
    holder, so at most one is there (`LockUnique`).
  - `ClosedWhileClearing`: a closed channel is still in `client.close`
    only while some goroutine is between `close()` and the reset to nil.
  
  So a goroutine about to close a closed channel would have to be that
  goroutine, and it is not. TLC checked the whole `IInv` on the
  `ssh_concurrent` instance first.

- `SessionRefinesCloseSignal == Spec => SessionImplementsCloseSignal`.
  It uses the same `IInv`. `LockHeld` makes the clearing goroutine the
  only one in the critical section, so a `DClose` of a non-nil channel
  sees `sig = closeCh`. `ClosedWhileClearing` makes that channel
  unclosed, which is `Close`'s guard. `Counting` bounds `nChans` below
  `MaxConnects` when `ConnectLocked` makes a channel.
- `NoNilClientPanicInvariant == Spec => []NoNilClientPanic`. The
  strengthening `ClientSet` says that `cryptoClient` is non-nil while Main
  is in the section that starts keepAlive, and whenever any keepAlive
  goroutine exists. A failed dial leaves the field as it was, a
  successful one sets a real client, and nothing resets it to nil, so a
  goroutine that outlives its Disconnect still finds a client. Its ping
  may fail, and that ends it; it cannot dereference nil.

`ScpDownloadProofs` proves `DownloadSoundInvariant == Spec =>
[]DownloadSound` and `DownloadTypeCorrect == Spec => []TypeOK`. They hold
for every file size, window, error-channel capacity, set of header classes
and set of faults. The strengthening `Reported` says:

- A result is set only once Download has returned. So no goroutine step
  can change `written` under a nil result.
- The reader copies only after an `ok` header, and it ends without an
  error only with `written = FileSize`.
- The runner ends only after scp -f exited. After that `exitErr` is
  fixed, and an error exit is already on `errorChan`.
- A goroutine in `"fail"` holds a real error, so its send keeps `errs`
  in `Seq(Errors)`.

`ScpUploadProofs` proves `UploadSoundInvariant == Spec => []UploadSound`
(and `UploadTypeCorrect`)
for every file size, window and error-channel capacity, under every
failure in `FaultKinds`. The strengthening has two halves, each proved
by the backend that suits it:

- `Counts` (SMT): the sink's position bounds what it has received.
  Nothing is received before the header, less than the file while
  reading data, and all of it at the trailer and after.
- `Reported` (Zenon): a sink that exited 0 stored everything. The runner
  finishes only after the sink has exited. An error exit is then already
  on `errorChan`, which only grows.

Finish returns nil only on an empty channel, so a nil result implies a
clean, complete store. The type invariant is split the same way, into
Boolean and data parts.

`WaitForSshProofs` proves `WaitBoundedInvariant == Spec => []WaitBounded`
for every maxWait, sleep (> 0), dial timeout, set of dial durations within
it and set of handshake durations, which may be arbitrarily long.
`WaitBounded` is not inductive: the attempt bound needs to know how much
time each attempt consumed. The strengthening says:

- about to attempt, at least one sleep per earlier attempt has passed, and
  less than maxWait plus one sleep (the check before saw less than
  maxWait);
- after an attempt, at least one sleep per attempt but the last has
  passed;
- a result is set only at the end.

So the attempt count times the sleep stays below maxWait plus two sleeps.
The proof does not bound when the call returns: the last attempt's
handshake has no deadline.

`EventPredicates` holds its own three theorems (§4a). They need no
invariant: each unfolds the operators for one event. `ScpHeader` proves
`UploadLeadAccepted` (§4b) by arithmetic over the digit counts.

What stays with TLC:

- All liveness (JobEventuallyDeleted, ProvisionerStarts,
  DisconnectReturns, DownloadReturns, UploadReturns), since TLAPS does not handle fairness and ENABLED
  here.
- AtMostOnceRecord under the faults that break it, and
  AtMostOneJobPerProvisioner (the violation runs `dup_records` and
  `orphan_job`).

## 6. Not modelled, and why

- The SSH client's `Run` (one `session.Run`, with no concurrency of its
  own) is not modelled. Beyond its first field (§4b), Download's header is
  abstracted to the classes the reader tells apart. The size field and
  the split on spaces are among them. The credential
  getters change no state.
- In SshSession, the username check of `Validate` is left out (a username
  is assumed). Each of `Validate` and the auth choice reads the two fields
  in one step. The interleaving between them, which the finding needs, is
  kept.
- Several pods per Job (job retries) are left out: each Job has one pod.
  So `Items[0]` (line 249) is not exercised.
- `processFailedScanJob` refers to identifiers the shell controller does
  not define: `getActionTypeFromJob`, `scanjob`, `r.Metrics`, `r.Cache`,
  `setCache`. It reads as code carried over from a scan-job controller.
  The model keeps its control flow: the sink steps that can fail, the loop
  and the delete. It abstracts the action-type and image lookups as
  non-failing, and drops the `ClusterDeleteAction` branch, which a shell
  Job cannot take.
- The success outcome: `processCompleteScanJob` records none. The line
  "Update Build Provisioner Status" is a comment. This is listed as a
  hazard with a planned property.
- API types, CRD/RBAC YAML, CI configuration: data and generated files,
  with no behaviour.
