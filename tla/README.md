# Verification of Discord Unlocker

Discord Unlocker is a Windows launcher written in Go. It looks for a public
SOCKS5 proxy that works, remembers it, starts Discord Stable with a route
through it and ends. This directory holds TLA+ models of the parts of the
launcher where order, concurrency or partial failure matter, the TLC
configurations that check them on small instances, and TLAPS proofs that hold
for every instance. Paths below are relative to the repository root.

`tlc -workers 2 -config X.cfg M` runs a check, `tlapm M.tla` checks the proofs of a
module: `VerifyPoolProofs`, `EndpointCheckProofs`, `ResolverProofs`, `LauncherProofs`,
`DiscoveryProofs`, `ActivationProofs`, `CacheProofs` and `InstallerProofs`. Every safety
property that a passing run checks is also the statement of a theorem.

## 1. Inventory of the system

| component | code | state it keeps | operations | talks to |
|---|---|---|---|---|
| activation | `cmd/discord-unlocker/main.go`, `internal/cli`, `internal/runtimepaths` | none of its own; the exit code | `run` | log, mutex, launcher run |
| singleton mutex | `internal/winutil/mutex_windows.go` | a handle of a named kernel object | `AcquireNamedMutex`, `Close` | other activations of the session |
| log | `internal/logging/logging.go` | the log file and three older ones | `Open` (rotates), `Printf`, `Close` | other activations, through the files |
| launcher run | `internal/application/application.go` | its local variables; the `Result` | `Run`, `prepare`, `directOrPreserve` | cache, resolver, Discord client (all calls, in one goroutine) |
| proxy cache | `internal/cache/cache.go` | one JSON file, temporary files beside it | `Load`, `Save` | launcher run; the file outlives crashes |
| resolver | `internal/proxy/find.go` | the normalised options, the selection | `Resolve` | verification pool twice, ProxyScrape once |
| verification pool | `internal/proxy/find.go` (`verifyMany`) | two channels, goroutines, counters | `verifyMany` | endpoint verification; the context |
| endpoint verification | `internal/proxy/find.go` (`verify`), `socks5.go`, `fetch.go` | connections, a deadline watcher | trace, gateway TLS and WebSocket, API | the network |
| ProxyScrape source | `internal/proxy/fetch.go`, `endpoint.go` | none | `fetchProxyScrape`, `SanitizeEndpoint` | the network |
| Discord client | `internal/discord/launch_windows.go`, `process_windows.go`, `client.go`, `proxy_route.go` | a process handle, a timer and a ticker | `RunningProcesses`, `LaunchWithProxy`, `LaunchDirect` | Windows processes, which the user also starts and ends |
| installation discovery | `internal/discord/install.go` | none | `FindStable` and the comparison of versions | the file system |
| console | `internal/winutil/console_windows.go` | none | attach, allocate | Windows |
| installer | `installer/discord-unlocker.iss` | shortcut backups, registry values, the autostart entry | install, reinstall, uninstall | the user's shortcuts |
| build and release | `scripts` | none | build, verify | outside the program |

`PROJECT.json` gives each component's status and, under `hazards`, what is
hard to test in it, at its line. What makes each component correct, and what is
hard about it:

- **Verification pool.** Every candidate gets one verdict; a batch that was cut
  short is never taken for a complete one; the call returns and leaves no
  goroutine. Hard: the feeder, the workers, the closer and the caller meet on an
  unbuffered and a buffered channel while the context may end between any two
  steps, and a `select` may take any ready case.
- **Endpoint verification.** TLS starts on the first byte behind the proxy's answer;
  the deadline ends the verification whatever the proxy does; no connection and no
  goroutine stays behind. Hard: three legs with a connection, a deadline and a watcher
  goroutine each; an answer in pieces of any size; HTTP dials that run on without the
  context of the verification, and a WebSocket handshake that no context reaches.
- **Resolver.** One budget of candidates over two batches and one fetch; a failure
  in the middle discards nothing that already passed; the error says the truth
  about what was left unchecked. Hard: the many return paths, the copies between
  cache and feed, the limits that fall back to defaults.
- **Launcher run and Discord client.** The user always gets Discord; a running
  Discord is left alone; the mode that is reported is the one that happened.
  Hard: Discord starts and ends at any moment, it is looked for three times and
  the answer is stale at once, and every step may fail.
- **Proxy cache.** The file is always the old or the new one; what was saved can
  be loaded; nothing stale or refused comes out. Hard: a crash between the steps of
  `Save`, the width of the latency, the wall clock.
- **Activation, mutex and log.** One launcher at a time, and never none because of
  a refused one. Hard: the log is rotated before the mutex is held, and the
  kernel object counts handles, those of refused launchers too.
- **Installer.** Uninstalling gives back the shortcut that was there. Hard: setups
  that are interrupted or repeated over shortcuts that changed in between.
- **Installation discovery.** The newest complete `app-*` directory by numeric order, and
  one that the search for processes recognises. Hard: versions of any shape, and
  `Update.exe`, which adds and removes directories during the scan.

## 2. Modules

| module | models | on top of |
|---|---|---|
| `VerifyBatch` | the promise of one `verifyMany` call, without goroutines | |
| `VerifyPool` | `verifyMany` with its goroutines and channels; implements `VerifyBatch` | `VerifyBatch` (refinement) |
| `VerifyPoolProofs` | the theorems about `VerifyPool` | `VerifyPool`, TLAPS |
| `Socks5` | `dialSOCKS5` in the three dials of a verification: dialogue, deadline, watcher | |
| `EndpointCheck` | `finderConfig.verify`: the three legs and what they leave behind | `Socks5` |
| `EndpointCheckProofs` | the theorems about `EndpointCheck` | `EndpointCheck`, TLAPS |
| `Resolver`, `MCResolver` | `Resolver.Resolve` with the parsing of the feed; constants for TLC | `VerifyBatch` (each batch) |
| `ResolverProofs` | the theorems about `Resolver` | `Resolver`, TLAPS |
| `DiscordClient` | the three calls of `discord.Client` among Windows processes | |
| `Launcher` | `Runner.Run` | `DiscordClient` |
| `LauncherProofs` | the theorems about `Launcher` | `Launcher`, TLAPS |
| `Discovery`, `MCDiscovery` | `FindStable` and the order of versions; constants for TLC | |
| `DiscoveryProofs` | the theorems about `Discovery` | `Discovery`, TLAPS |
| `Activation` | `run` in several launchers: log rotation, mutex, deferred calls | |
| `ActivationProofs` | the theorems about `Activation` | `Activation`, TLAPS |
| `CacheFile` | the promise of `cache.Save`: an atomic register | |
| `Cache`, `MCCache` | `Save` call by call, `Load` as a function; constants for TLC | `CacheFile` (refinement) |
| `CacheProofs` | the theorems about `Cache` | `Cache`, TLAPS |
| `Installer` | the `[Code]` section of the installer | |
| `InstallerProofs` | the theorems about `Installer` | `Installer`, TLAPS |

`Resolver` uses a batch only through `VerifyBatch`, and `VerifyPool` is shown to
implement it, by TLC with its liveness and by TLAPS for its safety part. So what
is checked of the resolver holds over the real pool. The pool in turn takes a
verification as a verdict that comes in time, which is `DeadlineEndsVerify` of
`EndpointCheck`. `Launcher` takes the
resolver as any value of its Go interface: it accepts any number of proxies with
or without an error, and its properties do not depend on more; likewise `Load` and
`Save` may fail or not. `Activation` holds what surrounds a `Launcher` behaviour, which
is its place `"work"`.

### VerifyPool

A candidate is its index in the slice. `feeder`, `worker[w]` and `caller` are the
program counters of the goroutines, `next` is the loop variable of the feeder,
`held[w]` and `verdict[w]` the locals of a worker, `results` the buffered channel
and `resultsClosed` its closed flag. The unbuffered `jobs` channel needs no
variable: `HandOver` is one step of the feeder and a worker, and `feeder =
"exited"` is the closed channel. Each case of a `select` is an action: `HandOver`
and `FeederExit`, `HandOver` and `WorkerExit`, `Send` and `Drop`. A case stays
possible while another is ready, also after the context ended, as the Go
specification has it. `reported` is a history variable. Emission of progress is
left out: it runs in the caller between two receives and changes nothing here.

### Socks5 and EndpointCheck

`Socks5` follows the dials of the three legs side by side, because those of the HTTP legs
may outlive their leg. For each leg `at` is the place in `dialSOCKS5`, `conn` the
connection, `limit` what `SetDeadline` has put on it, `watcher` the goroutine that
waits for the context or for the end of the dial. The proxy chooses one `reply` out of
those the code tells apart (refused method, refused request, granted with each type of
address); of its bytes only the number matters that has `arrived` and that was
`taken`, so a read of one byte too few or too many shows. `Arrive`, `HangUp` and the end
of a context interleave with every read and write.

Two facts about the libraries decide what can go wrong, and both follow from the Go
release named in `go.mod`. `http.Transport` dials under a context of its own: it carries
no deadline, so `dialSOCKS5` sets none in an HTTP leg, and it ends when
`CloseIdleConnections` finds that nobody waits for the dial; that is what ends a
silent dial that the leg has abandoned. The gateway leg dials under the context
of `verify`, but the WebSocket handshake takes no context: there only the deadline on the
connection helps. `ContextOf`, `DeadlineOf` and `EndedBy` say so. `Dial`, TLS and the
answers of the servers are external: what the code demands of an answer is left out, and
in every exchange the answer may be one that passes or one that does not.
The measured latency is left out.

### Resolver

`pc` is the place in `Resolve`, `limits` are the two normalised options the control
depends on, `cached` the sanitised cache. A batch is a set: the candidates of a
batch are distinct because `sanitizeCandidates` and `parseProxyScrape` drop copies.
An endpoint is a number, its order the order of host and port; `Refused` stands for
a record that `SanitizeEndpoint` refuses. A selection is sorted before it is cut,
as `trimAndSort` does; `Sorted` puts each endpoint at the place that the number of those
`Ahead` of it gives, which is what any sort does with distinct endpoints. `Sanitize` keeps
the acceptable records in front of which fewer than the limit were kept. `tried`, `survivors`, `unchecked` and `fetches` are history
variables. A URL or TLS configuration that `normalizeOptions` refuses is the action
`RefuseOptions`. A feed is a sequence of rows; `Parsed` gives the candidates that
`parseProxyScrape` may make of it: acceptable rows, each once, shuffled before they are
cut, so any of them. Every way in which the fetch can fail is `FetchFails`.

### DiscordClient and Launcher

`procs` are the running Discord Stable processes, `origin` says who started each;
`updater` is an `Update.exe --processStart` that has not started Discord yet.
`UserStarts`, `Exits`, `UpdaterEnds`, `CtxEnds` and `TimerFires` are the
environment and interleave with every step of a call. A call is `op` and a place
`at` in it; the launcher takes its answer when `at = "returned"`. A look is two
steps, the snapshot and the queries of the processes it found, because a process may
end in between. `starts`, `looks`, `survived` and `elder` are history variables: `survived` says
whether the child still ran when the bootstrap timer fired, `elder` which processes ran
when `Run` last had Discord looked for, by calling `RunningProcesses` or `LaunchWithProxy`.
Pids are handed out in order, which loses nothing: they are only compared for equality.
`Kill` of the child is taken to succeed: it is the launcher's own process, just started. The error of
`chromiumProxyArguments` cannot happen for a selection that `prepare` has validated
and is left out, as are argument text and the comparison of paths.

In `Launcher`, `pc` is the place in `Run`, `prepare` and `directOrPreserve`. `main`
calls `Run` with `context.Background()`, which never ends; `Run` itself takes any
context. `CtxMayEnd` chooses: the passing run lets it end, the violation run does
not, so that it is about the program as it is started.

### Discovery

A directory name is its prefix and its version, a sequence of characters in the order in
which strings compare them. `root` says which directories exist and are complete
(hold `Discord.exe`), and `Update` changes any of them between the listing and each look.
`Split` cuts a version at its dots (`Cuts`) as `strings.Split` does; it, `Accepted`,
`TrimZeros`, `ComponentLess` and `Older` are the functions of the code; `Number` and `Newer`, which the properties use, say what a version means without
them. `steady` and `seen` are history variables: the versions that were complete since
the listing, and at some time since then.

### Activation

`pc` is the place in `run`, `k` the loop variable of `rotateIfNeeded`. `dir` gives the
log (at 0) and its backups, each file a number in the order of creation; `oversized`
says whether the log has reached `maxLogBytes`, and any line (`Printf`) may make it so.
`open` and `handles` are the launchers that have the log open and those that hold a
handle of the mutex object, which exists as long as there is one. Each call of the
rotation is a step, so two launchers rotate in any interleaving. Go opens files on
Windows without `FILE_SHARE_DELETE`, so the log cannot be renamed while somebody has
it open. `SystemFails` is any failing call, and a killed process as well: in both cases
the system takes back what the process held. What returns before the log is opened
(`--help`, `--version`, wrong arguments, no console, no paths) is `LeaveEarly`.
`created`, `rotated`, `served` and `faulty` are history variables.

### Cache

`pc[s]` is the system call that the `Save` of launcher `s` makes next, `temp[s]` its
temporary file, `contents[s]` the document it writes. `file` is what the path names.
Data is either written or durable, and a rename is durable once the system has written
the directory (`Settle`, which the code cannot ask for): `PowerLoss` tears what was only
written and may undo a rename. Several launchers save at once, because the mutex is
`Local\`, per session, and the cache is per user. `Fail` stands for any failing call
including `MkdirAll` and the encoding, `Die` for a killed process. A temporary file
that is left behind is not followed further: its name is never used again and nobody
reads it. `Load` is a function of the file and the clock, checked at every state; its
errors give no entries, as `prepare` treats them. An address is a number and
`Canonical` what `SanitizeEndpoint` and the check of the country make of it; times and
latencies are ticks, and `Wrap` is the product of a latency as Go computes it, from `-Half`
to `Half - 1`. The loops that skip entries give the `Subsequence` at the positions they
keep. A file that is missing,
oversized or not JSON is `Missing`.

### Installer

The shortcuts are `1..N`; `link` and `run` are the shortcuts and the autostart entry,
`backup`, `known`, `runBackup` and `runKnown` what setup has saved on disk and in the
registry. `at` and `i` walk through the procedures in the order of `CurStepChanged` and
`CurUninstallStepChanged`, one lasting write per step. All state that lasts is outside
the process, so a crash and an exception that ends setup are the same step, `Abort`; a
rollback by Inno Setup does not touch what the script has changed. `EditLink` and
`EditRun` are the user, or an update of Discord; `owed` and `owedRun` record what the
user had when setup first saw it, `Any` once the user has changed it. The temporary
`.lnk` files are left out: the next attempt deletes them unread. Two switches choose
the environment: `EditsWhileRunning`, whether the user also edits while setup runs,
and `InspectMayFail`, whether `WScript.Shell` may refuse to read a shortcut.

## 3. Runs

| run | instance | distinct states | what it shows |
|---|---|---|---|
| `verify_pool` | batches of 0 to 4, 2 workers | 59 909 | completeness, no loss, no repetition, no blocking send, no send on a closed channel; the call returns, no goroutine is left; refinement of `VerifyBatch` |
| `endpoint_check` | host names of 0 and 2 bytes, 1 early byte | 189 116 | the tunnel begins on the right byte; the deadline, and outside the WebSocket handshake the end of the context, ends the verification; no connection, dial or watcher is left |
| `resolver` | 5 endpoints, 2 latencies, 6 options, 5 caches, 5 feeds | 67 638 | the budget over both batches, the best selection on every path, errors that say the truth, when the feed is read |
| `launcher` | 4 processes, context may end | 627 998 | no failure leaves the user without Discord, reported modes are earned, a Discord that a look could find is joined by no other, no second bootstrap, a check never touches Discord; the activation ends |
| `discovery` | 12 names, 2 at first, 2 changes | 295 532 | what is found was complete and recognisable, and no version that stayed complete is newer |
| `activation` | 3 launchers, 3 backups | 487 520 | one launcher at work, logs in order of age under concurrent rotations, some launcher comes to `Run` |
| `cache` | 2 launchers, 2 documents, 4 files found | 47 368 | `Save` implements the register `CacheFile`; `Load` gives valid entries only, and what was saved |
| `installer` | 2 shortcuts, 2 contents, edits at any time | 1 717 630 | what starts the launcher can always be given back; a finished uninstall has given everything back |
| `launcher_untouched` | 2 processes | violation | a failed monitor and the message of the fallback |
| `activation_rotation` | 2 launchers, 3 backups | violation | two rotations at once lose the log just rotated |
| `installer_reinstall` | 1 shortcut | violation | a later setup changes a shortcut it has no copy of |
| `installer_inspect` | 1 shortcut | violation | a shortcut that cannot be inspected loses its backup |

**Bounds.** `MaxTotal` = 4 with 2 workers gives the empty batch, fewer candidates than
workers, as many, and workers that take a second candidate; the theorems lift the safety
part to any batch and any number of workers. A host name of no bytes is the edge of
`consumeSOCKSAddress`, one of two differs from both kinds of addresses, and one byte of
the tunnel that comes early is as many as can be taken by mistake by one wrong length;
`EndpointCheckProofs` lifts both. In the resolver 5 endpoints under at most 4 candidates
leave one that does not fit; `MCOptions` holds options out of range on both sides,
`MCFeed` copies, refused rows and the cache over again, `MCCached` copies, refused
records and more records than are kept; with two latencies ties occur. In the launcher a
pid is used once, so `Pid` bounds the processes of one behaviour: four cover the user's
Discord, the child, the direct one and one more that comes at a bad moment.
`MaxSelected` = 1 stands for 3: the code only asks whether the number is zero, in range
or too large; `LauncherProofs` lifts both bounds. `MCName` holds versions that compare
differently as numbers and as text, equal versions under several names, a missing
component and refused names; two of them at first and two changes are enough for the
newest to vanish, to be completed and to be replaced while the scan goes on. Three
launchers over the mutex are an owner, one it refuses and one that finds the handle of
the refused; two launchers that save are one step of another between any two of one.
`MCBatches` and `MCFound` hold the bounds of the latency, its rounding, its overflow in
both directions, copies under two spellings, refused addresses and one entry too many;
`Clock` gives each age from too old to too far in the future. Of the installer's
shortcuts one is always created and one only replaced, which are the two kinds there
are; two contents tell a copy from a later edit.

**Fairness.** Every goroutine that can run does: weak fairness of each worker, the
feeder, the closer, the caller and, in the launcher, of `Run`. That a verification returns is what
`DeadlineEndsVerify` shows, and the deadline itself is `context.WithTimeout(ctx,
config.ValidationTimeout)` in `verify`; a fetch has `FetchTimeout`. In `EndpointCheck`
each goroutine of a leg goes on when it can: a dial that has something to read or whose
connection or context has ended, its watcher, a TLS handshake that was cut, a leg that
must fail, a transport that closes. Nothing is asked of the proxy, the servers or the
clock. `Discovery`, `Activation`, `Cache` and `Installer` state safety only and assume
none. No fairness is assumed of `Cancel` or `CtxEnds`, of the user or of a Discord
process. The bootstrap timer fires (weak). The monitor's `select` picks at random among
ready cases, so a fired timer is not passed over for ever by the ticker: strong fairness
of `SelectTimer`, and of nothing else.

**Violations.** Each is a difference between the code and what it says of itself;
`PROJECT.json` quotes the lines.

- `UntouchedHasNoRoute`: when the monitor of a living child fails, the fallback finds
  that child and reports an untouched Discord without the unlocked mode; it is the
  child of this very activation and has the route.
- `RotatedIsKept`: a test requires that the old log is the first backup after `Open`; with
  two launchers that rotate at once, which nothing prevents before the mutex, the slower
  one removes it.
- `NoChangeWithoutBackup`: the README says that a shortcut is copied before it is changed;
  a setup that finds a recorded state copies nothing, also when the shortcut is another
  by now, or is there for the first time: then no copy of it exists at all.
- `BackupsOutliveManagedShortcuts`: the backups are said to go only after everything was
  restored; a shortcut that could not be inspected counts as restored.

**Mutants.** Each property of a passing run has a mutant in `PROJECT.json`, an
operator beside the one it changes, marked in its comment: a dropped guard, a
forgotten check, an order that was swapped. Each makes TLC find that property
violated, so no property holds whatever the code does.

## 4. Proofs

`VerifyPoolProofs` proves, for every batch length and every positive number of
workers (`MaxTotalAssumption`, `WorkerCountAssumption`, which `verify_pool`
evaluates):

| theorem | statement |
|---|---|
| `TypeCorrect` | `TypeOK` always |
| `Completeness` | a nil error means that every candidate was counted |
| `LossOnlyByCancel` | while the context lives no candidate is lost |
| `Once` | no candidate is verified by two workers or counted twice |
| `NoPanic` | nothing is sent on the closed results channel |
| `NoBackPressure` | a worker that sends finds room in the buffer |
| `Refinement` | `Spec => Batch!BatchSafety` |

None of the properties is inductive. The invariant `IInv` has three parts. `TypeInv`
adds ranges to the types: a busy worker holds a candidate, results are well formed.
`PoolInv` ties the goroutines together: what the feeder has handed out is exactly
the candidates held, buffered or counted while the context lives, all goroutines
are unborn before the caller has spawned them, a worker exits in a living
context only after the feeder, and results are closed only when all rest.
`OnceInv` says that the three places a candidate can be in are disjoint and hold it
once, and bounds the length of the buffer through the cardinality of the handed-out
candidates. Each part is preserved by every action, one step per action; the
properties follow from the conjunction. For the refinement a hidden step maps to a
stutter, `Collect` to `Report` of the candidate at the head of the channel, which
needs `OnceInv` to be new, and `Return` to `ReturnBatch`, which needs `PoolInv`.

`ActivationProofs`, for any launchers and any positive number of backups
(`BackupsAssumption`, evaluated by `activation`):

| theorem | statement |
|---|---|
| `TypeCorrect` | `TypeOK` always |
| `Exclusion` | at most one launcher is at work |
| `Order` | the logs are in order of age |
| `Service` | unless one left early or was let down, some launcher came to `Run` |

`HoldInv` says at which places a launcher has the log open and holds a handle; with it
`Acquire`, which needs an object nobody has a handle of, finds nobody at work. `LogInv`
adds to `LogsInOrder` that no file is younger than the last one created; `LogMoves`
reduces every action to four ways in which the files move. `ServeInv` strengthens
`SomeoneServes` into what holds in the middle: while nobody has come to `Run`, a
launcher that has ended, or rotates a log that is gone, leaves another one between the
log and the mutex, and no handle exists that could refuse that one.

`CacheProofs`, for any launchers, any batches, any file found before and any width of a
`Duration` that holds a minute (the assumptions of `Cache`, evaluated by `cache`):

| theorem | statement |
|---|---|
| `TypeCorrect` | `TypeOK` always; in particular the file is whole and on the disk |
| `Atomicity` | `Spec => ImplementsRegister` |
| `LoadsSafely` | `Load` gives valid, distinct entries of the right age, whatever the file holds |
| `ComesBack` | what was saved is what `Load` gives back, less what has aged |

`TempInv` follows the temporary file: it holds the document of its launcher after
`Write` and is on the disk after `Sync`, so `Rename` installs what the caller saves and
a power loss cannot tear it. Under the mapping, `CallSave` is `Begin` or `Refuse`,
`Rename` is `Replace`, `Return` and `Fail` are the two answers, and the calls before the
rename are stutters. The other two theorems are about the functions. `SubsequenceOfList`
says what a loop that skips entries leaves: the kept positions, each once and in order,
which makes `Deduplicate` give distinct addresses and change a list of distinct ones
not at all. `RoundLemma` and `WrapLemma` are the arithmetic: a latency between a millisecond
and a minute stays there when it is rounded, a rounded one survives milliseconds and back,
and the product does not wrap within the bounds. `ComesBack` then follows because a
stored entry is valid, canonical and distinct, so `Load` can drop it only for its age.
`Minute % Milli = 0` is needed: else the largest latency would be rounded over the bound.

`EndpointCheckProofs`, for every length of a host name up to 255 and any number of early
bytes (`HostLengthAssumption`, `EarlyAssumption`, evaluated by `endpoint_check`):

| theorem | statement |
|---|---|
| `TypeCorrect` | `TypeOK` always; in particular a failed dial keeps no connection open, and an endpoint is verified over all three legs |
| `HandOver` | a tunnel is handed on exactly behind the proxy's whole answer |

`BytesInv` counts, place by place, what of the answer was read and what was accepted of it;
`LegInv` says that the legs follow each other, so that no dial of an abandoned leg comes
into the one under way.

`ResolverProofs`, for any endpoints and latencies, any options in or out of range, any
cached records and any feed (`EndpointAssumption`, `LatencyAssumption`, `LimitAssumption`,
`InputAssumption`, evaluated by `resolver`):

| theorem | statement |
|---|---|
| `TypeCorrect` | `TypeOK` always; in particular the normalised limits are in range |
| `Budget` | no endpoint is verified twice, and both batches keep to one limit |
| `ReturnsTheBest` | the selection is the fastest of what passed, in order, on every path |
| `ErrorsTellTheTruth` | a nil error and "no verified proxies" hide no candidate without a verdict |
| `FetchedByNeed` | the feed is read at most once, and only when the cache fell short |

`TriedInv` says stage by stage what was tried: nothing, the cached candidates, and after
the fetch those and the batch, which is disjoint from them and no larger than what remains
of the budget. `SelectedInv` is the heart: the selection is `Best` of what passed in the
batches that are over, and what has passed since is in `passed`; `VerdictInv` and
`StageInv` say where candidates without verdict are recorded and when the feed has been
read. `SortedSorts` shows that `Sorted` is a sort, by counting who is ahead of whom, and
`BestIgnoresOthers` that a measurement of the second batch does not disturb the selection
of the first. `SanitizeKeepsLimit` and `ParsedKeepsLimit` bound the two batches.

`DiscoveryProofs`, for any finite set of names, versions of any length, and any number of
changes during the scan (`NameAssumption`, `BoundAssumption`, evaluated by `discovery`):

| theorem | statement |
|---|---|
| `TypeCorrect` | `TypeOK` always; in particular exactly one installation is selected when one is found |
| `Newest` | no version that stayed complete is newer, by its numbers, than the one found |

The invariant is small: the candidates were complete when they were looked at, and a
version that stayed complete is a candidate or still an entry to come. The argument is
in the order. `Lexicographic` says once that the first difference under a strict total
order is a strict total order; it is used for strings, components and versions
(`StringOrder`, `PartOrdered`, `OlderIsLexicographic`), and gives that `SortsBefore` is
strict and total on the names that are accepted (`NumberedOrdered`), so that there is one
last element (`GreatestExists`). `SplitPieces` and `AcceptedIsWellformed` say what a version
is after it was cut at its dots. `ComponentsCompareAsNumbers` is the claim of the comment
at `install.go:122`: without leading zeros, length and then text order components as
their values do; `NewerSortsLater` lifts that to whole versions. That the recursion of
`Number` defines a function is proved from the least number at which it could fail
(`AccumulationExists`), since the library's induction theorem cannot be instantiated.

`LauncherProofs`, for any number of Discord processes, any context and any bound on
the selection (`PidAssumption`, `MaxSelectedAssumption`, evaluated by `launcher`):

| theorem | statement |
|---|---|
| `TypeCorrect` | `TypeOK` always; in particular `Run` looks for Discord three times at most |
| `Earned` | "proxied" and "checked" are said only of what has happened |
| `AlwaysDiscord` | no failure but the last leaves the user without Discord |
| `CheckOnly` | a check neither inspects nor starts Discord |
| `NoElderJoined` | a Discord that ran when `Run` last asked is joined by another only after a failed look |
| `OneBootstrap` | none is started beside the living child without a failed look |

`PlaceInv` pairs the places of `Run` with those of the call it waits for. `StartsInv` says
what has been started at each of them. `ChildInv` carries the argument: a pid is used
once, so a child that was dead when the timer fired, or that the snapshot of the last
look did not hold, stays dead, whatever happens before the answer is used. `ElderInv`
says the same of every process that ran when `Run` asked: it has gone or is in the
snapshot, so an answer that nothing was found is true of all of them until the start.
`LooksInv` bounds the looks and keeps a check from calling at all.

`InstallerProofs`, for any number of shortcuts, any contents, and a user who edits at any
moment (`NAssumption`, `ForeignAssumption`, evaluated by `installer`), provided that
every shortcut can be inspected: `~InspectMayFail` is a premise of each theorem, and
`installer_inspect` shows what happens without it.

| theorem | statement |
|---|---|
| `TypeCorrect` | `TypeOK` always; in particular no saved copy is the launcher's own shortcut |
| `GivesBack` | what starts the launcher can always be given back |
| `PaysBack` | an uninstall that ends has given everything back |

`LinkInv` and `RunInv` hold at every moment: a recorded state is true (its copy is whole, or
was cleaned up, and is what the user is owed), and what does not start the launcher is
already paid back. They need `SetupInv`, which says that setup replaces nothing before
every state is good, and `UninstallInv`, which says that uninstall cleans up only after
the last shortcut has been given back; `ok` is what carries that from one shortcut to the
next.

Only model-checked: all liveness (`Returns` of `VerifyPool`, `NoLeak`,
`RunEnds`, `DeadlineEndsVerify`, `CancelIsHeard`, `LeavesNothing`, and the fair part of
`ImplementsBatch`), which is out of the prover's reach.

## 5. Not modelled, and why

- The bytes: JSON, HTTP, TLS, URLs, IP literals, argument lists, log wording.
- The latency a verification measures: `Resolver` takes any.
- The work of Inno Setup itself (files, `[Run]`, `[UninstallDelete]`), which the installer
  module has as single steps or not at all.
- That a proxy may answer in less than a millisecond, which `Save` refuses: `Launcher` lets
  `Save` fail for any selection.
- The console: a straight line of Windows calls in one goroutine, before anything else
  has been opened. It keeps no state that a later step reads but the two standard handles,
  and any failure ends `run`, which is `LeaveEarly` of `Activation`.
- Flags and paths (`internal/cli`, `internal/runtimepaths`): pure functions of the arguments
  and the environment, whose errors are `LeaveEarly` as well.
- The build scripts: calls of tools, outside the program.
- The comment of `LaunchWithProxy` ("refuses to start while Stable is already running",
  `launch_windows.go:33`) is checked as far as the code can keep it: `OpensBesideNoElder` is
  about a Discord that was there when it looked. One that is opened between the look and
  `Start` is joined; it is in the model, and is a hazard with its own entry.
- The error of `Run` without a Discord client (`application.go:88-90`): `main` always passes
  one, so `Begin` leaves it out.
- That `Resolve` returns is no property of a run: its places follow each other without a
  loop, so it returns when its two batches and the fetch do. The batches do by `Returns` of
  `VerifyPool`; the fetch has `FetchTimeout` (`find.go:154`).
- The final check of the bootstrap and the return are one step, so a child that dies right
  after it counts as started, as it does in the code.

## 6. What is left

All components that keep state are modelled. What could still be added:

1. `main` around `Launcher` and `Activation` in one module, with two activations and the
   Discord processes they share; the mutex makes them follow each other.
2. The setup of Inno Setup itself, for an upgrade while a launcher runs.
