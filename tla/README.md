# A TLA+ verification of contemplate

contemplate renders configuration files from templates and from data sources (environment
variables, files, Kubernetes ConfigMaps and Secrets), once or again and again while the sources
change. This directory holds TLA+ modules that are translated from its Rust source (`src/src`), the
TLC configurations that model-check them on small instances, and theorems about them that TLAPS
proves for every value of the constants. Line numbers below refer to `src/src` unless a path says
otherwise.

1. [The system](#1-the-system)
2. [The modules](#2-the-modules)
3. [The runs](#3-the-runs)
4. [Fairness](#4-fairness)
5. [The proofs](#5-the-proofs)
6. [Where the code and its documentation disagree](#6-where-the-code-and-its-documentation-disagree)
7. [What is not modelled](#7-what-is-not-modelled)
8. [Plan](#8-plan)

To check a module: `tlc -config LoopConverges.cfg MCWatchLoop.tla`, `tlapm WatchLoopProofs.tla`.
`PROJECT.json` lists the components, the runs, for each property a small change of the model (a
plausible bug, written beside the definition it changes and marked *Mutant*) under which it must
fail, the source lines of each definition, the hazards and the theorems.

## 1. The system

`main` (main.rs:150-204) parses the command line, reads all sources and executes the plan once (the
*initial run*, main.rs:42-60). With `--watch` it may daemonize and start another program in its
place, and then watches (main.rs:62-135): whenever something notifies it, it reads all sources again,
executes the plan, and if files changed executes the on-reload action.

| Component | State | Operations | What is hard about it | What makes it correct |
|---|---|---|---|---|
| Watch loop (watch.rs, main.rs) | a channel of capacity 1, where the callback is | register sources, receive, read, render, reload | notifications come while it is busy, and while a pass reads the sources one after the other; errors of any part of a pass | no reported change is lost; when idle the files are current; changes reach on-reload; the `unwrap` of what was read never fails |
| Data sources and their watches (datasource/*.rs) | inotify watches, Kubernetes watch streams, events in flight | merge into the data, watch, notify | watches on inodes, not paths; streams that break and restart; fatal and recoverable errors | changes are reported, or a later read finds them |
| Poll and webhook watchers (watch.rs:78-149) | a timer, HTTP handlers | tick, answer | both block on the channel | callers are answered; with `--poll` every change is followed |
| Template plan (plan.rs) | templates cached per process, backups not yet taken, the files | cache, back up, compare, write | processes are killed between system calls, started again or at the same time; operations overwrite the templates of others | the original text survives; files show what was asked for; the report of changes is exact; a dry run changes nothing |
| On-reload action (reload.rs) | the hook that runs, tasks that wait for earlier hooks | execute: interrupt and spawn, or signal by name | processes end at any moment and their ids are used again | only hooks are interrupted; hooks are reaped; success means that none was skipped |
| `http()` and its cache (functions/http.rs, functions/mod.rs) | the responses of a pass | call: look up, send with `If-None-Match`, store | stale responses, 304, failures | a call returns what the server held |
| Layering of the data (k8s.rs:99-135, 215-330, env.rs, file.rs, cli.rs:76-156, mod.rs:176-190) | the tree of all data | nest a key, merge entries, merge sources | keys that are above or below each other, sources that are skipped, options of several kinds | a leaf is there exactly if nothing later overrides its path |
| Launch (main.rs, the `daemonize` crate) | the processes, who is whose parent, the death signal, the working directory | initial run, daemonize, fork, exec, set up watch mode, signal the parent | parent and child race; forks and `execv` fail half-way; mistakes of the command line are found late | one process renders; the target starts after the files are rendered, is watched, and gets the signals; the child ends with it |
| Command line (cli.rs) | none | parse, `validate`, `plan`, `sources` | many options that combine | an accepted plan writes no file twice and backs up only what it renders in place |
| Filters, errors, template engine, build | none | - | - | see section 7 |

How they interact: every watch, the timer and every webhook handler holds a clone of one `Notifier`
(datasource/mod.rs:20-51), which sends `()` into the channel and blocks while it is full. The loop
(watch.rs:68-75) takes one `()` out and *then* runs the callback, which reads the sources
(datasource/mod.rs:176-190), calls `Plan::execute`, which renders with templates that may call
`http()`, and passes the changed files to `OnReload::execute`.

## 2. The modules

| Module | What it is |
|---|---|
| `WatchLoop` | initial run, sources, watches, channel, timer, webhook, loop |
| `LiveConfig` | what watch mode promises, abstractly; `WatchLoop` implements it |
| `Operations` | the operations of a plan, and what the execution of a plan relies on |
| `TemplatePlan` | the plan, one system call at a time, by several processes |
| `AtomicPlan` | what the execution of a plan promises, abstractly; `TemplatePlan` implements it |
| `Cli` | command lines: what is accepted, the plan they stand for, which mistakes are found when |
| `Launch` | the processes of the program, from the command line to the watch loop |
| `OnReload` | the on-reload action and the processes it deals with |
| `HttpCache` | `http()`, its cache and a server |
| `Layering` | the registry's order, nesting of keys, merging of entries and sources, on values known by their nodes |
| `LayeringTrees` | the recursions of the code that `Layering` states without recursion |
| `MCWatchLoop`, `MCTemplatePlan`, `MCHttpCache`, `MCLayering`, `MCLaunch` | instances for TLC; `OnReload` needs none |
| `WatchLoopProofs`, `TemplatePlanProofs`, `PassProofs`, `AtomicPlanProofs`, `OnReloadProofs`, `HttpCacheProofs`, `LaunchProofs`, `LayeringProofs` | theorems |

Each component has a module of its own, and the modules meet where one sees of another only an
outcome: in `WatchLoop` the reading of a source is one step that merges or skips it (`ReadSource`, whose inside is `Layering`), the execution of a plan is one step with a set of failing operations
(`Render`) and the on-reload action one step that succeeds or fails (`OnReload`); in `TemplatePlan`
and `HttpCache` the passes of the loop are steps that may come at any time (`BeginPass`). `Launch` is about
processes: the initial run and a pass are one step each there, and of a pass only the signal to the parent is left.

The command line and the plan meet in `Operations`: `TemplatePlan` assumes that its plan is `Validated`, `Launch`
checks and proves that every command line that is accepted gives such a plan, and `MCTemplatePlan` states
(`PlansOfLines`, which TLC evaluates) that the plans it executes are what `Cli` makes of command lines.

### WatchLoop

`content` is the world; the rest is the program. A source is `env`, `file` or `k8s`.

| State | Code |
|---|---|
| `watch[s]`, `events[s]` | the inotify watch or `watcher()` stream, and events not yet delivered to its callback |
| `sender[s]`, `tick`, `request[c]` | a callback, the timer, a handler that is in `tx.send` |
| `chan` | `mpsc::channel(1)` (watch.rs:28) |
| `pc`, `pos`, `seen` | where the main task is, and what `as_figment` has read so far |
| `dest[o]` | the data that the file of operation `o` was last rendered from, or `Torn` |
| `behind` | history: the operations that failed in the last pass that executed the plan, so their files show older data |
| `observed`, `missed` | history: changes that something reported and that were not read yet; changes nobody reported |
| `unannounced`, `refused` | history: changed files that no successful on-reload action was told of; those of them that a failing one was told of |

`ReadSource` is one round of `as_figment`'s loop, so sources change *between* the reads of one pass.
`ReplaceFile` is a rename over the path, or its removal or creation: the watch is on the inode that
the path had (file.rs:84) and reports the loss, once. `DeleteMap` reports nothing (`applied_objects`,
k8s.rs:81). `BreakWatch` loses the events in flight, and `ListMap` is the restart with its list. An API
error in `ReadSource` skips the source and goes on without its data; an unsupported file extension is
fatal, with `exit(1)` in the initial run and a panic in the loop (the `unwrap` at main.rs:97). A ConfigMap with a key that
begins with a separator (`HasBareKey`) panics in the provider (k8s.rs:126), which `merge` calls at once, so in the same step; a
Secret does not, since the value at such a key is a table, so a Secret never holds `Malformed`. `Render` gives up on data that
does not parse and skips operations that fail; `RenderOneshot` ends at the first of either. A write that fails after `set_len(0)`
(plan.rs:206-207) leaves the file `Torn` and out of the list of changed files (`MayTear`, `Written`). `RenderPanics` is a rendering
that panics: in the loop the `unwrap` of the `JoinError` (main.rs:117) ends the program.

Abstractions: a source holds one of a few values; a source file written in part is `Malformed` or another
value; all that a failed write can leave is `Torn` (what exactly, and when, is
`TemplatePlan`'s subject); the restarted Kubernetes watch is taken to begin with a list, and the
generation predicate to let every new version pass, because ConfigMaps and Secrets have no generation;
the kernel's queue of a watch holds `QueueCap` events and merges the rest.

### LiveConfig

The abstract specification: a program has a *view* of some sources, *looks* at one when it owes it a
look, and *publishes* its view into files only when it has looked at every source and everything it
saw makes sense. A file that does not show the view may be damaged on the way. A step that writes anything else, or that forgets a reported change without losing it
visibly, is no step of it. The refinement (end of `WatchLoop`) maps `seen` to the view, `observed` to
what is owed, and the position of the initial run to what was looked at.

### TemplatePlan

Processes execute one plan on shared files. `Start` is a new invocation, at any time after the last one
ended or was killed (`Crash`, between any two steps). `Cache` reads the templates (plan.rs:48-77): a
source is read once, known by its name, and standard input is at its end after that. `Apply` renders
and decides on the backup, `CopyOpen` and `CopyData` are `std::fs::copy`, `Compare` opens the
destination (which creates it) and compares, `Truncate` is `set_len(0)`, `Fill` is `write_all`. `due`
is the `Option` that `backup.take()` empties (plan.rs:273) *before* the checks that may refuse the
backup. `Fail` differs between the initial run, which ends, and a pass of the loop, which goes on.

A rendering is a function of a template and data, or an error; it may turn out to be another template.
`start`, `before`, `spoiled` and `original` are history variables for the properties. Assumptions:
`OperationsAssumption`, `TemplatePlanAssumption` (types) and `ValidatedPlan`, which is what `Cli::validate` and the
construction of in-place operations provide (proved of `Cli` in `LaunchProofs`). Two names of one file (`a` and `./a`, links), and a file
that is really called `-`, are not modelled, nor are templates that include others.

### AtomicPlan

The abstract specification of the execution of a plan by a program that writes alone: an invocation reads all templates in
one step (`Begin`), and then each operation renders its file in one step (`Render`), prints (`Display`) or fails (`Break`),
in the order of the plan, pass after pass (`BeginAgain`), until it ends or is killed (`Stop`). It has no backups, no
standard input that runs dry, no cache and no system calls. Only an operation that fails or is killed damages a file: its
own, to empty or torn, and only if the file was to get another text. So a step that writes a file out of turn,
renders a template that was overwritten meanwhile, leaves a file empty and goes on as if it were rendered, reports a file that did not
change, or goes on in the initial pass after an error, is no step of it.

The refinement (end of `TemplatePlan`) shows a file as it was before the pass until its operation has filled it: what others see of the file
between `set_len(0)` and the end of `write_all` is exactly what is hidden, and comes to light if the operation fails
or is killed there (`MayDamage`). Files that are backups are not observed. An invocation begins with its first pass;
before that it only reads.

### OnReload

`proc[i]` says what the process id `i` is: free, a hook, a zombie, a process of the name to be
signalled, or another. `Terminate` is `terminate_existing_child` (reload.rs:60-70): it takes the child
away, and a spawned task waits for it (`waited`, `Reap`); on a failed `kill` the dropped `Child`
goes to tokio's queue of orphans, which reaps it too. `Spawn` takes any free id. `ExecuteSignal` lists
the processes of the name, and `Signal` signals one after the other: whoever has the id by then. `gone` and `strays` (history)
tell the processes that were found from those that got their ids since. PID and parent targets are a name
with one process. The hooks that run at a time are bounded by the free ids.

### HttpCache

One call at a time (templates render on one thread): `Call` clones the cached response and makes the
condition, `Serve` is the server, `Receive` and `Fail` the two ends of `perform` (http.rs:153-257).
The cache belongs to the context that `capture_runtime_handle` (functions/mod.rs:90-97) makes for each
pass. A response stands for the version that the server held; no two versions have the same ETag.

### Layering

One call of `as_figment` over a registry that is any mix of sources. `Registered` is what
`Cli::sources` builds: the parts of `CONTEMPLATE_DATASOURCES`, then the options, collected kind by kind and sorted
by their index. `ReadEntry` is one round of the loops of the two Kubernetes providers (k8s.rs:119-129 and
233-252), in the order of a `BTreeMap`; `ReadVariable` one of figment's `Env`, in any order;
`MergeSource` and `MergeFile` merge the source's dictionary into the data of the earlier ones; `SkipSource`
is a recoverable error (mod.rs:182), `RejectFile` a fatal one, and `ParseFails` a file whose error
figment keeps until the data are extracted.

A value is known by its nodes: a function from the path of each node to the leaf there, or to `Branch`. `Merge`
(`Coalescible::merge`) then is one function: the nodes of the second value, and those of the first one that have no
leaf of the second one at or above them. `Nest` (figment's `nest`) puts the nodes of a value below the segments of its name,
up to an empty segment (`Stem`). The code recurses instead. `LayeringTrees` has its recursions, `Coalesce`
(k8s.rs:261-320) and `DeepNest`, on values that are maps of values, and `NodesMakeTrees` says that they
and `Merge` and `Nest` agree on whatever is nested and merged in a run. It is in a module of its own because
nothing can be proved in one that declares recursive operators. `MergeUnfolds` and `NestUnfolds` prove, without them, that
`Merge` and `Nest` satisfy the equations of these recursions.

The reference below the actions has paths and no nodes: `LeavesOf` keeps the leaves of a source that no later
entry of it is at, above or below; `Stacked` those of all sources that no later source's leaves are. It
takes two levels because merging is not associative: within one source `A` and then `A_X` leave only
`a.x`, which as a later source does not override `a.y`, though `A` would have.

Data are abstract: a value is a leaf named by where it comes from, a table of `Fields` (values of variables and
ConfigMaps are parsed, and `{x=1}` is a dictionary) or the `bytes` and `string` of a Secret. Names
come split. An empty table, which overrides without leaving a leaf, is left out (`Fields # {}`). A prefix of `--environment` only selects variables. Arrays are leaves. The interpolation of
key names in error messages is left out, and so are malformed parts of `CONTEMPLATE_DATASOURCES` (see `Cli`).

### Cli

No state: a command line is a record, and `ClapAccepts`, `Validates`, `SpecPanics`, `UnknownSignal` and `ZeroPeriod`
say which mistakes it has, in the order in which the program finds them: clap and `validate` before anything happens, a part of
`CONTEMPLATE_DATASOURCES` without its argument in a panic before the first file is read, an unknown signal and a period
of zero only when the program is about to watch. `PlanOf` is the plan (cli.rs:158-224, 398-407). Paths are taken as they
are written: two of them are two files. `BackupName` is any function that gives a path with a suffix another
name. The namespace, `--additional-templates`, `--diff`, `--dry-run` and verbosity decide nothing here.

### Launch

| State | Code |
|---|---|
| `at["main"]` | the process that the shell started |
| `at["session"]`, `at["daemon"]` | the two that the `daemonize` crate forks: the first one begins a session and exits |
| `at["child"]` | the child of `fork_and_exec_in_parent` (main.rs:24-40), which watches while its parent becomes the target |
| `parent`, `deathSignal` | the kernel's: a process whose parent is gone has the parent `init`; `prctl` (main.rs:33) |
| `inRoot` | whose working directory the daemon has changed to `/` |
| `rendered`, `forkFailed`, `watchFailed`, `hits` | history: the initial run succeeded; a fork failed; the process that was to watch could not, or panicked in a pass; who was sent a signal, and whether a target was running |

`Parse`, `InitialRun`, `Detach`, `ForkAndExec`, `Exec`, `Arm` and `SetUp` are the parts of `main` between two points at
which another process matters. A step of a process that ends (`Become` with a member of `Stopped`) makes its children those of
`init` and sends them the signal they asked for; `Abort` delivers it. `Exec` executes the target or ends: in watch mode by the panic
of `execv(..).unwrap()`, otherwise with an error. `SetUp` is what can still go wrong in the child: `cli.on_reload()?`, the
runtime (`exit(1)`, main.rs:76-80), the timer and the listening socket. `PassPanics` is the end of a watching process by a pass, for the
two reasons that `UnwrapHolds` leaves in `WatchLoop`; the initial run may panic like that too. `Pass` and `Signal` are a reload with the target `:parent` (reload.rs:115): the signal
goes to the parent of that moment, which may be the target, this program before it has executed it, `init` or the shell, and
it may end it. The session process's second fork and its exit are one step. The
other actions of a reload are `OnReload`'s; the other causes of death of these processes, and a parent that is the
init of a container and so cannot be killed by a default signal, are left out.

## 3. The runs

| Run | Properties | Instance and bounds |
|---|---|---|
| `LoopConverges` | `TypeOK`, `NoLostWakeup`, `UnwrapHolds`, `IdleMeansFresh`, `ImplementsLiveConfig`, `Converges` | a file and a ConfigMap of one well-formed value, one operation, no poll; all edits but `early`; API, watch and setup failures, keys that panic, an operation that fails and tears its file; fairness |
| `LoopPoll` | `ChangesAnnounced`, `FollowsSources`, `HookAnswers`, `PaysItsDebts` | a file of two values, two operations, poll, a webhook caller; edits also before the watch is there; either operation fails, tears its file or panics, on-reload fails; fairness |
| `PlanBackup` | `TypeOK`, `OriginalRecoverable`, `DryRunChangesNothing` | one in-place operation with a backup; a process that writes and one with `--dry-run`; crashes and every failing system call |
| `PlanChain` | `PassDelivers`, `ReportIsExact`, `UpToDateIsUntouched`, `ImplementsAtomicPlan` | four operations, of which one overwrites the template of the next, and so on; failing opens and writes, crashes |
| `Reload` | `TypeOK`, `OneHookUnwarned`, `HooksHaveOneOwner`, `OkMeansNoneSkipped`, `InterruptsHooksOnly`, `HooksAreReaped` | four process ids; hooks or signals; `kill` and `spawn` may fail |
| `HttpCalls` | `TypeOK`, `AnswersAreCurrent` | two requests, three versions (one without ETag), three calls a pass, lost answers and unasked 304s |
| `Layers` | `TypeOK`, `LayersStack`, `NodesMakeTrees` | up to two sources of every kind, at most one in the variable; up to two entries each, under four names |
| `Launch` | `TypeOK`, `AcceptedPlansAreValid`, `RenderedFirst`, `OneRenderer`, `SignalReachesTarget`, `TargetHasWatcher`, `TargetUnderway`, `WatcherFollows`, `OrphansAreSignalled`, `TargetIsWatched`, `TargetStarts`, `ShellReturns` | 3947 command lines; forks, the runtime, the listening socket and passes may fail; fairness |
| `LoopReplacedFile` | `FollowsWatchedFiles`, violated | one file of two values, that is replaced; no poll, no faults |
| `PlanTwoProcesses` | `OriginalRecoverable`, violated | two processes that write |
| `LayersBareKey` | `KeysNest`, violated | one name, that begins with a separator |
| `LaunchOrphan` | `WatcherEndsWithTarget`, violated | as `Launch` |

What they show:

- *Nothing that was reported is lost* (`NoLostWakeup`, `IdleMeansFresh`). The loop takes the token out
  of the channel before it reads, so a change that comes after its source was read leaves a token, a
  blocked sender or an event behind. A capacity of one is enough because senders block and tokens
  carry nothing. Tokens are interchangeable, so more sources only add senders of the same kind: two
  sources already give a source that was read, and one that was not, in the middle of a pass.
- *What goes out of date, and why* (`Converges`, `FollowsSources`). Without `--poll` the files may stay
  out of date only through changes in `missed`: before the watch is registered, to a file that was
  replaced, deletions of objects, a source that could not be reached. With `--poll` they do not. An operation that fails is not tried again before the next
  notification, so `Converges` and `IdleMeansFresh` are stated file by file: a file may also be out of date
  while its own operation failed the last time (`behind`), but not because another one did. `FollowsSources` says so of each file too: `LoopPoll` has two operations, so that one
  fails while the other does not, and two values, so that one is replaced by another and not only by its absence; `IdleMeansFresh` is proved for any number.
- *What on-reload is told* (`ChangesAnnounced`): with two operations and an action that may fail, of the files that changed only a torn one
  and those whose own action failed stay unannounced.
- *How the loop ends* (`UnwrapHolds`): only by a panic in a pass, while it reads only at a ConfigMap with a key that begins with a
  separator. In `LoopConverges` such keys come and go at any time, in the initial run and later; unsupported extensions too.
- *One slot for many senders* (`HookAnswers`, `PaysItsDebts`): a caller, the timer and a file watch
  are three senders for one slot and one loop, so that two block while one is served, and each can be overtaken.
- *Files* (`OriginalRecoverable`, `PassDelivers`, ...). Backups of other operations do not interact
  (that is also part of the proof), so one in-place operation is enough; `PlanChain` has the
  interactions through templates. The texts include a template, one that renders to nothing or to an
  error depending on the data, plain texts and a torn one; every file starts with any of them or absent.
  `PlanChain` has 2.4 million states, in which the program is killed at every point and invoked again on what it left.
- *Process ids* (`InterruptsHooksOnly`, `HooksHaveOneOwner`): four are enough for a hook that is held, one that ignored
  SIGINT, one of another process and a free one.
- *Layers* (`LayersStack`): the four names are two spellings of one path, one above it, and one with an
  empty segment; tables and Secrets add paths below them, so that each of two entries, and of two sources, can be
  at, above, below or beside the other. An override concerns two leaves and the order of their sources. For any number of
  sources, entries and names it is proved. `NodesMakeTrees` compares the two forms of `Merge` and `Nest` in every state of the run.
- *Plans* (`AcceptedPlansAreValid`): up to two inputs or templates of two files and `-`, with every output and every form of
  `--in-place`, and backups that may be a file named elsewhere; two operations are enough to collide. For any number it is proved.
- *Processes* (`OneRenderer`, `WatcherFollows`, `TargetIsWatched`, ...): every combination of `--watch`,
  `--daemonize`, `--poll` (also zero), `--webhook`, a known or unknown signal, a target that is found, found relative to the directory, or missing,
  and sources that notify or do not. These decide which processes there are and do not depend on the plan, so they are combined
  with one plan. The program forks three times at most, so `Procs` is no bound. What the properties except is
  what the code does: a fork that failed (`forkFailed`: logged, no target is executed), a child whose own `run_watch` failed (`watchFailed`: an unknown
  signal, a period of zero, no runtime, no socket, a pass that panics; the target runs and nobody watches), a reload that signals the parent before it has executed the target, and a daemon that looks
  for a relative executable in `/`. Each of `WatcherFollows`, `TargetIsWatched` and `TargetStarts` comes with what it rests on and
  what a scheduler could not repair (`OrphansAreSignalled`, `TargetHasWatcher`, `TargetUnderway`): these can be proved.

Other bounds: `Values` (one or two), `NumOps` (one or two), `QueueCap`, `MaxCalls`, and the sets `Edits` and
`Faults`, which name what the environment does in a run. `CHECK_DEADLOCK FALSE` is given where the
system may stop: the program exits or panics (`WatchLoop`), all processes may have nothing left to do
(`OnReload`), the calls of a pass are used up (`HttpCache`), the sources are read (`Layering`), or nothing is left to happen to the processes (`Launch`). In `LoopConverges` and `LoopPoll` no
symmetry is used, since they check liveness.

Which history a property needs is on purpose part of its statement: `IdleMeansFresh` excepts `missed`,
`ChangesAnnounced` `refused` and torn files, `TargetHasWatcher` `watchFailed`,
`PassDelivers` and `ReportIsExact` except operations that failed in that pass (a failed write leaves the
file torn), and `AnswersAreCurrent` a server that answers 304 to a condition that does not hold.

## 4. Fairness

- `WF(MainTask)`, `WF(ListMap)`, `WF(Notify)`, `WF(Tick)`, `WF(NotFound)`: tokio schedules every task that is ready,
  the kernel the thread of the file watcher, and a timer fires. `ListMap` also says that the API server can
  be reached eventually; `default_backoff` never gives up.
- `SF(Send)`, `SF(SendTick)`, `SF(Answer)`: a sender is enabled again and again when others are faster.
  tokio's semaphore, on which `mpsc::Sender::send` waits, is first-in first-out, so a waiter is served
  if permits keep being released.
- `WF(Reap)`: the task that waits for a child runs once the child is a zombie.
- `WF(Step(p))` and `WF(Abort(p))` of each process (`Launch`): the kernel runs the processes and delivers the signals it has
  sent. `Parse` and `InitialRun` are not among the steps: rendering may wait for a server for good, and so every
  liveness property of `Launch` begins after it; nor are `TargetEnds` and `Pass`, since a target may run on and the data never change.
- Nothing is assumed of the world, the callers, hooks, servers, or of processes that execute plans
  (`TemplatePlan`, `HttpCache` and `Layering` state safety only).

That `Render` and `OnReload` end is part of `WF(MainTask)`: `OnReload::execute` does not wait for the hook, and
rendering ends if every `http()` call does. The HTTP client has no timeout, so a server that never
answers stops the loop; no liveness property covers that.

## 5. The proofs

| Theorem | Statement | Assumes |
|---|---|---|
| `TypeCorrect` | `Spec => []TypeOK` (`WatchLoop`) | |
| `WakeupsAreKept` | `Spec => []NoLostWakeup` | |
| `LoopSurvivesItsSources` | `Spec => UnwrapHolds` | |
| `IdleLoopIsFresh` | `Spec => []IdleMeansFresh` | |
| `AllChangesAnnounced` | `Spec => []ChangesAnnounced` | |
| `LoopImplementsLiveConfig` | `Spec => ImplementsLiveConfig` | |
| `PlanTypes` | `Spec => []TypeOK` (`TemplatePlan`) | |
| `OriginalsSurvive` | `Spec => []OriginalRecoverable` | one process without `--dry-run`; `BackupsApart` |
| `DryRunsChangeNothing` | `Spec => DryRunChangesNothing` | |
| `PassesDeliver` | `Spec => []PassDelivers` | one process without `--dry-run`; `StdInOnce` |
| `ReportsAreExact` | `Spec => []ReportIsExact` | one process without `--dry-run`; `BackupsBeside` |
| `UpToDateStays` | `Spec => []UpToDateIsUntouched` | one process without `--dry-run`; `BackupsBeside` |
| `PlanImplementsAtomicPlan` | `Spec => ImplementsAtomicPlan` | one process without `--dry-run`; `BackupsBeside`; `StdInOnce` |
| `ReloadTypes` | `Spec => []TypeOK` (`OnReload`) | |
| `OnlyHooksInterrupted` | `Spec => InterruptsHooksOnly` | |
| `OthersAreWarned` | `Spec => []OneHookUnwarned` | |
| `HooksAreOwned` | `Spec => []HooksHaveOneOwner` | |
| `SuccessSkipsNone` | `Spec => []OkMeansNoneSkipped` | |
| `LayersTyped` | `Spec => []TypeOK` (`Layering`) | |
| `LayersAlwaysStack` | `Spec => []LayersStack` | |
| `MergeUnfolds`, `NestUnfolds` | `Merge` and `Nest` satisfy the equations by which the code computes them, for all trees | |
| `DictsAreEqual` | a dictionary is determined by its keys and what they have | |
| `HttpTypes` | `Spec => []TypeOK` (`HttpCache`) | |
| `HttpAnswersAreCurrent` | `Spec => []AnswersAreCurrent` | |
| `TypeCorrect` | `Spec => []TypeOK` (`Launch`) | |
| `AcceptedPlans` | `Spec => []AcceptedPlansAreValid` | |
| `TargetFindsFiles` | `Spec => []RenderedFirst` | |
| `RendererIsAlone` | `Spec => []OneRenderer` | |
| `SignalsTheTarget` | `Spec => []SignalReachesTarget` | |
| `OrphansGetTheirSignal` | `Spec => OrphansAreSignalled` | |
| `TargetsAreNotAlone` | `Spec => []TargetHasWatcher` | |
| `TargetIsNotLost` | `Spec => []TargetUnderway` | |

Besides these, each theorem rests on the `ASSUME` of its module (types of the constants, validated plan).
The assumptions on the plan are needed. "One process without `--dry-run`" allows any
number of dry runs beside it, and any number of invocations one after the other; two that write at once break `OriginalRecoverable`
(`PlanTwoProcesses`) and the others no less. `BackupsBeside` says that no
backup is the destination of another operation, `BackupsApart` that no two backups are one file either, and `StdInOnce` that one
operation at most reads standard input; a second one would read an empty text. `OriginalRecoverable`, `ReportIsExact` and
`UpToDateIsUntouched` fail without the condition on backups, `PassDelivers` holds without it and fails without `StdInOnce`.
`Cli::validate` checks none of them, so they are conditions on the command line that the program leaves to its user.

The inductive invariants:

- `NoLostWakeup` is inductive together with `TypeOK`: each disjunct of `ReadIsDue` is handed on to
  the next (event, sender, token, running pass) by the one action that ends it.
- `LoopSurvivesItsSources` needs `FatalInv`: the initial run has passed every fatal source, so past it there
  are none, and what ends the loop at a source is the provider's panic.
- `AllChangesAnnounced` needs `Heard`: outside of `notify` every unannounced file is torn or refused, and in it the others are in
  the list that the action is about to get.
- `IdleLoopIsFresh` needs `Known` (`seen` holds what a source holds that has no change observed or
  missed, once the initial run has got to it) and `Shown` (outside of a pass the files whose operation
  is not `behind` were rendered from what is in `seen`, unless that does not parse).
- The refinement maps the steps of `WatchLoop` to steps or stutters of `LiveConfig`, action by action;
  `NoLostWakeup` is not needed, but that `seen` is complete before anything is written is.
- `PlanTypes` needs `Ready`: templates are in the environment before the first pass, and an operation
  under way has a rendering without error and files to write to.
- `OriginalsSurvive` needs `BackupInv`: once a backup is no longer due it holds the original, except
  while it is being copied, when the file itself still does. This rests on a chain that is easy to
  break: `backup.take()` empties the option before the checks, so a refused backup would be forgotten
  in the next pass, but a backup is due in the initial run only, and the initial run ends on the first
  error. `BackupsApart` says that no operation writes to the backup of another, which `Cli::validate`
  does not check. `OthersProgress` and `DryStep` are the frames that let dry runs go on beside it.
- `PassesDeliver` needs two. `CacheInv`: while a process caches its templates no file has changed since its start, and from then on what is
  cached is what the sources held then, whatever has been overwritten. `DeliverInv`: the files of the operations behind that did not
  fail show their rendering. What could break it is a backup that goes to such a file. `do_backup` then wants the file to hold the very
  text that it is to save, so copying writes there what was there; in between the file is empty, but a copy that fails, or a
  kill, ends the initial pass, and no later pass makes a backup (`DueInv`).
- `ReportsAreExact` and `UpToDateStays` need `PassInv`: the files of the operations ahead are as they were when the
  pass began; those of the operations behind that did not fail show their rendering, and `changed` has those that differ; the one at hand
  is truncated only if it is to get another text. It is inductive because destinations are distinct
  (`ValidatedPlan`) and no backup is one of them: a copy of a backup would be a change that nothing reports, and would empty
  the file for a moment.
- `PlanImplementsAtomicPlan` maps each step of the writer to one of `AtomicPlan` or to a stutter (`MapInv`: `CacheInv`, `PassInv`
  and when there is a first or a later pass, `RoundInv`). The steps before the decisive one are the stutters: `Fill`, or a
  comparison without a difference, is the rendering, a step of `Fail` is `Break`, a `Crash` is `Stop`.
- `OnlyHooksInterrupted`, `OthersAreWarned` and `HooksAreOwned` need `HookInv`: the child that `OnReload` holds is a hook or
  a zombie and nobody waits for it, so its id cannot have been used again.
- `SuccessSkipsNone` needs `SignalInv`: each process that was found is still to be signalled, was signalled itself, or is gone and another one
  with its id was signalled (`Reached`), and an error leaves no success behind.
- `LayersTyped` and `LayersAlwaysStack` need `LayersInv`: the leaves of the dictionary at hand are those the reference has of the entries
  handled so far (`Stay`), the leaves of the data are `Stacked`, and only sources up to the current one in the registry have been
  touched, so that what is merged next is of higher precedence than all before (`RegisteredIs`: the registry ascends, whatever
  kinds the options are collected from). It rests on four lemmas about the operators: a tree is determined by its leaves
  (`LeavesOfTree`, `TreeOfLeaves`); `Merge` keeps the leaves of the second tree and those of the first one that are not
  at, above or below one of them (`MergeOfTrees`); `Nest` moves the leaves below the stem (`NestOfTree`); and one more entry, or source,
  overrides in the reference as it does in `Merge` (`StayAppend`, `StackedGrows`). No step needs an induction over
  trees, because a node is reached by its path.
- `MergeUnfolds` and `NestUnfolds` are one level of the recursions of the code: what is below a key (`Child`) of a merge of
  two dictionaries is the merge of what is below it in each (`MergeBelow`), and what is below the first segment of a nested
  value is the value nested below the others (`NestBelow`, from `StemUnfolds`: a stem is the first segment and the stem of the rest). With
  `DictsAreEqual` that leaves no other result at any level; putting the levels together is an induction over trees, which is not proved.
- `HttpAnswersAreCurrent` needs `CallInv`: a call carries the response whose ETag it sent.
- `AcceptedPlans` rests on `AcceptedIsValid`, a lemma about `Cli` alone: `New`, `NewInPlace` and `ToArgument` give valid operations,
  `PlanOf` is a sequence of such (so it also meets the type that `TemplatePlan` assumes), and `NoDuplicates` is the rest. It does not
  need what clap excludes.
- `RendererIsAlone` and `SignalsTheTarget` need `FamilyInv`: a process that executes the target, or is about to, is the only one that
  does, and whatever else renders is a child that was forked from it to watch (`Lineage`).
- `OrphansGetTheirSignal` and `TargetsAreNotAlone` need `ChildInv` as well: nobody forks a second child, and from its set-up on the child has asked
  for its signal. `SignalledInv` then says that it is sent or that the parent is there, and `WatchedInv` that beside whatever
  executes the target there is a child that was not sent it, which only a failure of its own `run_watch` can end.
- `TargetIsNotLost` needs `RootInv`: only daemons move to `/`, so a relative executable is found by all others.

Model-checked only: the liveness properties (`Converges`, `FollowsSources`, `HookAnswers`, `PaysItsDebts`, `HooksAreReaped`, `WatcherFollows`,
`TargetIsWatched`, `TargetStarts`, `ShellReturns`), since fairness is beyond the prover. What they rest on apart from fairness is proved for
most of them: `NoLostWakeup` and `IdleMeansFresh` for the loop, `HooksHaveOneOwner` for the hooks, `OrphansAreSignalled`, `TargetHasWatcher` and
`TargetUnderway` for the processes. `NodesMakeTrees` is about recursive operators, whose
values for every input are beyond the prover: TLC compares them with `Merge` and `Nest` on the values of the run, and
`MergeUnfolds` and `NestUnfolds` prove each level of the recursions for all values.
All other invariants and action properties of the passing runs are proved.

## 6. Where the code and its documentation disagree

Shown by a run that violates what is documented:

- `LoopReplacedFile`: "When a file is changed, it will cause a re-render of the templates"
  (`src/docs/data_sources/file.md:20`). A file that is replaced by a rename, which is how editors
  save and how Kubernetes updates mounted files, is followed once and then never again (file.rs:84). In the trace the file is there and watched;
  a first rename is reported, rendered and announced, a second one is never read.
- `PlanTwoProcesses`: "it will refuse to overwrite backups" (`src/docs/templates/overview.md:55`). The check and
  the copy (plan.rs:297-307) are not atomic: of two invocations one can copy a rendered file over the backup
  of the other.
- `LayersBareKey`: `expect("key is non-empty: must have dict")` (k8s.rs:126). A ConfigMap key such as `.env` or
  `_A` is not empty, but its first segment is, so that it nests to its bare value and the program panics; in watch
  mode an edit of the object is enough (`ReadSource` of `WatchLoop` and `PassPanics` of `Launch` have that end of the loop). With a Secret such a key puts `bytes` and `string` at the root.
- `LaunchOrphan`: "Contemplate will register a death signal before executing the target process, ensuring that the
  child is terminated when the target process is terminated" (`src/docs/advanced/integration.md:114`). The child registers it
  after the fork (main.rs:31-35), in no order with the parent. A parent that is gone by then, plainest when `execv` fails
  at once, sends nothing, and the child watches for good.

Visible in the same modules, without a run of their own:

- `integration.md:55`, "all processes containing the specified name are signaled": the first `kill` that
  fails, for a process that has ended since the listing, ends the action (`Signal`, reload.rs:129). If its id was used
  again, that process is signalled in its place, and nothing tells (`strays`).
- `functions.md:35`, "subsequent renders will include an `If-None-Match` header": the cache does not outlive
  a pass (`BeginPass`, functions/mod.rs:91).
- `src/docs/data_sources/overview.md:9`, later specifications override earlier ones: a later Secret value that is not
  UTF-8 replaces `bytes` and leaves the earlier `string` (`Parts`, k8s.rs:240).
- `functions.md:35`, "only one HTTP request is sent": `Call` sends every time, and the cache only makes the
  request conditional (http.rs:328).
- `integration.md:49`, any request triggers a re-render "regardless of method or path": the router has the
  one path `/`, and `NotFound` answers the others without a notification (watch.rs:129).
- `integration.md:7`: a change between the initial run and the registration of the watches (the edit
  `early`) and the deletion of a ConfigMap or Secret (`DeleteMap`) do not cause a re-render.
- `overview.md:69`, standard input as multiple sources is an error: `validate` (cli.rs:53) only compares
  destinations. In the model the second operation reads an empty text, and by its name replaces
  the first one's template.
- `src/docs/advanced/integration.md:85`: the example runs `--daemonize` with relative paths. The daemon's directory is `/` (main.rs:181), so
  from then on they name other files; a relative executable is not found (`Found`).
- cli.rs:637, `:parent` is "the parent process when -x is specified": it is `getppid()` at that moment, so without `-x`, or
  before the target is executed, the signal goes to the shell, to `init` or to contemplate itself (`Signal`).
- cli.rs:50, "no two operations write to the same output": the comparison is of paths as they are written, so `a` and `./a` pass. And
  `--in-place=bak -t a -t b a` is refused, while `--in-place=bak -t a a` overwrites the template without a backup, for `New` has none.
- cli.rs:61-71: watch mode is refused when nothing could render standard output again, but accepted with environment
  sources only and no watcher, where nothing ever notifies the loop (`Wakes`).
- What only comes up when the target may be running (`watchFailed`): an unknown signal (main.rs:190), a runtime that cannot be built
  (main.rs:76), `--poll 0s` (`tokio::time::interval` panics, watch.rs:97), a listening address that is in use, a pass that panics. The target then runs unwatched.
- A part of `CONTEMPLATE_DATASOURCES` that is empty, unknown or lacks its argument is a panic (`SpecPanics`, cli.rs:92-97).
- plan.rs:194, "Returns true if the destination was changed": an empty rendering creates its file and returns
  false (`Compare`); plan.rs:369, "all template operations that caused a change": a write that fails after
  `set_len(0)` has changed the file and is not in the list (`Fill`).

## 7. What is not modelled

- Filters (`filters.rs`) and the decoding of HTTP responses are pure encodings of single values, without state.
- The template language and the data model are those of minijinja and figment. A rendering is a function; templates that
  include others (`--additional-templates`) are part of that function.
- Log output, colours and the printed diffs of plan.rs; help texts, shell completions and verbosity of cli.rs.
- Time: ticks and passes have no duration, and the HTTP client's missing timeout shows only in that a call, and so a
  pass, need not end.
- Relative paths of sources and destinations in a daemon: files are known by their names. Links and other spellings of a path.
- The signals that end these processes other than a reload's and the death signal, and process 1 of a container.
- `error.rs` lists errors; which of them end a run is in the actions that return them.
- Libraries (tokio, notify, kube, reqwest, sysinfo, daemonize, clap) appear by how the code uses them: a FIFO semaphore, a
  watch on an inode, a stream that restarts, a server, a list of processes, two forks, conflicts of options.

## 8. Plan

Done, in this order: the watch loop and its abstract specification, since everything else runs inside
it; the plan, since it is what touches the user's files; the on-reload action; `http()`; the layering of the data; the command
line and the plans it makes; the processes of the program.

Then the proofs, in the same order, up to the invariants and refinements of every component; `Layering` was restated without
recursion for its own.

Next:

1. A composition of `AtomicPlan` with `OnReload`, in which a pass is not one step: the hook of one pass runs while
   the next one writes, so that a hook reads the files that it was told of, or is interrupted. `AtomicPlan` makes this
   small enough to check.
2. A refinement that relates a pass of `AtomicPlan` to the step `Render` of `WatchLoop`, so that what is proved of the loop and of
   the plan holds of the two together.
3. Empty tables in `Layering`: a leaf set no longer determines a tree then, so the reference would have to speak of tables too.
