# A TLA+ model of yay

yay is a rooted-Android tuning module. It has no daemon of its own: `yay_apply`
runs, applies what three JSON configs say and exits; an optional `yay_watch`
starts it again when a config changes; a web UI edits the configs and starts it
by hand. What is hard about it is therefore not one long-lived server but many
short processes that meet on the same files and on the same Android settings, a
fork/poll/reap loop that must end whatever its children do, and pages whose async
functions wait for commands while the user goes on tapping. This directory
models those parts, checks them with TLC and proves the central claims with
TLAPS.

Contents: [inventory](#inventory), [plan](#plan), [modules](#modules),
[runs](#runs), [fairness](#fairness), [proofs](#proofs),
[disagreements found](#disagreements-found), [limits](#what-is-not-modelled).

## Inventory

| Component (source) | State it keeps | Operations | Interacts with | Correct means |
|---|---|---|---|---|
| `exec_batch` (`exec_util.cpp`) | `in_flight`, `next_to_start`, results, failure counter, circuit, deadlines | start, poll, read, reap, kill, drain, give up | forked children, their pipes, the clock | bounded children, right results, it returns |
| `exec_cmd` (`exec_util.cpp`) | `elapsed`, `killed`, output | poll, read, time out, wait | one child, its pipe | right code, whole output, it returns |
| rules engine (`rules_engine.cpp`) | the loaded config, `current_hash` | hash, guard, components, appops, dry run | `exec_batch`, hash cache, `rules.json` | what the cache names is what is applied |
| hash cache (`hash_util.cpp`) | `rules.hash`, `rules.hash.tmp` | read, write, fsync, rename | every `yay_apply --rules` | old hash or new hash, never another |
| JSON configs (`json_config.cpp`) | none | load, validate, save | all of `yay_apply` | a broken file applies nothing |
| `yay_apply` (`main_apply.cpp`) | flags, the rotated log | post, boot, full, rules, game, io | scripts, watcher, web UI | each mode runs its parts in order |
| config watcher (`main_watch.cpp`) | `triggered`, `g_stop`, the inotify queue | poll, scan, debounce, spawn, stop | editors, `yay_apply` | no change lost, it stops when told |
| mirroring priority (`mirror_priority.cpp`, `renice_util.cpp`) | property serial | wait, scan `/proc`, renice | adbd, scrcpy-server | each session reniced, bounded scan |
| logger (`logger.cpp`) | open file, path | append, rotate | other processes' loggers | bounded log, no line lost |
| I/O scheduler (`io_scheduler.cpp`) | counters | choose and write a scheduler | sysfs | first available choice wins |
| game mode (`game_mode.cpp`) | counters | downscale, purge | `exec_cmd`, the file system | only allowed directories are purged |
| `yay_inspect` (`main_inspect.cpp`, `zip_reader.cpp`, `axml_parser.cpp`) | a cursor | find, inflate, parse | one APK | never reads outside its buffer |
| bridge (`helpers/bridge.js`) | which host it found | read, write, exec, flags, inspect | WebView host, shell | one answer for each call |
| config pages (`stores/rules.js`, `games.js`, `io.js`, their views) | edited lists, `loading`, `saving`, `error`, modals, `editIdx` | load, edit, save, apply, preview | the bridge, the watcher (through the files) | what was shown at the click is what is applied |
| pickers (`ComponentPicker.vue`, `AppopPicker.vue`) | list, `loading`, `loaded`, `error` | open, submit, pick, close | `yay_inspect` through the bridge | the list belongs to the package shown |
| settings page (`Settings.vue`) | two switches, the export's status | probe, toggle, export | flag files, `tar` | a switch shows its flag file |
| log page (`log.js`, `Log.vue`) | two texts | load | every logger, through the files | no line between the two texts |
| home page (`home.js`, `Home.vue`) | counts | load, apply all | the bridge | - |
| scripts (`customize.sh`, `post-fs-data.sh`, `service.sh`) | none | run `yay_apply`, start `yay_watch` | everything | boot applies before the watcher starts |

Where the components meet:

* `rules.json` is written by the web UI (`bridge.js` truncates it and rewrites it
  in place) and by editors (often by rename), and read *twice* by a `yay_apply
  --rules`: once to parse it and once to hash it.
* `rules.hash` and its one temporary file are shared by every `yay_apply`. No
  lock is taken anywhere.
* The watcher learns of changes from the kernel's bounded, merging inotify queue,
  and waits for each `yay_apply` it starts.
* The web UI reaches the files and `yay_apply` through commands that its host runs,
  one at a time or all at once; a host with a file interface writes files without
  waiting for the commands before. Nothing orders a page's functions but the answers
  they wait for.
* `apply_rules` runs its two lists of commands through `exec_batch`, one after the
  other; `game_mode` and the deferred `fstrim` use `exec_cmd`.

The behaviours that are hard to test are listed as hazards in `PROJECT.json`, each
at its line and with the properties that would catch it. They come in six
families: a race of a child's exit, output, deadline and the batch's budget; two
runs and an editor on the same files; a reboot or an error between two steps of
a publication; a change that arrives at a bad moment for the watcher; a tap that
comes while a function of the page waits for an answer; and a validation that
exists twice, in JavaScript and in C++.

## Plan

In the order of importance; the first nine are done.

1. `ExecBatch` with its contract `BatchContract`: every rule that is ever applied
   goes through it.
2. `ExecCmd`: the same for single commands.
3. `RulesApply`: what the hash cache may be trusted for.
4. `ConfigWatch`: that a change of a config reaches a `yay_apply`.
5. `Bridge` and `ConfigPage`: a config page with the commands it waits for, composed
   with the file, the pass and the watcher at the other end.
6. `ListPages` and `SettingsPage`: indices, modals, rollbacks and timers.
7. `Pickers` and `GameForm`: requests in flight, and the page's validation against
   the native one.
8. `LogPage`: the reader of the logs against their rotation.
9. `MirrorPriority`: the thread that is told of adbd's starts, against its restarts.
10. `RulesPlan`: the commands `apply_components` and `apply_appops` make of an
   entry list (defaults, deduplication), as operators checked against a
   declarative definition, and what the slots of `exec_batch` can make of the
   order of two commands for one component.
11. `BootSequence`: `--post`, `--boot` and `--full`.
12. `IoScheduler`, `GamePurge`, `ChunkWalk`: pure algorithms, the last with its
   32-bit arithmetic.

Every safety property that a run checks is proved. Theorems worth having besides:
that `RulesApply` implements an abstract "the cache names a pass" specification, the
safety half of `ApplyComesBack` and of `Converges` (what is not done yet always has a
step that will do it), and the bounds of `ChunkWalk` for every file.

## Modules

| Module | Models | Correspondence |
|---|---|---|
| `ExecBatch` | `exec_batch` | one variable per local of the function (`next`, `inFlight`, `consecutive`, `circuitOpen`, `budgetExceeded`, results), plus the kernel's view of each child (`proc`, `status`), of its pipe (`pipe`, `heir`) and the clock. `StartX` is one turn of `try_start_next`; `LoopX` and `PollX` the head of the main loop; `ReapExited`, `KillOverdue`, `KeepRunning` one child of the reap loop; `DrainX` the reads between reaping and storing the result; `GiveUp` the end of an exhausted budget |
| `BatchContract` | the header's promise | an outcome per command and whether the call has returned |
| `ExecCmd` | `exec_cmd` | `Read`, `SeeEof`, `PollFails`, `QuietSlice` are the cases of one poll, `Wait` is `wait_for_child` |
| `RulesApply` | `run_rules`, `apply_rules`, the hash cache, several processes | one step per open, batch, write and rename of each process; `Edit` and `Crash` around them |
| `MCRulesApply` | - | who starts runs in the instances: a watcher without flags, a web UI with `--force` or `--dry-run` |
| `ConfigWatch` | the config thread of `yay_watch` | one step per system call of the loop; editors, the event queue and the spawned `yay_apply` around it |
| `Bridge` | which interface of the host `bridge.js` uses for a call | `host` is what the bridge finds on `window`; `FilesVia` and `ExecVia` are the branches of `readFile`, `writeFile`, `fileExists` and `exec`; `InTurn` is the host's order |
| `ConfigPage` (extends `Bridge`) | the stores `rules`, `games`, `io`, the buttons of their views, `yay_apply` and the watcher behind them | a waiting async function is the command in `cmds` it waits for; `Mount`, `Edit`, `ClickX` are the handlers up to their first `await`; `RunRead`, `OpenFile`, `FillFile`, `StartPass`, `EndPass`, `Fail` the host; `Loaded`, `Saved`, `Told` the rest of the functions; `WatchLoads` and `WatchApplies` the watcher's own `yay_apply` |
| `ListPages` | every change of the four lists, the search, the modals | a row has an identity, which `indexOf` compares; `IndexOf` and `editIdx` are the indices the code passes and keeps; `tapped` names the row the user meant |
| `SettingsPage` (extends `Bridge`) | the two switches and the export | `jobs` are the calls that wait; `RolledBack` is the `catch` block; `timers` are the `setTimeout`s of `closeExportModal` |
| `LogPage` (extends `Bridge`) | `log.js`, `readLog`, `readPrevLog`, and the appends and rotations of the loggers | a load is the two reads of `reads[n]`, and `LoadEnds` is what `Promise.all` resolves to |
| `Pickers` (extends `Bridge`) | the two "Add" forms, their validation in the page and in the engine, and the two pickers | a text is a sequence of classes of characters; `LoadsFor` is `load()` up to its `await`, `Listed` the rest |
| `GameForm` | a game from its form to `apply_game_mode` | `isSafePurgeTarget` and `is_safe_purge_target` side by side, on paths as sequences of segments |
| `MirrorPriority` | `mirror_priority.cpp`, `renice_pid` | `thread` is where `run()` is, `seen` its `serial`; `StartAdbd`, `ExecAdbd`, `AdbdDies`, `ReapAdbd` are Android's init and adbd around it |
| `MCParts` | - | composes six parts that share no state but the web UI's host; `focus` says which one a behaviour is about |
| `QueueLemmas` | - | what appending to, updating and removing from a sequence of pending calls does to it; used by the proofs about the pages |
| `Pages_proofs` | - | theorems and proofs about `SettingsPage`, `Pickers` and `LogPage` |
| `MCParts_proofs` | - | theorems and proofs about `ListPages`, `GameForm` and `MirrorPriority`, and about the six parts together |
| other `*_proofs` | - | theorems and proofs about the module they are named for |

Choices that shape the models:

* `ExecBatch`. A child may exit or hang at any step, so an exit falls in every gap
  of the loop. The clock moves by itself; `now` is read at the places the code
  reads it, and the reap loop uses the one reading it took (`passNow`). The
  vector `in_flight` is always in the order of the index, because children are
  appended in order and filtered in order, so a set and the smallest member stand
  for it. A command may leave a *heir*: a process that inherited the pipe and keeps
  it open after the child is gone, which is what a background job of a shell
  command does.
* `ExecCmd`. Time is counted in slices of `kPollInterval`, since the code does so.
  A child that is not chatty writes a bounded number of chunks.
* `RulesApply`. The commands of one batch take effect together and `ran` records for
  which config they were last run, separately for components and appops. A hash is
  the content it was computed from. `fd` says which path names a process's
  temporary file by now: a rename by another process moves it, and a later write
  then lands in the published cache. A run that is rejected at its load changes
  nothing and is not a step. The history `passed` has the configs some run has loaded
  and then run both batches for, and `slipped` those that were hashed by a run that
  had loaded another one.
* `ConfigWatch`. `version` counts finished changes of a file and `loaded` the last
  one a `yay_apply` has read. A file that is being rewritten is rejected if it is
  read then. The queue merges an event into an equal last one and drops it when
  full, as inotify does. Other files of the directory change at any time and without
  end. The histories `incident` and `slipped` (in `RulesApply`) and `lost`
  (in `ConfigWatch`) name the only events the invariants make an exception for, so
  that an invariant says exactly *what* must happen for it to fail.
* `ConfigPage`. A text stands for all lists of a page. On a serial host commands run
  and are answered in the order of their issue; otherwise both are free. A write by
  the shell is two steps, the opening with `>` and the filling, so that a pass or
  another write falls in between; two writers may leave a mixture. `yay_apply` exits
  with 0 in any case (`main_apply.cpp:222`), so a failure of the command is one of
  the shell or of the host. How the watcher learns of a write is the subject of
  `ConfigWatch`; here it may start its own `yay_apply` at any time after one, for any of
  the three files, as all three are in its `MAPPINGS`. That run is two steps: it loads
  the file and applies what it loaded however much later, so it may end after a newer
  pass of the page. The history `clashed` says that two such passes with different texts
  were under way at once. What a pass does after its load is one step, since `RulesApply`
  has the details.
* `ListPages`. The user may tap a modal in the 200 ms it fades out (`modal = "leaving"`);
  `TapHitsItsRow` leaves out those taps, for which it fails, and nothing after them. A tap
  is named by the place in the whole list of the row it hits, which the user knows by
  sight and the code must find again (`IndexOf`).
* `SettingsPage`. `rough` names the events after which a switch may lie; `hasty` a
  tap on the export's modal while it fades out. The timer of 200 ms is taken to
  fire before the fade of 200 ms ends, since it is set a frame earlier.
* `LogPage`. A log is the set of its lines. The reads of a load are asked for in the order
  of `ReadOrder`, and a serial host answers those of one load before those of the next
  (`Turn`). A process that opened `run.log` before a
  rotation keeps writing to `run.log.1`.
* `MirrorPriority`. The property says `running` from the fork on, and the child is not
  called adbd before its exec. `early` names the starts whose adbd was looked for in
  between with no further change to come. That init only marks a property as being
  changed for a moment, which can wake the thread twice, is left out.
* `Pickers`. The result of `yay_inspect` is its package, or an error. The engine's
  filters are those of `apply_components` and `apply_appops`. An op of digits leaves the
  page as a number, and `Parsed` says what the engine can find in the JSON: up to
  `SafeDigits` digits (18 in the code) it is a `long long`; with more it may also be one
  that reads negative, or a float. What is left out is that `parseInt` rounds from
  2^53 on, so that a number that is kept may name another op.

## Runs

| Run | Shows | Bounds, and why they are enough |
|---|---|---|
| `exec_batch` | `TypeOK`, `ConcurrencyBound`, `NoChildLost`, `OkMeansExitedZero`, `OutputComplete`, `DeadlineEnforced`, `CircuitJustified`, `CompleteAtReturn`, `NoSpawnAfterStop`, `Returns`, `ImplementsContract` | 3 commands on 2 slots: a command waits for a slot, and a slot is used again. Timeout 1, budget 2, clock to 3: a child can be killed by its own deadline, another by the budget, and a third skipped. Two failed spawns open the circuit, so one may fail alone and the counter may be reset. Safety is proved for all values |
| `exec_batch_wedge` | `AlwaysReturns` fails | 2 commands, one heir |
| `exec_cmd` | `TypeOK`, `OkMeansExitedZero`, `OutputComplete`, `Returns` | 3 slices, a pipe of 2 chunks, 3 chunks: the child can be blocked on a full pipe, and finish in any slice. Safety is proved for all values |
| `exec_cmd_chatty` | `AlwaysReturns` fails | a child that writes for ever |
| `rules_apply` | `TypeOK`, `CacheMeansApplied`, `PublishedAfterPass`, `CacheWhole`, `DryRunPure` | 2 processes and 2 configs, so that one can overtake the other and the file can return to an older content; edits, reboots and failed writes without limit. Safety is proved for any number of processes and configs |
| `rules_guard` | `GuardConverges` | the same, without the incidents the property excludes save the reboot |
| `rules_edit` | `HashOfLastApplied` fails | edits only: neither reboots nor failed writes |
| `config_watch` | `TypeOK`, `NoLostEdit`, `Converges`, `StopHonoured` | the 3 files of `MAPPINGS` with 2 changes each, changes of other files without end, a queue of 4 and reads of 2 events: the queue can overflow, one read can leave events behind, a file can change in every phase of the handling of another, and the debounce loop can be kept going for ever. Safety is proved for all values |
| `config_watch_busy` | `NoticedIsApplied` fails | 1 file, unlimited changes of other files |
| `config_page` | `TypeOK`, `AppliesTheClick`, `LastClickWins`, `LoadKeepsEdits`, `ApplyComesBack` | 3 pages on every kind of host, with and without a watcher, 2 texts (empty lists and the defaults), edits without limit, 2 clicks: the second can come in any phase of the first, and the lists can differ at both and in between. Two texts are enough for that: the properties ask whether a command, a pass or the file has the text of a given click or another one. A third click would meet the same phases, since a save is over, under way, or not yet begun. Safety is proved for all values |
| `config_page_preview` | `PreviewIsNoCommit` fails | the rules page alone, without failures |
| `parts` | `TypeOK`, `TapHitsItsRow`, `SwitchTruth`, `ResultKept`, `LogWhole`, `AddedIsKept`, `QuietList`, `SpinnerEnds`, `QuietGameIsApplied`, `AdbdReniced` | All but the two liveness properties are proved for all values. Lists: 2 tags and 3 rows, so that two rows look alike and a search hides some; settings: 3 taps, so that a rollback meets a later tap, and 2 exports, so that an older timer meets a newer result; log: 3 lines and 2 overlapping loads; pickers: 2 requests, so that one overtakes the other, and every name of up to 3 characters from 7 classes, enough for each separator to lead, to trail and to be doubled, with `SafeDigits` 2, so that a number of 3 digits stands for one that may not fit; game: every path of up to 3 segments below a root; mirroring: 3 starts of adbd, so that two fall in one scan, and scans of 2 turns |

What the properties say, beyond the comments at their definitions:

* `ConcurrencyBound` counts children that are not yet waited for, zombies included:
  `in_flight` could be within its bound and the processes not.
* `NoChildLost` holds up to a poll error. After one the code returns and destroys
  `in_flight` with the children neither killed nor waited for; the property names that
  exception, and `OkMeansExitedZero`, `OutputComplete` and `ImplementsContract` make none:
  such a child's result is still never a success.
* `OutputComplete` is about the window between the last poll and the exit. It would
  fail without the drain after the reap.
* `DeadlineEnforced` holds although a drain may take long: the pass compares with
  the time it began, so a child is at worst one pass late.
* `Returns` assumes nothing of the children but that no other process holds a pipe
  for good. `AlwaysReturns`, which the header claims, is refuted without that
  assumption.
* `CacheMeansApplied` is README's description of `rules.hash`, until one of four
  incidents; `rules_edit` shows the edit at work, two overlapping runs have the same
  effect (a save in the web UI with the watcher on starts exactly two), and the
  exceptions for a reboot inside a run and for a failed write are needed as well:
  the old hash stays in the cache while newer commands have been run, so a file that
  returns to the old content is skipped.
* `PublishedAfterPass`: a config whose hash is in the cache was loaded by a pass that ran
  both its batches, or an edit between a load and the hash slipped it in; `rules_edit`
  shows that second way.
* `NoLostEdit` finds four ways to lose a change: it comes before the watch is added,
  its event is dropped from a full queue, the fork fails, or the `yay_apply` dies
  before it reads the file. In the first, `service.sh` runs `yay_apply --boot` to
  its end before it starts the watcher.
* `Converges` and `StopHonoured` have the premise `DebouncesEnd`. The debounce loop ends
  only on a pause of 300 ms in the events of the whole directory, and it does not look at
  `g_stop`; without the premise a directory that keeps changing refutes both, as
  `config_watch_busy` shows of a claim beside them. With it, each debounce may take as
  long as it likes, and the signal may come during one.
* `AppliesTheClick` and `LastClickWins` are what a user expects of Apply: the lists as
  they were at the tap, not as they were edited while the save was under way. The two
  exceptions are in the code: Preview is not disabled during a save, and a host with a
  file interface writes before the pass of an earlier click has read the file. The
  watcher adds a third to `LastClickWins`: its `yay_apply` may have loaded the file of an
  earlier click, or of the same page's Preview, and end after the pass of the last one.
  The property then asks that the watcher has an event left or is applying the last text
  already, so that the page's word comes true after all; on the rules page not even that
  is certain, since the hash of the last text may be in the cache by then. On a
  host that runs commands at once, two clicks on the rules page can end in a file
  that mixes two texts.
* `LoadKeepsEdits` holds since a list is not rendered during a load. The games page is
  the exception: its "+" is outside that condition, and a game added before the first
  load has ended is overwritten.
* `TapHitsItsRow` would fail for an index into the filtered list, and for an `editIdx`
  that outlives a change of the list.
* `SwitchTruth` says what the rollback is for; its exceptions are the errors the page
  does not look at.
* `AddedIsKept` and `QuietGameIsApplied` compare two implementations of one rule, TLC
  over all inputs of a bounded length and the proofs over all. The exception in
  `AddedIsKept` is a number of more than `SafeDigits` digits, which the page accepts and
  the engine may drop or skip. The page's rule for log directories is the stricter
  one.
* `AdbdReniced` is about changes that come while nobody waits for them: the serial of the
  last wait is what makes the next one return at once. Its exception is in the code: an
  adbd that is slower to execute than the thread is to look is not reniced before its
  next restart.
* `QuietList` is claimed for hosts that answer in order: the pickers do not tell the
  answers of two requests apart.

Each property of a passing run has a mutant in `PROJECT.json`: an operator such as
`HasRoom_OffByOne` stands before the definition it replaces and changes it as a
plausible mistake in the code would; with it TLC finds the property violated.

## Fairness

Fairness is only ever assumed of processes the kernel schedules and that are not
blocked by the model itself.

* `ExecBatch`, `ExecCmd`: weak fairness of the function's own steps (and of the
  clock). No child is assumed to exit, to write, or to close anything. A read that
  blocks is a step that is not enabled.
* `RulesApply`: weak fairness of each started process. Nobody is assumed to start
  one; `GuardConverges` is conditional on runs being started again and again.
* `ConfigPage`, `Pickers`: weak fairness of the host and of the page's continuations:
  commands end (what `Returns` says of `yay_apply`'s own) and are answered, and the
  JavaScript engine resumes the functions that wait for them. Nothing is assumed of
  the user. A command that never ends does leave a spinner on for good.
* `MirrorPriority`: weak fairness of the thread; nothing is assumed of init and adbd.
* `ConfigWatch`: weak fairness of the watcher and of the `yay_apply` it waits for.
  The latter is justified by `Returns` as far as that goes; a `yay_apply` that hangs
  (see below) also holds the watcher, whose `waitpid` has no timeout.

## Proofs

Every theorem is of the form "for every value of the constants that satisfies the
named assumptions of the modules", one for each: numbers are naturals (the item timeout
positive), flags Boolean, the special contents distinct from configs, and typed texts
made of the classes of characters.

* `ExecBatch_proofs`. `IndInv` strengthens the safety invariants: what is in flight
  fits the slots and has no result yet; nothing at or after `next` has started;
  outside the reap loop no child is left to look at; the child whose pipe is being
  drained is the only one in flight that has been waited for; the main loop never
  waits with a free slot and work left; an exhausted budget leads only to the end.
  `ConcurrencyBound` alone is not inductive, since it does not say that the unwaited
  children are those in flight. `IndInit` and `IndStep` (one step per action) give
  `Inductive`, and from it follow `ConcurrencyBounded`, `ChildrenTracked` (which gives
  up the children only after a poll error), `SuccessIsReal`, `DeadlinesKept`,
  `CompleteReturn` and the action property `NoLateSpawn`. Two more invariants stand beside it: `OutputIsWhole` is inductive
  once `IndInv` is known, and `CircuitOpensRightly` needs `FailureRun`: the failures
  counted are the last commands taken, and none of those was forked.
  `ContractImplemented` shows that each step maps to a step of
  `BatchContract` or to a stutter, under a mapping that reads a command's outcome
  off its result, `inFlight` and `next`.
* `ExecCmd_proofs`. The invariant ties the reason the loop ended to the state of the
  pipe and of the child; `SuccessIsReal` and `OutputIsWhole` follow.
* `RulesApply_proofs`. Three layers: a hash on its way to the cache belongs to a
  finished pass or has slipped in (whatever overlaps or crashes); a run that nobody overlaps has the
  temporary file to itself, so what it renames is what it wrote; and without an
  incident every step of a run works for the config in the file, while the cache is
  right as long as no run is past its hash. `HashComesLast` (a
  config in the cache was loaded and applied, or `slipped` in), `CacheNeverCut`,
  `CacheIsRight` and `DryRunsArePure` follow.
* `ConfigWatch_proofs`. `NoLostEdit` needs little strengthening, only that the child
  waited for is known and that an open file has changes left. The work is in two
  lemmas on the queue: reading events moves every file among them to `triggered`
  and keeps the rest, and a notification removes none and adds its own unless it is
  dropped. `NoEditLost` follows.

* `QueueLemmas`. The pages' pending calls are a sequence, and a proof has to follow a
  call when another one before it is removed. `RemoveAtLeaves` gives the map from the
  places after a removal to those before it, which is one-to-one and keeps the order;
  `HasLeast` and `HasGreatest` pick the first and the last call of a kind.
* `ConfigPage_proofs`. `LastClickWins` speaks of a page where all is answered, so its
  invariant has to say what every call under way will do. `Order` places the calls: on
  a page without a Preview there is one write at most, for the last click and behind all
  passes, since `saving` disables the button; on a serial host writes and passes are in
  the order of their clicks. `FileFollows` and `AppliedFollows` say that the last click
  has its write under way, or its pass, or is done with; `PassReady` and `PassRead` that
  a pass finds, and then has, a text that does for it. `Loading`, that a list is hidden
  while it is read, is what `EditsAreKept` needs. About the watcher, `WatchSees` says that a
  pass whose text is no longer the file's has an event behind it, `ClashSeen` that two
  passes with different texts make `clashed` true, and `AppliedLast` what the pass that
  ended last has left. `LastClickIsLast` follows for all three pages: what the file holds,
  for every kind of host (on the rules page one that runs commands in order), and what is
  applied, for hosts with `window.ksu` that run commands in order; `ClickIsApplied` is
  about such hosts only. Both are about behaviours in which nothing failed so far.
* `Pages_proofs`, settings. The truth of a switch depends on all taps under way:
  `FlagFollows` says that the last call agrees with the switch (`LastShown`), that the
  last one answered left the flag file as it is (`LastLeft`), that an `enable` to come
  first finds no file (`FirstEnables`), which makes the rollback to "off" right, and that
  the calls take turns (`Alternate`). `OneExport` bounds the exports and their timers.
* `Pages_proofs`, pickers. `QuietInv` adds to `QuietList` what holds while requests are
  under way: the last one is for the package in the field. `AddIsKept` rests on
  `EntryKept`, which compares the page's validation with the engine's for texts of any
  length and leaves out the long numbers (`KeptOrLong`). `SpinnerHasARequest` is the
  safety half of `SpinnerEnds`.
* `Pages_proofs`, log. What the first read of a load has is compared with `run.log`, and
  what both have with both files, in terms of the lines there when the load began: a line
  moves from `run.log` to `run.log.1` and never back, so one that both reads missed is
  in neither file any more (`ReadSoFar`). Files and histories hold only lines that
  were logged, so a new line is none of those.
* `MCParts_proofs`. `TapsHit` needs that `editIdx` finds the game its modal was opened
  for as long as it is open; the rest are lemmas on what a change in place, a removal, a
  push and a swap of neighbours do to the other rows. `QuietGamesApply` needs
  that a form never holds an unset downscale. `NoStartSleptThrough` is the safety half of
  `AdbdReniced`: `Lookout` says what a thread whose `seen` is the property's serial has
  yet to do, in each of its places. `PartsImplemented` shows that `MCParts` implements
  the specification of each part, since no part touches another's variables, so that all
  these theorems hold of the instance the run checks (`PartsTyped`, `PartsSafe`,
  `PartsStepSafely`).

Only model-checked: the liveness properties (`Returns`, `GuardConverges`,
`Converges`, `StopHonoured`, `ApplyComesBack`, `SpinnerEnds`, `AdbdReniced`), which need
fairness and `ENABLED` and are out of the prover's reach, and the five runs that
refute a claim, which TLC does by an example.

## Disagreements found

1. `exec_batch` can hang past `total_budget` (`exec_batch_wedge`).
2. `exec_cmd` never times out a child that keeps writing (`exec_cmd_chatty`).
3. An edit between the load and the hash makes the guard skip a config that was
   never applied (`rules_edit`).
4. A config directory that keeps changing holds the watcher in its debounce loop
   (`config_watch_busy`).
5. The preview of the rules page saves the edited rules first, and a running watcher
   applies them (`config_page_preview`).

Smaller ones, met while modelling and mostly built into the models, without a run of
their own:

* `yay_apply` returns 0 whatever happened (`main_apply.cpp:222`), so the page says
  "applied" of a config that was rejected; and since its log goes to the file and to
  logcat only, the preview's modal stays empty.
* In a WebUI X host without `window.ksu`, `exec` is the browser's mock
  (`bridge.js:85`): "applied" and "disabled" are shown though nothing was run.
* After a poll error `exec_batch` returns and leaves its children to themselves, though
  `exec_util.h:61` says that "Each child gets up to `item_timeout` before being SIGKILLed
  individually".
* `main_watch.cpp:201` "keeps g_stop check responsive", with a timeout of the outer poll;
  the debounce loop inside never checks it.
* The rules page takes any "non-negative integer" as an op (`Rules.vue:180`). From 2^53 on
  `parseInt` rounds it to another one; from 2^63 on it reads as a negative `long long`,
  which `rules_engine.cpp:216-221` drops, and from 2^64 or as a float
  (`1e21`) it is skipped without a word (`:230-232`).
* A modal's buttons work while it fades out: a second tap on Delete removes the next
  game, a second one on Add adds the rule twice.
* Apply is enabled during a load and after a failed one: it then saves empty lists, or
  the default schedulers.
* `findFileInterface` keeps the result of a failed scan, though its comment says
  "Cached after first successful scan".
* `path_contains_segment` finds the package anywhere in a path, while the comment
  above it (`game_mode.cpp:26-28`) rules out another app's directory; the page's form
  warns of such a path all the same.
* `mirror_priority.cpp:300-302` says that starting with serial 0 costs "at most one extra
  wait/read cycle"; if adbd is running at that time, it costs a second scan for
  scrcpy's server, of up to 20 s. And an adbd that is slow to execute is not "reniced
  immediately", as `mirror_priority.h` says, but never.
* `io_scheduler.cpp:89` looks at the first occurrence of a name only, so "deadline" is
  not found in "mq-deadline deadline", although "first available wins" is promised.
* A save overwrites what another editor has written since the page was mounted.

## What is not modelled

* Within the modelled parts: allocation failures (the `catch (...)` blocks), a
  `waitpid` that fails, children that survive SIGKILL, integer widths of counters
  that count entries of a file, log lines. In `RulesApply` a batch is one step, so a
  reboot falls between batches and not inside one, and `ran` does not record that
  Android refused a command: the code publishes the hash regardless, on purpose.
* djb2 and its collisions, the text of JSON, and the defaults and the deduplication
  of an entry list: `RulesPlan` will cover the last.
* In the web UI: toasts (an older one's timer clears a newer one), notes, the modes and
  actions of a rule, `read_ahead_kb`, which no guard reads; the filter box of a picker;
  which op a number of 2^53 or more is rounded to; the home page,
  which shows counts; `openWebsite`, `listApps`, `getAppLabel`, `toast` and
  `onHardwareBack` of the bridge.
* `io_scheduler`, the purge's recursion, `yay_inspect`, the boot sequence: see the
  plan. Layout and icons of the web UI, the bundled `webroot/`, the build and the
  installer have no behaviour of the kind a model would show.
