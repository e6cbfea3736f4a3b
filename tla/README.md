# A verification project for camera-gui and the tree that builds it

The repository is a Buildroot tree (`buildroot-mchp`), Microchip's external tree
(`buildroot-external-microchip`) and, inside the latter, the one program written
for this project: `package/camera-gui`, an EGT + GStreamer application that shows
an RTP video feed on a WVGA panel and saves a still JPEG when the Capture button
is pressed or a UDP "sensor" datagram arrives. `main.cpp` below is
`buildroot-external-microchip/package/camera-gui/src/main.cpp`.

The modules in this directory model three things: that program, because it is where
this repository has concurrency of its own; the part of Buildroot that several builds
share at the same time, the download directory; and the largest program of the tree
that is compiled from source kept in it, `buildroot-mchp/support/kconfig`, which
decides what is built at all. Paths below that begin with `kconfig/` stand for
`buildroot-mchp/support/kconfig/`.

## 1. Inventory

### camera-gui

| Part | State | Operations | Interacts with |
|---|---|---|---|
| Capture gate (`do_capture` 735-748, `one_shot_probe` 266-271, pipeline 579-604) | valve's `drop`, installed probes, `capsink` location, multifilesink index, files, bus | set location, add probe, open valve (UI thread); admit, probe callbacks, encode, write or fail (streaming thread) | status panel through the bus; the card |
| Status panel (`do_capture` 703-756, pump 787-908, `on_click` 759-761) | `tick_count`, `revert_tick`, `sensor_revert_tick`, `frame_count`, `last_frame_tick`, two labels | click, tick, take the sensor flag, refuse, accept, pull a frame, show saved/error | all the others, on the UI thread |
| Sensor listener (`sensor_thread_main` 295-340) | socket queue, `sensor_running`, `sensor_detected` | receive, store, time out, stop, join | pump's `exchange(false)`, `main()` 912-925 |
| Process (`main`) | pipeline state, the appsink's one sample | start, run the loop, join, stop the pipeline | everything |
| Video plane, logging, pipeline text | pixels, log | straight-line code | - |
| Service start (`camera-gui-start.sh`, unit file, `check_screen_type.sh`) | egtdemo unit, display ownership, poll counter | stop egtdemo, poll, exec | systemd, the DRM master |

What is hard in camera-gui: the UI thread and GStreamer's streaming thread meet at a
valve without a lock of the program's own; requests come from two sources; a
request's three steps interleave with the buffers; messages come back later, in
another callback, and share one label and one deadline with the refusals; tick
arithmetic is unsigned with 0 as a sentinel; the listener shares `main()`'s
locals and is stopped through a flag and a receive timeout.

What makes it correct: no probe is forgotten and no open valve lacks one; a
request is answered by one file, stamped with it; the label never claims a
capture that is not under way and never keeps a transient notice; the gate opens
only on a live feed; no detection is lost between the threads; a dead pipeline is
reported; closing always ends, in an order that leaves nothing in use.

### Buildroot and the external tree

| Part | State | What is hard |
|---|---|---|
| Download wrapper (`support/download/dl-wrapper`, `check-hash`, `DOWNLOAD` in `package/pkg-download.mk`) | shared download directory, temporary file and directory, lock | parallel builds, interruption between copy and rename, verification before publication |
| Git backend (`support/download/git`) | persistent cache, first-fault flag | repair by deletion, one retry through `exec` |
| Package steps (`package/pkg-generic.mk`) | stamp files, build directory | interruption between a step and its stamp, parallel make |
| Support scripts, tests, recipes, boards | files produced in one run | sequential |

What makes the download directory correct: a file under its final name is whole;
it disappears only because a build found it wrong; a build that was told it has
its file has one that passes its hashes; a run ends and the lock with it; nothing
is left behind.

### kconfig

| Part | State | Operations | Interacts with |
|---|---|---|---|
| Expressions (`expr.c`) | none, trees rewritten in place | simplify, eliminate common operands, compare, calculate, print | the parser builds them, `menu_finalize` and the symbols use them |
| Menu tree (`menu.c`) | the tree, properties and dependencies of the symbols | `menu_finalize`, visibility, what can be reached | built once, asked by every front end |
| Symbols (`symbol.c`) | user's values, calculated values, flags, the change count | calculate on demand, set, toggle, choose, invalidate | all the others |
| `.config` files (`confdata.c`) | the files | read, write, minimal, `auto.conf` and the touched files, fill in | `make` reads `auto.conf`, its rules depend on the touched files |
| `conf` (`conf.c`) | the run's mode, the question asked | eleven modes that read, ask or fill in, and write | terminal, the files |
| `mconf.c`, `nconf.c` | stack of menus, items on the screen, name of the file | walk, edit, load, save, search, quit | lxdialog or curses menus, the files |
| `gconf.c` | rows of two GTK trees kept between changes | click, edit, show, load, save, quit | GTK callbacks, the files |
| `lxdialog/*.c`, the list of `nconf.c` | scroll positions, what each row or column shows | every key, a resize | the terminal |

Nothing runs concurrently here except the signal handler of mconf, and nothing is
persisted except the files. What is hard: values cached with a valid flag while
anything may invalidate them; a rewriting algebra with dozens of rules; setting a
symbol that changes the visibility of others, of choices with a value of their own;
a file that has to come back as it was written, also after another Config.in tree or
a break between two renames; a tool that has to tell `make` of each change though it
may be broken off; rows and boxes patched in place instead of drawn anew; and
sequences of edits, loads and failed saves after which the question "save?" must not
be left out.

What makes it correct: a rewriting pass keeps the meaning; a cached value is the one
a calculation from scratch gives; an accepted answer is the value; what is written is
consistent and reads back; a new `auto.conf` never differs from the last one in a
symbol whose file was not touched since; questions end; a session that ends without a
warning has lost nothing; what is on the screen is what would be saved; and a window
shows the list, string or text it scrolls over.

`PROJECT.json` lists every component with its status, and every hazard with the
line where it bites and the property that watches it.

## 2. Plan

1. `CaptureGate` with its contract `OneShotCapture`, `StatusPanel`,
   `SensorListener`, composed by `CameraGui`; theorems about each of the three
   components and about the composition. **Done.**
2. `CheckHash`, `AtomicStore`, `DlWrapper`: the shared download directory, with
   the theorem that the wrapper implements the store. **Done.**
3. `KExpr`; `KMenu` and `KMenuView`, `KSymbol`, `KConfData`, composed by `KConf`:
   the runs of `conf` on small Config.in trees. **Done.**
4. `KFront` with `MConf`, `NConf` and `GConf`: the interactive front ends on the
   same symbols. **Done.**
5. `Curses`, `MenuBox`, `CheckList`, `InputBox`, `TextBox`, `NMenu`, composed by
   `Lxdialog`; theorems about every box and about the list of nconf. **Done.**
6. Next candidates: `CaptureFiles` (stamps and indices of the saved files over
   several runs of the process, with clock steps), `Handover` (egtdemo and the
   display), `GitCache` (the backend's repair as the external step `Fetch` of
   `DlWrapper`), `PkgSteps` (stamps, interruption and parallel make).
7. Theorems about kconfig: the rules for the leaves of an expression (`KLeaf`), the
   passes over whole expressions (`KExpr`, `KPasses`) and the way a sync tells kbuild of
   changes (`AutoConf`). **Done.** Left: the save and quit control of the
   front ends (`QuitKeeps`), which needs a module of its own below `KFront` and rests on
   what a written file reads back as (`ReadsBack`), a fact about the recursive calculation.

Every module with theorems takes its bounds as CONSTANTS with named assumptions, has
one action per operation and no RECURSIVE operator. Expressions are therefore defined by
recursive functions, over how deep they may nest. The other modules of kconfig that are
recursive where the program is (menus, values that depend on one another, the text of an
expression) are model-checked only.

## 3. Modules and the code

**CaptureGate.** Two threads. The UI thread's variable `arming` walks through
`SetLocation` (735-742), `AddProbe` (743-746), `OpenValve` (747-748). The
streaming thread's `stream` walks from `idle` through `Discard`/`Admit` (the
valve's chain function), `EnterProbe`/`LeaveProbe` (the callback that closes the
valve, then removes the probe), `PassUnprobed` (an open valve without probe) to
`WriteFile`/`FailWrite` (multifilesink). The callback is two steps because it
runs without the pad's lock and the UI thread may run between the `g_object_set`
and the removal. A probe added while a buffer is in the callbacks is called for
that buffer too, which is how GStreamer walks its hook list. The GStreamer
elements are external: they are modelled from the properties the pipeline text
sets and from what the code expects of them. The branch carries one buffer at a
time: the encoder and the sink run in the thread that pushed it. `overlapped` is
a history variable: a probe was added while an earlier request was pending.
`Next` lets requests come at any time, as the code does; `SerialNext` restricts
the environment to requests that wait for the previous file.

**OneShotCapture.** The contract of the button in the words of `one_shot_probe`:
press, then save under that press's stamp, or break.

**StatusPanel.** The UI thread. A callback runs to its end, but it is cut at
every point where it looks at something another thread changes; what it finds
there (`hit`, `got`, which bus message) is an input. `revert`, `sensorRevert`,
`tick` and `lastFrame` are the counters of lines 685-689 with their unsigned
arithmetic modulo `TickMod`. `valve` is fixed at start: the capture branch exists
only if multifilesink does.

**SensorListener.** The listener thread's loop, the kernel's bounded receive
queue (`Arrive` drops when full; a datagram may be empty), the pump's exchange
(`Poll`), and `Stop`/`Join` of `main()`. `received` and `noticed` are history.

**CameraGui.** INSTANCEs of the three. The pump's inputs become real: `TakeFlag`
reads `detected`, `PullFrame` the appsink's sample (which may fail to map),
`ShowSaved`/`ShowError` the head of the gate's bus. `AcceptRequest`,
`InstallProbe` and `OpenGate` are the joint steps of panel and gate. A write error
stops the source, so `DisplayFrame` needs a live stream. `Quit` happens between
callbacks; `StopPipeline` waits for the streaming thread, as the state change to
NULL does. `silent` counts the ticks since a frame independently of the counters
that the guard reads, up to `Horizon`, the guard's window and the label's together.
Over a running stream "Capturing..." has to be true (`CapturingIsTrue`). Over one that
has stopped the guard still lets requests through for its window, and nothing answers
them; there the label has to end (`CapturingEnds`).

**CheckHash.** `check-hash` as an operator: a hash situation is whether a .hash
file exists, the lines that name the file, in order, and whether
`BR_NO_CHECK_HASH_FOR` exempts it. `CheckLines` is the loop, which ends the script at the first line that fails.
A line stands for the one content that has its hash; lines that name other files
are skipped by the script and left out.

**AtomicStore.** What the builds rely on: absent or whole, evicted only by a build
whose hashes it fails, success only with a file that passes.

**DlWrapper.** One `pc` per build, one action per file operation of `dl-wrapper`
in the script's order: `Lock` (the flock around the wrapper in `DOWNLOAD`),
`NoLegacy`/`LinkLegacy`/`CopyLegacy`/`EndCopy` (66-70), `CheckExisting` and
`RemoveWrong` (77-88), the loop (`Fetch`, `FetchFails`, `Verify`, `VerifyFails`,
`NoUriLeft`), then `MakeTemp`, `Append_`, `Rename`, each step with its failure: an rm
(`RemoveFails`, `RemoveDirFails`) and an mktemp (`MakeDirFails`, `MakeTempFails`) can fail too. `Exit`
releases the lock. `Kill` may strike at any point and cleans up nothing; the
kernel frees the lock. What a backend and a post-process deliver is either a
whole file, good or bad, or a failure: a truncated download is a bad one. `Start`
forgets the temporaries of an earlier run, since `mktemp` never reuses a name that
exists. `Linkable` says whether the old and the new layout share a file system.

**KLeaf, KExpr, KPasses.** `KLeaf` has what needs no recursion: symbols, comparisons and their
values, and the rules of `expr_join_or`, `expr_join_and`, `expr_transform` and
`expr_trans_bool` for one leaf or two; `KExpr` has the passes that apply them to trees.
What `expr_join_and` takes for a constant is every literal in quotes (`Flagged`, the
flag SYMBOL_CONST): y, m and n, and the texts of `Quoted`. It takes two literals for different when
their names are, while a value is compared by its number, and `m` has the number 1: a
comparison like `A="1"` of a tristate A is `Misleading`, and `MeaningKept` is about
expressions that have none.
An expression is a tuple headed by its type; a pass of the C code that
rewrites a tree in place is an operator that returns the new tree, and a pass over
the operands of one level works on their sequence. All passes of `menu_finalize` are
there, with the joins of two comparisons, the elimination of common operands,
containment, comparison and calculation. They are functions on `Expr`, the expressions
that nest no deeper than `MaxDepth`; where the code calls itself for what is not a part of
the expression it was given (`expr_eq` for leaves that were rewritten before, the duplicates
within a leaf), the function counts down how deep the pass may still go (`Equal`, `Dups`).
The two nested recursions over the leaves of a level visit every pair in turn, the leaves of
the second inside those of the first, and later pairs see what earlier ones left.
`KPasses` writes an expression operand by operand and takes it through the passes of
`menu_finalize`, with a parent's dependency joined to it; what is written stands for the
expression after `rewrite_m`. `KExprMC` gives it symbols and operands, and has the printing
with its parentheses and the precedences by which the text is read.

**KMenu, KMenuView, KSymbol.** `Finalize` turns the entries of a Config.in tree into
the tables `K` (the order of the symbols, their properties, choices and reverse
dependencies), which do not change afterwards. `st` is all the state symbol.c keeps
in the symbols; a function that changes symbols returns the new record, and one that
only asks (a visibility, a value) does so too, because asking calculates and caches.

**KConfData, AutoConf, KConf.** A file is a sequence of lines. `ConfRead` is `conf_read` with
its resetting of values, `Dump` what `conf_write` writes and the flags it clears,
`Split`, `WriteAuto` and `Interrupt` the writing of `auto.conf` with a break
after any number of touched files. How these use what is on the disk is `AutoConf`, which
leaves open where the values come from: a file is a function from the symbols that have a
line to their values, and between two syncs a `.config` may become any other. `KConf`
decides by its operators (`Sync`) and, as `SyncTogether` checks, implements it. A run of `conf` is one action if it asks nothing
and one action per question otherwise (`Answer`, `AnswerChoice`); several runs follow
each other on the same files. The `conf_write` at the end of a run may end between its renames, by a
failure or a kill, and then leaves no `.config` (`Saved`). The runs from scratch may
start with the values of a file that KCONFIG_ALLCONFIG names (`Seeded`). `KConfMC` holds the inputs: every `.config` with up to
two lines, every answer, every value of `rand()` on the trees that are small enough.

**KFront, MConf, NConf, GConf.** A session of one of the three programs: it begins,
reads the `.config`, edits, loads and saves under two names, and ends with or without
the question. A save succeeds, cannot open its file, or fails at the second rename,
after the backup was moved; by then the symbols it has written are off the list of those
to write. SIGINT may strike mconf while it waits or draws (`MInterrupt`), within
`conf_read` (`MCutLoad`) and at any place of `conf_write` (`MCutSave`, and `MCutAnswer` in the one
at the end), where the handler may start another `conf_write` for what is left of the
list, to the same temporary file and with the same renames (`Cuts`, `CutShort`). Of the first text all
or nothing is still in the buffer of its FILE; what is, goes over the second text at
`exit` (`WrittenOver`, where all lines count as equally long). The history variable `lost` tells
that changes fell to a load that failed, or that a save broke off, until a later act
makes up for it: a load that succeeds, a save of everything, an edit after which all is
calculated and written anew. `MConf` and `NConf` build the box of the innermost menu
after every key as `build_conf` does; nconf's function keys act in choices as well;
and what nconf shows is read before it is calculated again. `GConf` keeps the rows
from one change to the next: `update_tree` is followed call by call, with its early
return, and what is to be drawn after a change is a phase of its own (`draw`),
because each of the two trees is walked separately. GTK itself is external.

**Curses, MenuBox, CheckList, InputBox, TextBox, NMenu, Lxdialog.** Each box is a
record with the C function's variables and a picture of its window: the item in each
row and the highlighted rows, the character in each column, or the first line. A key
is an action which prints and scrolls what the code prints and scrolls, and no more,
so that a row that is not printed again keeps what it showed. A resize draws anew
from the label `do_resize`. The box called again finds what outlives the call
(`s_scroll`, `_vscroll`). NMenu is the curses menu of nconf with the search by
typing: the pattern is represented by the set of items that contain it, which each
further character can only shrink.

`CaptureGateProofs`, `StatusPanelProofs`, `SensorListenerProofs`, `CameraGuiProofs`, `DlWrapperProofs`,
`LxdialogProofs`, `LxdialogListProofs` and `KconfigProofs` hold the proofs.
Each module also holds a few named wrong variants of its actions; no
specification uses them, they show that each property can fail.

## 4. Runs

| Run | Question | Result |
|---|---|---|
| `gate` | every interleaving of 3 requests and 3 buffers | probes and frames accounted for |
| `gate_serial` | requests one at a time, up to 8 | implements `OneShotCapture`; every request answered |
| `panel` | 12 ticks, any inputs | deadlines always ahead of transient notices |
| `listener` | 4 datagrams, buffer of 2, shutdown at any point | nothing lost, every detection noticed |
| `dl` | 2 builds, 6 kinds of hash situation each, kills, 2 runs | an atomic store; accepted files stay; exit codes as the header of check-hash gives them, 0 and 3 in both directions |
| `dl_live` | the same, legacy file can only be copied | every run ends |
| `gui` | the composition, safety | label true while the stream runs and gone in time over a dead one; gate opens only on a live feed |
| `gui_live` | the composition, liveness | detections and failures shown, closing completes |
| `kexpr` | every expression of up to two operands, negations and comparisons included, alone and joined with a parent's | every pass keeps the meaning under every valuation, unless a comparison is misleading; printed text reads back |
| `kconf` | six trees, every short `.config`, runs of every mode one after another, with seeds, syncs and saves broken off | values current and justified, answers honoured, files read back, kbuild told of each change, questions end |
| `kfront` | sessions of mconf, nconf and gconf on six trees, SIGINT at any point of mconf's | nothing lost without a warning but in the two ways of the findings, every question reachable, screen and rows current |
| `lxdialog` | every key in every box, with resizes | window in step with list, string and text; paging misses no line; a search finds the nearest match |

Claims of comments that the code does not keep have configurations of their own, which
end in a counterexample and are not among the runs: `CaptureGateFindings.cfg`
(module CaptureGate), `StatusPanelWrap.cfg` (StatusPanel),
`DlWrapperPartial.cfg` (DlWrapperMC) and `KConfStale.cfg` (KConfMC). The first names two
invariants: TLC stops at the one it meets first, and finds the other violated when that one
is taken out. Others end so when their invariant takes the place of all properties
in the configuration of a run: `NeverDies` and `SearchReturns` in `Lxdialog.cfg`,
`MeaningAlwaysKept` in `KExprMC.cfg`, `SavedIsThere` and `KeptIsThere` in `KFront.cfg`. Section 6 says
what each shows.
The type invariants of the first modules are theorems, and no longer checked by a run.

Bounds. `MaxRequests` and `MaxFiles` of 3 in `gate` let a third request overlap
two others; overlapping needs two. The deadlines' windows are 3, 2 and 1 ticks
instead of 90, 90 and 30: what matters is that the windows differ, that several
re-armings fit into one window (three ticks) and that several windows fit into a
run (12 ticks). `TickMod` is 64 where wrap is excluded and 8 where it is the
question. A buffer of 2 for 4 datagrams fills and overflows. `gui` allows two
requests, so that overlap happens inside the whole process; `gui_live` one
request with an unbounded clock (`MaxTick = TickMod`), since bounded time would
make liveness vacuous. Two builds are enough for every interleaving that two hands
on one lock can have, two runs each let one find what a killed one left, and two
URIs let the loop go round; the situations in `DlWrapperMC` cover each exit code,
and a good line before and after a failing one. The theorems cover the other values of the constants.

In kconfig the instance is the Config.in tree. `KTrees` has one for each hard case: a
select and a default across `MODULES`; a choice whose value may go away; ranges and
defaults that depend on another symbol; a tristate choice; a menu with
`visible if` and an imply; a select that contradicts a dependency; a menuconfig; a
dependency on a choice's value inside the choice. A tree has at most four or five symbols, so that all sequences
of runs and answers are covered; bugs of the kind looked for need two or three symbols
that depend on each other. `MaxLines` (2) bounds the lines of the first `.config`;
runs write any others. A run from scratch is seeded with the `.config` or minimal file there is, or
not (`Seeds`). Syncs and saves are broken off, and random values drawn, where there is no
`MODULES` (`MayBreak`), and a behaviour uses `auto.conf` or the saved defconfig but not
both, because no run reads both. `MaxActs` gives a session of mconf and nconf three
edits, loads or saves and one of gconf two, and walking is free: three acts are an edit,
something that goes wrong, and another edit. A load or save that is cut short needs an
act left as one that is not does. Two operands (`MaxLeaves`), each one of
over twenty, and a parent's one or two meet in every rule of `expr_join_or`, `expr_join_and`
and the elimination, which look at two operands at a time; `MaxDepth` is the least the
assumptions allow for that, since negations may come between any two levels. In `lxdialog` lists have up to 5 items and windows
up to 3 rows, so that windows are larger than, equal to and smaller than lists and
scroll by more than one page; strings have up to 5 characters in a field of 3; texts 5
lines in boxes of 1, 2 and 4 rows, with more places to jump to than keys (`JumpNb` 2).
The theorems about the boxes and the list of nconf cover all sizes.

Deadlock is not checked: builds that have ended stop, a pipeline whose write failed really stops, the bounds
end the others, a closed application is meant to stop, and so is a session of kconfig.

Fairness. `CaptureGate`: weak fairness of the UI steps and of the streaming
thread (the scheduler), and `FeedAssumption`, weak fairness of `Admit`: a frame
comes while the valve is open. The last is about the sender and only used by
`RequestAnswered`. `SensorListener`: weak fairness of the thread (each `recvfrom`
ends within its timeout), of the pump's poll and of the join. `CameraGui`: a
callback runs to its end (weak), the threads are scheduled (weak), and the pump's
timer is served (strong: the event loop also serves clicks, and a timer that is
due is not passed over for ever). `DlWrapper`: weak fairness of each build's own
steps; as runs are bounded, a waiting build meets a lock that stays free. Nothing
forces a click, a new run, a kill, a datagram, a frame or
the end of the application. The modules of kconfig state no fairness: their
only actors are the user and the files, nobody has to press a key, and each program
waits for as long as it takes. That questions come to an end is stated as progress of
each answer (`QuestionsEnd`), and that a search returns as an invariant.

## 5. Theorems

TLAPS proves the following for every value of the constants that satisfies the
modules' assumptions (`BoundsAssumption`, `TicksAssumption`, `SizesAssumption`,
`ClockAssumption`, `DlAssumption`, `MenuBoxAssumption`, `CheckListAssumption`,
`InputBoxAssumption`, `TextBoxAssumption`, `KLeafAssumption`, `KExprAssumption`,
`KPassesAssumption`). Those of expressions say that `MaxDepth` is a number and leaves room
for two levels (one of them a negation) for each of `MaxLeaves` operands and one more,
that operands are leaves or negated leaves, that parents obey the same bounds, and that
the values of the symbols are ones `sym_calc_value` can give (`Valuation`).

- `CaptureGateProofs`: `TypeCorrect`, `ProbesNeverOrphaned`, `OpenValveIsProbed`,
  `ExactlyOneFrame`, all from one inductive invariant `GateInv`. The properties
  alone are not inductive: `TypeOK` needs `CallbackHasProbe` (there is a probe to
  remove while one is being called), and the frame count needs `OneAtATime`, which
  says for each place of the UI thread what valve, probe and streaming thread look
  like while no request has overlapped another. `SerialGateIsOneShot` adds
  `SerialInv` (no overlap ever, at most one request ahead of the files, the
  location is the last request's) and shows that each step is a press, a save, a
  break or a stutter of `OneShotCapture`.
- `StatusPanelProofs`: `StatusReverts` and `SensorLabelReverts`, under the
  hypothesis `NoWrap` (no deadline reaches the modulus), which
  `StatusPanelWrap.cfg` shows to be needed. The sensor label needs a deadline that lies ahead except at
  the two points between the tick and the test that clears it.
- `SensorListenerProofs`: `ListenerTypes`, `DetectionsKept`;
  the strengthening `StoreHasCause` says that a thread about to store has a
  received datagram to account for.
- `CameraGuiProofs`: `CapturingTrueAlways`, of a stream that runs, needs of the bus only
  that it is a sequence of messages. `CapturingEndsAlways` has the hypothesis
  `DeadlinesExact`, that no deadline reaches the modulus. What strengthens it, `EndsInv`, compares
  the label's deadline with the time the feed was silent: the guard let no request pass after its own
  window, so the deadline lies within the second one. `OpenedLive` holds before the tick counter wraps (`ClockExact`); `FeedInv`
  ties `silent`, which counts the ticks themselves, to the two counters that the guard
  reads, and says that no tick passes between the guard and the opening, because a
  callback holds the event loop. `PartsBehave` shows that every step of the process is a
  step of the gate, of the panel and of the listener, or invisible to them, so that what
  is proved of each holds in the process.

- `DlWrapperProofs`: under the hypothesis `Linkable`, which `DlWrapperPartial.cfg` shows
  to be needed, `DlTypes`, `AcceptedFileStays` and `DownloadsAreAtomic`, for any
  set of builds and any hash situations. The invariant `DlInv` says that the lock
  is held by exactly the build inside the script (`Held`) and what that build
  still knows, at each place, of the output and its own temporaries (`Known`).
  `AcceptedStays` is inductive only with both: a removal needs a mismatch, which an
  accepted file does not have, and a rename needs the output still to be absent.
  Each action is then a step of `AtomicStore` or invisible; none of this depends on what
  check-hash returns. `CodesTrue` is about just that: of the lines that fail, one is the
  first (`LeastLine`), its code is the exit code (`FirstFailure`), and what
  the header of check-hash says of it holds (`CodeMeaning`), for 0 and 3 also the other way
  round, for any number of lines.
  A file that is exempt and named by no line of its .hash file counts as passing, as the code has it.

- `LxdialogProofs`: `FieldTrueAlways`, for all strings, limits and widths. The
  property itself is nearly inductive; `InputInv` adds the types. The argument is that
  the loop that prints the field clears only one column behind the string, and that this
  is enough: before each printing every column further right is blank already
  (`Unprinted`), because a key moves the field, the cursor and the end of the string by
  at most one.
- `LxdialogListProofs`: `ItemsShown` and `ComesBack`, for lists and windows of all sizes
  and any hot keys. `MenuInv` and `ListInv` say where the highlight and the window may
  be (`Placed`, `ListPlaced`), which `ShowsItems` needs to be kept by a key that prints
  only the rows it touches: take the highlight off (`DimmedWindow`), scroll
  (`ScrolledWindow`, sound only for a full window) or choose, and put it on
  (`LitWindow`). For `ComesBack`, `LastInv` ties the saved position to the menu that
  left it. Letters that jump need the existence of a first matching row (`FirstRow`),
  from the library's well-founded orders.

- The text box, in `LxdialogProofs`: `KeepsPlaceAlways`, `NoLineMissedEver` and
  `KeysMatchAlways`, for all texts, heights and keys. What strengthens `KeepsPlace` is
  `Placed` (in `TextInv`): where the printing stopped and how many lines it showed follow
  from the line on top, with the last page of a text cut short. `BackReady` computes from
  it where going back n lines leads, with the line lost at the end of the text and
  the stop at its beginning, `PagePlaced` what printing makes of that, and `TurnKeeps`
  puts the two together for every key. For the keys of a page of search results, a place
  is the number of places above it, which maps the places in view to consecutive numbers
  (`RankBijection`); the first `JumpNb` of them have different remainders
  (`RemaindersDiffer`), so none of the keys is given twice. A text that does not end with a
  newline keeps its types and nothing else, which is what `OnScreen` says.
- The list of nconf, in `LxdialogListProofs`: `SearchFindsAlways`. `get_mext_match` goes
  round the list by remainders; `VisitsInOrder` says that the k-th item it visits is the
  one at distance k and the other way round, so that the first match visited is
  the nearest. `NMenuPlaced` keeps the item in view as the window follows (`MatchFollowed`).
- `KconfigProofs`, of `AutoConf`: `ChangesTouched`, `OnlyChangesTouched` and
  `OldNeverNoAlways`. `conf_split_config` compares values while kbuild reads lines; `TouchesTells`
  shows for each kind of symbol, written or not, with an old value or none, that the two
  agree but for a number without a value, whose line reads back as nothing. It needs that
  an old value is never "no", which the code's comment claims and `SyncInv` keeps; `SyncInv`
  also says that while auto.conf is being written everything due is touched, whatever earlier
  syncs touched or left before they broke off. With the refinement that `SyncTogether` checks,
  this carries over to conf.
- `KconfigProofs`, of `KLeaf`: the rules that rewrite one leaf or two, each for all symbols, types and
  values (`Valuation`: a constant is worth itself, and a bool or tristate symbol one of its
  values, a literal in quotes its text). `JoinOrKeepsMeaning` and `JoinAndKeepsMeaning` take the
  rules case by case as the code does, including `(a!='m') && (a!='n')`, whose comment is
  wrong; the second leaves out operands that are `Misleading`, of which it is false;
  `OppositeNegates` needs that both sides of a comparison are integers, whether numbers or
  places in the order of strings (`RankTells`); `ConstantNegates`, `TestKeepsMeaning` and
  `NotNoKeepsNo` are the rules for constants, bool symbols and `FOO!=n`.
- `KconfigProofs`, of `KExpr` and `KPasses`: that the passes apply these rules to the right
  operands of a whole tree, for expressions of any size. `TransformKeeps`, `EqSound`,
  `EliminateEqImplies`, `EliminateDupsKeeps` and `TransBoolKeepsNo` are about one pass each;
  `MeaningAlways` and `EliminatedImpliedAlways` put them in the order of `menu_finalize`.
  - Induction over expressions. The library's induction theorems take an operator, which
    the installed provers cannot instantiate. A set of the depths at which a claim fails has
    a least element instead (the library's `WFMin`, over the order of the natural numbers), which
    gives an induction over sets of numbers (`Induct`) and from it one over sets of expressions
    (`ExprInduct`). By the first each
    recursive function is shown to exist, since a definition with CHOOSE says nothing until some
    function satisfies its equation (the lemmas `...Def`); the second is used everywhere else.
  - Levels. A level of && or || is the conjunction or disjunction of its operands whatever
    the shape of its tree. `Up` compares values by the thresholds they reach, and `All` and
    `PartWorth` say of any range of places what `WithLeaves` makes of the operands put there,
    so that a step at two places can be replayed at the level's value.
  - `EliminateEq` and `Eq` call each other, so one induction over the depth is about both: if equal
    operands have equal values, then after each pair of operands one side implies the other only if it
    did before (`Lacks`), and what is left of two expressions that both came to one symbol was
    equal. Operands made neutral on both sides are the reason why this is an implication
    and no equivalence.
  - A join may put something in the place of an operand that nests deeper than the operand
    it replaces, so the result must be shown to be one of the expressions `MaxDepth` allows. That only symbols
    are negated (`Settled(M)`) bounds the depth by the number of leaves, which no join
    increases; it holds because `expr_transform` ran before, and any operand can be replaced then
    (`PartReplaced`). `TransBoolKeepsNo` needs it too, and is false without: `!(FOO!=n)`, n when FOO is m, would become
    `!FOO`, which is m. That the value is kept does not depend on the number of passes
    `EliminateDups` makes; that it makes enough of them (each one that changes something
    leaves an operand less) is not among the theorems.
  - Misleading comparisons must not appear on the way either, since the next join may meet
    what an earlier pass made. `Settled(M)` says also that no leaf of the set M occurs; a pass keeps
    that for every M which no rewriting of a leaf enters (`Foreign`), the values are kept
    where M holds all misleading leaves (`Fit`), and they are such a set.
  - `PassInv` collects what one pass leaves for the next: before the first the
    bound of the depth by the number of operands, between the first two `Settled` and the number
    of leaves, after the second `Settled`, and always the value, or after the last
    whether it is n.

Only model-checked: everything temporal (`RequestAnswered`, `DetectionNoticed`,
`RunEnds`, `DetectionShown`, `FailureShown`, `CloseCompletes`), since
liveness under fairness is out of the prover's reach; that the text of an expression
reads back (`ReadsBack` of `KExprMC`); and the properties of symbols, files and front ends
of kconfig (`CacheUpToDate`, `AnswerHonoured`, `ReadsBack` and `MinimalRestores`,
`SyncTogether`, `ValuesJustified` and `QuestionsEnd` of `KConfMC`; `QuitKeeps`, `EveryQuestionReachable`, `ShownIsCurrent`,
`TreeUpToDate`), whose modules declare RECURSIVE operators, which the provers do not
reach. For these, values depend on one another in no order that the data gives, so that functions
counting down a depth, as for expressions, would be another program.

## 6. Disagreements met

`PROJECT.json` has the disagreements of the first list as eleven findings, with the lines
they quote; two of them fall under the first point and two under the last.

- The comment of `one_shot_probe` promises exactly one frame per press. That is
  true when presses do not overlap (proved) and false otherwise, in both
  directions (`AtMostOneFrame` and `AtLeastOneFrame` in `CaptureGateFindings.cfg`).
- The guaranteed revert fails at one tick in 2^32 (`StatusPanelWrap.cfg`).
- `dl-wrapper` claims to fall back to a download when the legacy file can neither
  be linked nor copied, and never to leave partial files; a copy that fails
  half-way is accepted when no hash tells (`DlWrapperPartial.cfg`).
- `conf_read` resets a number that is out of range after others were calculated from it
  and clears the valid flag of that number only (`KConfStale.cfg`). The same kind of stale
  value is left by `sym_set_string_value` when the new value equals the one left behind
  (kconfig/symbol.c:713-714), and by a tristate choice that becomes new as it is
  calculated. The properties exclude these states by `LeftBehind`.
- The rule in the comment at kconfig/expr.c:561 is wrong, the code is right
  (`JoinAndAsCommented`).
- A menu that is drawn again in a smaller window may print items behind its list
  (`NeverDies`), and a search in nconf without a match does not return when the
  first or last item is current (`SearchReturns`); section 4 says how to see these and the next three.
- `expr_join_and` makes `A="1" && A!="m"` into `A="1"`, which is y and no longer n where A
  is m (`MeaningAlwaysKept`), while the comment over `expr_eliminate_dups` promises that only
  redundant operands go. No `Config.in` of the tree compares a tristate with such a literal.
- `conf_write` takes each symbol off the list as it prints it (kconfig/confdata.c:807) and does
  not put it back when it fails or is cut short. The next one, a retry after the
  second rename failed or the one of mconf's signal handler, writes an almost empty file and reports
  it as saved (`SavedIsThere`).
- A load drops the change count before it is known whether the file exists and before
  anything is read (kconfig/confdata.c:413); if it fails, or SIGINT strikes within it, the
  session ends without the question (`KeptIsThere`).

Met while modelling, visible in an action, and without a run of their own:

- The package's README (288-289) lists four texts for the label; the code has
  seven (`RefuseUnavailable`, `RefuseNotWritable`, `BusError`).
- "Any datagram (of any content) counts as a detection" (main.cpp 292) excludes
  the empty one (`Receive`).
- The head of `dl-wrapper` says that all temporaries are removed if anything goes
  wrong; an unguarded mktemp or chmod that fails leaves them (`MakeTempFails`).
- After a write error the guard lets requests through until it notices the silence, and
  "Capturing..." stands over a pipeline that cannot answer, for at most `kFeedStaleTicks` +
  `kStatusRevertTicks` (`CapturingEnds`).
- A file that `BR_NO_CHECK_HASH_FOR` exempts ends in 0 also when its .hash file does not name
  it, which the header of check-hash could be read to give 3 (`CheckHash`).

In kconfig, likewise without a run of their own:

- gconf's Load that fails also leaves its own flag and appends the whole tree a second
  time (`mixed`).
- `conf_write` ignores errors of writing, and one that ends between its two renames leaves
  no `.config` (`Saved`, `Outcomes`).
- `conf_string` and `conf_choice` of conf.c loop for ever when the value they would take
  by default is not valid any more; an int without a default is written as an empty value
  that is invalid when it is read. The trees of `kconf` give their numbers defaults.
- A string symbol that has gone from the Config.in files is not touched: its quoted line in
  `auto.conf` is refused for a symbol of unknown type (kconfig/confdata.c:165-173, symbol.c:629),
  while numbers and bools that have gone are. The trees do not change between two syncs.
- `randomize_choice_values` of a later choice overwrites `has_changed` of the earlier ones
  (kconfig/confdata.c:1274).
- mconf's loops around an input box do not know `-ERRDISPLAYTOOSMALL`; nconf ends even if
  the save failed, and gconf closes its window.
- `update_tree` of gconf returns early when the last row of a level goes away (`cut`); a
  click on the value of a number gives it no value at all (`SetToNothing`); the views with
  all options recalculate nothing; several handlers leave Back enabled in the root menu.
- In nconf's view of all options a value is shown one redraw late; a menuconfig that is the
  chosen value of a choice hides its children in mconf.
- The text box goes back by its own height after a resize and is one line off in a text
  that does not end with a newline; `KeepsPlace` is stated for the others. The arrow below a
  choice box is wrong after a resize, and `ShowsItems` excludes it.

## 7. Not modelled

Of camera-gui: pixels, log text, widget layout, the pipeline's construction and plugin
checks; GStreamer's clocking, latency and queue levels; warnings, state-change and EOS
messages, which the pump only logs; the service and the naming of files across
restarts, which are in the plan.

Of kconfig: the parser and scanner (grammar and generated code; the trees stand for what
they build), qconf (its control is hidden in the signals and slots of a toolkit that is
not in the repository), `tristate.conf` and `autoconf.h` (the same lines in another
format), search by regular expression, environment symbols and string expansion, the
text of warnings and helps, nconf's own dialogs, colours and geometry. Hexadecimal
numbers behave as decimal ones do and have no tree of their own. Left out of `conf` are
the option `allnoconfig_y` (kconfig/confdata.c:1221), which no `Config.in` of Buildroot uses,
KCONFIG_OVERWRITECONFIG, which writes without the renames, and KCONFIG_NOSILENTUPDATE, whose
refusal to sync (conf.c:640-648) changes nothing; left out of mconf is a signal before
the first menu or between the assignments of a key's calculation. An empty list in nconf,
where the position is divided by zero, is left out of `NMenu`.

Of Buildroot: the download backends, the steps of a package and the support scripts
until the plan reaches them; recipes, boards and configuration are data.
