# A TLA+ verification of macos-vm-memory-ratchet

The repository measures what macOS does with the memory of virtual machines. Its
tools draw conclusions of the form "N pages checked, none lost" from runs in
which several actors work at once: a vCPU, host threads, a child process that
eats memory, a kernel that takes pages away, a guest at the end of a serial
line. This project models those actors and asks whether the conclusions follow:
can a probe report a loss that did not happen, miss one that did, hang, or leave
a process behind?

What the kernel charges to whom (`phys_footprint`) is what the tools measure and
not something their code decides. Where a property needs it, it is modelled as
external, from the comments of the code and the README's measurements, and left open
where those leave it open or disagree.

## Inventory

| Component | Source | State | Operations | Hard about it |
|---|---|---|---|---|
| Pressure generator | `ledger/src/pressure.rs` | child process, its pipe, the guard | `maybe_run_generator`, `apply`, drop of the guard | two processes that may die at any moment, a failed `mmap` |
| Canary | `ledger/src/canary.rs` | pages discarded | `arm`, `survey`, `conclusive` | whether a result means anything |
| Task ledger | `ledger/src/lib.rs` | none | `Ledger::read`, formatting | task-wide readings by several threads |
| Guest programs | `hv-reclaim/src/guest.rs` | registers, code page, guest RAM | `run_touch_range`, `run_read_pass`, `run_sweep_range`, `run_fill_range`, `run_verify_range`, `run_hammer` | hand-encoded branches, stale registers, canceled runs, resuming past a doorbell |
| Hammer probe | `hv-reclaim/src/main.rs` `hammer_check` | counters, guard, two instants, channel | sweep, poll, release, survey | guest stores race the kernel and the release |
| Parked probe | `hv-reclaim/src/main.rs` `parked_pressure_check` | page contents, canary | arm, apply, hold, survey | the kernel goes on while pages are read one by one |
| Reclaim cycle | `hv-reclaim/src/main.rs` `main`, `reclaim` | mappings, stage-2 entries, readings | touch, unmap, madvise, map, re-touch, reset, `--repeat` | order of teardowns; which reading a delta starts from |
| Timing | `hv-reclaim/src/timing.rs` | extents, readings, the RAM it replaces | timed reclaims in two modes, fresh or steady | extents one by one after resets; who unmaps the last RAM |
| Fleet simulation | `hv-reclaim/src/fleet_sim.rs` | service regions, sampling thread, stop flag | start, stop, MARK, SAMPLE, join | samples read before and printed after a MARK |
| Allocation shapes | `hv-reclaim/src/alloc_shape.rs` | 18 child processes, rows, verdicts | one cell per child, collect, verdicts | children that die; cells never charged |
| `calibrate-madvise`, `pressure-discard` | their `main.rs` | one mapping, readings, guard | touch, advise, apply, survey | pressure and survey |
| Soak | `hv-reclaim/src/soak.rs` | slots, sweeps, stamps, statistics | `worker`, `detector_self_test`, `reclaim`, `run` | workers reclaim under each other and read one ledger, holes in the address space, panics dropped by `join`, pressure bursts and a stop flag |
| VZ driver | `vz-ratchet/src/{main,fleet,harness}.rs` | child, line queue, sampler, rows | `spawn`, `send`, `wait`, `quit`, drop, the two scripts | timeouts, late and lost lines, a sampler on a VM that goes away |
| VZ harness | `harness/vz-ratchet.swift` | VM, stdin thread, main queue | start, forward, balloon, quit, end of file | must not outlive the driver |
| Guest init | `guest-init/src/main.rs` | held memory, children | the commands of its table | shares its line with the kernel's log |
| Helper discovery | `vz-ratchet/src/helper.rs` | the helpers seen before spawn | `running_helpers`, `find_new_helper`, `sample` | other VMs on the machine, a helper that is gone |

What makes each correct:

- generator: no child outlives its guard; a guard means a report; `apply` returns;
- guest passes: exactly the pages of the range, each once per sweep; an exact count;
- hammer: no false loss; every loss it claims to see is seen; it ends, with the
  pressure released first;
- reclaim tools: calls that fit together (no guest page over a hole, no refused
  map or unmap), deltas that mean what the code says of them, surveys that count
  what is gone, nothing left at the end;
- fleet simulation: a trace from which the number of services can be read off;
- allocation shapes: every row is its own cell's; a verdict credits only what happened;
- soak: no false alarm under any interleaving of workers and kernel; every loss
  inside its window counted; no generator left over; deltas that are its own
  worker's unless another, or the kernel, moved the ledger; a verdict that means what it says;
- VZ: a reply is never taken for the answer to another command; rows and marks are
  of what the guest has done; no VM is left behind; every run ends, and fails only for a reason outside the protocol.

## Modules

| Module | Models | Proofs |
|---|---|---|
| `Pressure` | `apply`, its child and the guard | `PressureProofs` |
| `Hammer` (extends `Pressure`) | `hammer_check` and `run_hammer` under pressure | `CallerProofs` |
| `PageWalk` | what a guest pass promises (abstract) | `PageWalkProofs` |
| `GuestCode` (instance of `PageWalk`) | the guest programs and exit loops, instruction by instruction | `GuestCodeProofs` |
| `HostMachine` (extends `Pressure`) | one task, its VM, the footprint, the calls the tools make, the sampling thread | `ToolsProofs` |
| `ReclaimTools` (extends `HostMachine`) | six tools as programs of that machine | `ToolsProofs` |
| `AllocShape` | `--alloc-shape`: parent, children, rows, verdicts | `AllocShapeProofs` |
| `Soak` | the soak's workers, self-test, verdict: what the guest finds in its pages | `SoakProofs` |
| `SoakPressure` (extends `Pressure`) | the soak's pressure thread and the end of `run` | `CallerProofs` |
| `SoakHost` (extends `SoakPressure`) | the soak's reclaims: address space and ledger | `CallerProofs` |
| `VzProtocol` | driver, helper discovery, harness and guest init | `VzProofs` |

A definition whose name ends up in no property but stands just before another of
a similar name (`StrAbsolute` before `Str`) is a variant with a plausible bug,
used to confirm that the property it is listed with in `PROJECT.json` notices.

### Pressure

`gen`, `held` and `pipe` are the child, `app` the caller inside or outside
`apply`, `parent` whether the caller's process lives. `DirtyChunk`, `HoldAll`,
`HoldPartial` are the loop of `maybe_run_generator`; the print of `HOLDING` fails
and stops the child when nobody is left to read it. `Spawn`, `ReadHolding`,
`ReadOther` are `apply`; `DropGuard` is `PressureGuard::drop`. `GeneratorDies` and
`ParentDies` are a kill from outside.

### Hammer

The vCPU is two steps per page (`Ldr`, `Str`), which is where the kernel can come
in between; the doorbell closure is one action per path through it (`BellReceive`,
`BellPanic`, `BellRelease`, `BellIdle`, `BellStop`): it runs with the vCPU parked,
and what it reads from the channel it reads once. Time is two flags per instant.
`DiscardPage` is the fault the probe looks for. Two history variables,
`discarded` and `exposed`, let the properties speak of what the survey must say.

### PageWalk and GuestCode

`PageWalk` states the promise: a call visits the pages of `[start, end)` in order,
once per sweep. `GuestCode` has the code page with the instructions of the five
programs, the registers each entry point sets (and those it leaves), an
instruction per step, and `hv_vcpu_run` returning canceled at any of them.
`ImplementsPageWalk` is the refinement: `cursor`, `phase` and `count` are read off
`x1`, the program counter and `x4`. The loop branch instructions are decoded from
the encoded words, in instructions, and addresses are counted in pages. `wfi` is
not given a step: reaching it would stop the program, and `CallReturns` shows that
no call does (`OnlyTheDoorbell` proves that no call gets there).

### HostMachine and ReclaimTools

A tool is a list of calls (`todo`) that the main thread works off, one action per
kind of call: `Mmap`, `MmapFixed`, `Munmap`, `Madvise`, `HvMap`, `HvUnmap`,
`HostStore`, `GuestStore`, `GuestLoad`, `ReadLedger`, `Peek` and so on. The
operators of `ReclaimTools` have the names of the functions they translate (`reset`,
`reclaim_extents`, `parked_pressure_check`, `fleet_stop`) and give the calls of that
function in order; `ValidOptions` are the command lines that `parse_args` and the
modes' own asserts let through, and the initial state chooses one. Beside the main
thread run the generator, the sampling thread, the kernel taking pages
(`KernelTakes`) and whatever makes a call fail (`CallFails`, then the tool panics).
A call that the tool's own earlier calls made impossible sets `status = "refused"`
instead, so that the two kinds of panic are told apart.

The footprint is the number of `charged` pages. What moves it is external: a first
touch charges, `MADV_FREE_REUSABLE` uncharges pages that are not dirty in the stage-2
tables, `munmap` uncharges all. A page touched again after the advice may stay off the
ledger (`sticky`) or be charged: the repository's `README.md:170-174` measured both, with no
generator running, and calls it pressure-dependent. Whether `hv_vm_unmap` by itself releases
anything, and what a guest load does, is left open as well. The kernel takes pages only once the generator has
dirtied something: the tools are meant for an idle machine. A kill of the tool when
there is no generator is the same as a failed call. The page of guest code, failures
of `munmap`, and the counters besides the footprint are left out.

### AllocShape

One child per cell, one action per stage of it; `CellDies` at any of them. The kernel
behaves in one of five ways per shape and toucher (refuses, never charges, keeps what
it has charged, releases on advice, releases on unmap), settled when the first child
asks, which is what the matrix assumes of it. Amounts are in units of 64 MiB, the
least charge that counts.

### Soak

Guest RAM is words, `PageUnits` to a page, because whether a slot is page-aligned
is one of the questions. A worker's position `at` names the pass or host step it
is in; passes go page by page and sweeps by load and store. `marked` are the words
the kernel was told it may take (`Take`), a store takes the mark back. `ZeroLive`
and `LeftOver` are the two faults the soak is there to find. The verdict is printed
when every worker has ended, panicked ones included, as `let _ = w.join()` does.
A misaligned slot kills its worker at `hv_vm_unmap` in the model; on hardware an
address that is not a multiple of 8 stops it at its first access already.

### SoakPressure

The burst thread (`Enter`, `ApplyStep`, `Release`, `Pause`) with `apply` unfolded
into the actions of `Pressure`, so that the stop flag may go up at any moment of
it; `run` joins the workers, raises the flag, joins the thread and prints. Until the
deadline it prints progress lines, and the ledger read of one may panic (`ProgressFails`):
`run` is on the main thread, so the process is gone, with its threads and without the
destructor of a guard in the burst thread. A child still dirtying then stops at its print
(`EarlyOrphanStops`); one that has reported stays behind.

### SoakHost

Each worker's cycle as the host sees it: sweep, first reading, unmap, release in
either mode, map, second reading, push. A half is one unit of footprint. In `munmap`
mode `ForeignMmap` may put another allocation into the hole that `MAP_FIXED`
then replaces. Touching an advised half again is charged or not, as in
`HostMachine`, and what was not may be charged back at any later moment (`ChargeBack`), as
`README.md:128-131` measured with the guest writing under pressure; taking a half that
is marked reusable (`KernelTakes`) does not move the ledger. `own` and `disturbed` are
history: what the worker's own calls released, and whether another worker or a charge-back
moved the ledger between its readings. The release is
charged to the advice; were the unmap to do it, both readings would still bracket it.
The number of cycles is bounded for all workers together.

### VzProtocol

The driver is a script of (command, awaited prefix) pairs, `TouchScript` or
`FleetScript`; the last step of the former is the polling loop. Commands carry a
number that the code does not have, so that `RepliesMatch` can say whose answer a
line is. Replies go out in the three pieces that `writeln!` to a `File` makes;
`READY`, a literal, in one. `run` is the kind of run. Helpers are listed before the
spawn and searched afterwards; `OtherVm` is somebody else starting one in between, and
the driver may then sample that one: nothing in the code tells two new helpers apart. A
fleet too large for the guest fails its assert there (`"unfit"`). A wait times out in the
model only with no line unread; the code's deadline may also pass between two lines it
drops, with the same outcome.
`Disturb` selects what may go wrong, and `upset` remembers that something outside the
protocol has. The pressure phase between the touch and the balloon is a failure point
here and a program of `ReclaimTools`, where it is unfolded.

## Runs

`CHECK_DEADLOCK FALSE` is in every configuration: every one of these programs ends,
and where a bound stops a loop the model stops with it. Termination is asked for
by the liveness properties.

| Run | Instance | Shows |
|---|---|---|
| `tools` | 2 pages, 2 chunks, 2 mappings at a time, up to 3 cycles, up to 2 services, one live page lost; every valid command line of six tools | `MappingsFit`, `NothingLeft`, `RowsValid`, `TraceTracksFleet`, `SurveysHonest`, `NoGeneratorWithoutGuard`, `GuardAfterReport`, `EarlyOrphanStops`, `ToolEnds` |
| `alloc_shape` | 18 cells, a charge of 3 units, five behaviours | `RowsMeasureTheirCell`, `CreditedReleasesHappened` |
| `hammer` | 3 pages, 2 chunks, 2 canary pages, 2 idle sweeps, 2 discards | `NoFalseLoss`, `DiscardVisible`, `PanicOnlyOnApplyError`, `ReleasedBeforeTail`, `Terminates` |
| `pagewalk` | 4 pages, 3 calls, 2 values, 2 sweeps | `WalkExact`, `VerifyCounts` |
| `guestcode` | 3 pages, 2 calls, 2 values, 2 sweeps | `ImplementsPageWalk`, `CallReturns` |
| `soak` | 2 vCPUs, 2 pages per half, 1 hot sweep per cycle, 2 cycles, both reclaim modes, one fault | `NoFalseAlarm`, `LossCounted` |
| `soak_host` | 2 workers, 2 cycles between them, 1 chunk, both modes | `NoPressureAfterVerdict`, `QuietDeltaExact`, `GuestOwnsItsSlot`, `EarlyOrphanStops`, `SoakReportsItsEnd` |
| `vz` | both runs, 4 services, 4 polls, 3 log lines, every disturbance | `RepliesMatch`, `NoVmLeft`, `StopFindsService`, `RowsMeasureGuest`, `NoLostReply`, `OrphanVmExits`, `DriverEnds` |

`tools`, `alloc_shape`, `hammer`, `soak` and `vz` also check their type invariant. For
`PageWalk` and `SoakHost` it is part of the invariant that is proved, and `guestcode` is
checked against `PageWalk`.

Why these bounds. Three pages give a first, a middle and a last one; two of
everything that repeats (sweeps, cycles, calls) give a repetition after a
first time, which is where stale registers, stamps and counters show. Two workers
are one that does something to another. Two discards let a page be lost twice or
two pages at different stages of a sweep. There is 1 hot sweep per cycle instead
of 4 (the two cycles repeat it) and the smallest slot has 2 pages per half instead
of 16. `Base` is larger than the number of sweeps, as `RAM_GPA` is. In `tools` two
pages are two extents, two services, or a survey that the kernel can interrupt; no
tool has more than two mappings at a time; the third cycle is the second time that
one cycle starts from what another left. A charge of 3 units makes half of it no
whole number, so that "at least half" has a side to be on. In `soak_host` two cycles
are two of one worker, so that its half is advised, touched again and charged back in the
second, or one of each, so that they overlap. In `vz` the fourth service is the
first that neither begins nor ends a sequence with its neighbours.

### Where the code and its documents differ

Four runs check one sentence of the repository each and TLC refutes it; the
findings in `PROJECT.json` quote the lines.

| Run | Sentence | What happens |
|---|---|---|
| `soak_uneven` | every vCPU's cold half is reclaimed | a worker whose cold half does not begin on a page (in this instance worker 1; with real RAM sizes every one but the first) dies and its panic is dropped |
| `soak_left_over` | a left-over page is a failure | the sweep before the reclaim makes it equal to the new stamp |
| `soak_total` | so much was released in total | overlapping reclaims count each other's memory, the ledger being the task's |
| `alloc_shape_verdict` | a cell never charged says nothing about releasing | verdict 2 says charged and released by nothing when no cell was ever charged |

Differences met while modelling that take no run to see:

- `timing.rs:26-29` says that under `reusable` the ledger goes sticky after the first
  steady-state cycle; `README.md:170-174` says that this depends on pressure, and that a
  machine with less room charges the re-touched pages. The model allows both, and
  `RowsValid` claims nothing of the later cycles.
- `pressure.rs:74-75` says HOLDING means that all GiB are dirtied; a failed `mmap`
  (line 41) reports HOLDING as well.
- `canary.rs:10-11` wants no verdict if the canary survives; `hammer_check` prints its
  counts regardless, next to the canary's line.
- `guest.rs:244` gives the range as `[start_off, end_off)`; the loops test after the
  access, so an empty range (`--fleet-sim --service-mib 0`) touches one page.
- `soak.rs:55-57` says the self-test runs before the threads; it runs in worker 0
  (line 211) with the others going. `NoFalseAlarm` shows that this does no harm.
- `README.md:49-52` says every pressure run has a positive control; the soak arms no
  canary and keeps the result of `apply` without looking at it (`soak.rs:105`).
- `vz-ratchet/src/main.rs:183-184` prints that the balloon "really did inflate" when
  the polling loop has only timed out, too.
- `hv-reclaim/src/main.rs:39-40` says that a page discarded at any moment of the hammer
  shows; not between the page's own load and store, where the store puts the right
  value back. `DiscardVisible` is about every other moment.
- `guest-init/src/main.rs:18-20` relies on the driver filtering log lines; one that comes
  inside a reply (the pieces of line 184) loses the reply. `NoLostReply` shows that this
  and the other disturbances are the only ways.
- `--pressure-check` with `--host-touch` is accepted and skipped without a word.
- `pressure-discard` prints its conclusion whatever the survey found.
- `alloc_shape.rs`: the control of verdict 3 counts as "not released" when it is `n/a`,
  and verdict 2 says "madvise returns success throughout" without looking.
- `soak.rs:315-328`: what another thread maps into the hole is replaced by `MAP_FIXED`.
  The guest is safe (`GuestOwnsItsSlot`), the other thread is not.
- `fleet_sim.rs:50`: the time of a SAMPLE is taken after the reading.
- A guest fleet counts forked children: one whose `mmap` fails exits silently and is
  still counted, and the reply comes before the child has dirtied its memory.
- A VM that somebody else starts in the same seconds may be the one that is sampled.
- `guest-init/src/main.rs:8` gives the reply to `fleet start K M` as K; it is the
  size of the fleet (line 170).

## Fairness

- Generator, apply thread, vCPU, workers, pressure thread, driver, harness: each is
  a process or thread of its own that the scheduler runs, hence weak fairness of
  its steps. Holds, tails, pauses and deadlines end because time passes.
- `GuestCode`: strong fairness of instruction execution. A run can be canceled at
  any moment, but nothing in the program cancels runs, so a re-entry executes
  something now and then. `keep_going` says no in the end, which the bound
  `MaxSweeps` stands for.
- `ReclaimTools`: weak fairness of the main thread, of the sampling thread's print
  (its loop looks at the stop flag after it) and of the generator while it dirties.
- `AllocShape`: weak fairness of the child's and of the parent's steps. `SoakHost`: of
  every worker, of the pressure thread, of `run`, and of the generator while it dirties, as
  in `SoakPressure`: nobody has to kill a generator that holds.
- `Hammer`: weak fairness of the whole generator step; the generator may die
  instead of going on.
- Nothing is assumed of the kernel (discards, taking pages, charging back, logging), of the
  balloon, or of failures, crashes and kills.
- `VzProtocol`: a wait's timeout fires when nothing can arrive any more; it may also
  fire on a late reply (`"slow"`).

## Proofs

Checked with TLAPS, for every value of the constants that the modules' named
assumptions allow (memory sizes, canary sizes, chunk counts and bounds are any
natural numbers, some positive).

- **`PressureProofs`** `PressureInv` ties the four pieces of state together: a
  caller that is not inside `apply` and holds no guard has no live child, a child
  that is `holding` has written its line, an `eof` means the child is dead. From it
  `GeneratorIsGuarded` and `GuardIsReported`. The two properties are not inductive
  without the link between `pipe` and `gen`.
- **`CallerProofs`, the hammer probe** `HammerInv` adds to the invariants of the generator what a page
  holds at each point of a sweep: a page never discarded is exactly at
  `Base + p + x4` plus one if the cursor has passed it, the loaded register agrees
  with its page while the vCPU is between load and store, and an exposed page is
  strictly behind. The last holds because a discard resets a page to 0, below
  `Base + p`, and each sweep adds one to both sides. `SurveyIsSound` and
  `SurveyIsComplete` then compare the cardinalities in the survey's report;
  `ClosurePanics` needs that a message `err` came from a failed `apply` and that
  the channel is closed only behind a guard; `PressureIsReleased` that the guard
  and `app = "ok"` go together.
- **`PageWalkProofs`** `WalkInv` is `WalkExact`, `VerifyCounts` and the types, which are
  inductive together: a visit extends `Visited` by one element, whose word is still
  the one the call found. `VerifyIsExact` uses the cardinality of a set with one
  element added.
- **`GuestCodeProofs`** First the code page: `ShortCode`, `HammerCode` and `VerifyCode` say
  which instruction stands at each place of each program once all five are written, and
  that no program overwrites another. `DoAdd` to `DoRing` say what one instruction does.
  `GuestInv` gives the registers and the flags at every place of every program: the cursor
  register holds the address of the page under way, `x2` the end, `x3` the doorbell, the
  flags after a compare the result the branch needs, `x4` the count so far. Then every
  instruction is one step of `PageWalk` or none (`ShortStep`, `HammerStep`, `VerifyStep`),
  whatever the registers held before the call and wherever runs are canceled. Hence
  `GuestImplementsWalk`, the refinement, and `OnlyTheDoorbell`: no other exit reaches the
  `panic!` of `run_to_doorbell`. `GuestPassesAreExact` carries the results of `PageWalkProofs`
  over to the instructions, through an instance of that module. All three assume ranges of at least one page (`MinPages > 0`):
  the programs test at the end of the loop, so a range of none would be walked for one page.
- **`SoakProofs`** First the arithmetic of the split (`Layout`, `Geometry`): both halves are
  whole pages, at least two each, no two words of two workers or two halves are one, and a
  cold range holds the cold words of its own worker only. Then `SoakInv`, worker by worker.
  `HotRight`: a hot word is never ahead of its worker's sweeps, it is behind them when its
  loss is due, and exactly there when nothing was lost; a register that holds it counts as
  the word. `ColdRight`: a cold word has its cycle's stamp from the fill on. `Mapped`: a
  mark of the kernel's stands only on a cold word of a worker between its `madvise` and its
  store, so what the kernel may take no verify looks at. `Counted`: what the verify under
  way has seen so far. A step of another worker touches none of it (`OthersAlone`), a
  kernel fault only the one word (`HotFault`, `ColdFault`). `SoakNoFalseAlarm` needs that
  every cold half begins on a page: the run `soak_uneven` shows that otherwise a worker
  panics with a kernel that behaves. `NothingCounted` needs no such thing.
  `SoakLossCounted` holds for any number of faults of either kind.
- **`CallerProofs`, the host side of the soak** First the pressure thread alone. The stop flag may go up anywhere, so
  the invariant relates the thread's position to the caller's state (`app` is `reading`
  only in `apply`, `ok` only in a burst), and the generator's invariant gives
  `VerdictIsQuiet` and `PausesAreQuiet`. Then `SoakHostInv` adds to the invariant of the pressure thread what
  holds of each worker between two of its calls. `OpenPlaces`: a hole, or somebody
  else's memory in it, exists only between a worker's `munmap` and its `MAP_FIXED`, while
  the half is unmapped from the guest; hence `GuestPagesAreOwned`. `OpenDeltas`: while a
  worker measures, the footprint has moved since its first reading by what its own calls
  released, unless another worker or a charge-back is on record as having moved it; hence
  `QuietDeltasAreExact`, with the footprint as the cardinality of the charged halves. A
  worker's step, a foreign `mmap` and the kernel leave the variables of `SoakPressure` alone
  and the other steps are steps of it (`SoakHostStepIsSoakPressureStep`), so its invariant
  carries over, and with it `SoakVerdictIsQuiet`.
- **`AllocShapeProofs`** `ChildMeasures` gives the footprint and the readings of a child at
  every stage as a function of how the kernel treats its column and of the order of its
  calls; `LinesRight` carries that into the child's line and the parent's rows, through
  the deaths of children; `VerdictRight` says a verdict is computed from all 18 rows. The
  arithmetic is one lemma, `HalfIsGone`: at least half of the charge is gone exactly when
  the kernel gave it back, for any charge, even or odd.
- **`VzProofs`** The driver has one command under way at a time. `OnePlace` says where it,
  or its reply, is: in the harness's stdin, in its main queue, on the guest's console, in
  the guest's hands, among the driver's unread lines, or nowhere; in the last case a wait
  can only be waiting because something outside the protocol happened. Each place also
  fixes what the guest has done: before the guest reads the command it has done the steps
  before it (`NotYet`), afterwards this step too (`Done`). The lines may hold anything
  else around the one reply. `Lives` (who may have ended the harness, and that only a
  leaving driver has `quit` in the pipes), `Booting` (the order of `started` and `READY`)
  and `Pieces` (how much of a reply is out) are what keeps `OnePlace` inductive. All six
  state properties of the run `vz` follow from `VzInv`, for any number of services, polls
  and log lines and any choice of disturbances.

- **`ToolsProofs`** A tool is a list of calls, and loops make that list as long as the
  command line says. The proof is a small program logic. `Known` is what can be known of
  the machine between two calls: of each page of the RAM whether it is charged, marked,
  a hole, or anything but a hole (as it is once an advised page was touched again), whether it is dirty or shown to the guest, whose marker is on it; the
  canary; the generator; the sampling thread; how far a survey is; which readings are
  zero or full; the last `MARK` and where the footprint is heading. `Effect` says of each
  kind of call what must be known before it and what is known after it, and `Runs` chains
  calls. `Matches` says that what is known is true of the machine, and the invariant
  `ToolsInv` that something true is known from which the calls still to come run through
  to a machine with nothing left (`Following`), next to the types, the rows, the reports
  and the samples so far. Two halves make it inductive.
  1. Whatever the machine does keeps it. Each call lands where `Effect` says (`MmapLands`,
     `PeekLands` and so on, one lemma per call); the generator, the sampling thread and
     the kernel leave what is known true (`BackgroundLands`, `SamplingLands`,
     `KernelLands`). Once pressure is on, nothing is known of a RAM page that the kernel
     could change. `PeekCounts` is the counting argument of the surveys: between two reads
     the kernel may take pages on either side of the one in hand, and the tally stays
     between what was gone at the start and what is gone now. `SamplesRight` relates a
     reading under way to the `MARK`s since it was taken.
  2. Every tool starts with it: its whole list runs through, for every valid command line
     (`PlainRuns`, `TimingRuns`, `FleetRuns`, `CalibrateMadviseRuns`, `DiscardRuns`,
     `VzRuns`), each put together from the operators it is written with (`CycleRuns`,
     `ResetRuns`, `ExtentsRun`, `StartRuns`, `ParkedRuns`). A loop runs through if each
     round does (`RunsRepeat`, `PageLoop`); these are inductions, made by looking at the
     least number of rounds that fails (`Least`). What holds between two rounds is stated
     for each loop: `BeforeCycle`, `BeforeTiming`, and for the fleet `Fl(us, ds)`, the
     services started and those stopped.

  All seven invariants of the run `tools` besides its types follow, for any memory size,
  number of cycles, extents and services, and any number of pages taken by the kernel.
  `NoGeneratorWithoutGuard` and `GuardAfterReport` come from the invariant of `Pressure`,
  here with each tool as the caller.

Proving them changed some definitions: a `CASE` with overlapping arms in `AllocShape` and
one in a property of `VzProtocol` (TLC takes the first arm, the meaning is any of them); and
`LeftOver` of `Soak`: with two faults at one cold word, a zeroed one that then comes back as
it was handed back may hold the very stamp that is expected, and the loss is no longer due.
The code page of `GuestCode` is now written program after program, as `write_code_page` does.
In `ReclaimTools` the bodies of three loops got names (`reclaim_extent`, `timing_cycles`,
`calibrate`), `Repeat` takes its rounds as a function, and the number of services is bounded by
a constant of its own (`MaxServices`).

Only model-checked: the liveness properties (`ToolEnds`, `EarlyOrphanStops`, `Terminates`,
`CallReturns`, `SoakReportsItsEnd`, `OrphanVmExits`, `DriverEnds`), because TLAPS has no
support for fairness and `ENABLED` here. Every invariant that a run checks is proved, and so
is the refinement of `PageWalk`.

## Not modelled

`PROJECT.json` lists every component. Left out for good: the scripts, the
foreign-function declarations of `hvf.rs`, how option values are parsed, formatting,
what progress lines say and the wording of conclusions. Inside modelled components: the clock of
the timing mode; the counters `resident`, `reusable`, `compressed` and `regions`, which are
printed and never decided on; `fleet stop` and unknown commands of guest init (never
sent) and the memory traffic of its children (no reply depends on it); 64-bit
wrap-around (counters would need 2^64 sweeps).

Hazards without a property are in `PROJECT.json` with the reason.

## Plan

The system is modelled, and what TLAPS can prove of the runs' properties is proved. Left
for whoever extends the tools: a new mode of `hv-reclaim` is a new program in `ReclaimTools`,
a branch of `parse_args`, and a lemma of the form of `PlainRuns`; the rest of `ToolsProofs`
stays.
