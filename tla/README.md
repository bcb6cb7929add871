# A TLA+ model of gomutants

gomutants runs mutation tests of a Go module: it finds places where a small
change to the source (a *mutant*) compiles, tests each mutant with the tests
that reach it, and reports which ones the tests did not notice. This directory
models the parts of it that are concurrent, that can be interrupted, that trust
something they saw earlier, or that must agree with a program they do not
control. TLC checks the models on small instances, and TLAPS proves for every
instance nearly all the safety properties that TLC checks, among them two
refinements.

Paths and line numbers are those of the repository.

## The system

One process runs the phases of `run` (main.go:263) in order. All of its
concurrency lies inside phases: pools of goroutines that test mutants, build
the coverage map, and look for equivalent mutants, a monitor per subprocess,
and a signal handler that cancels the context everything runs under. The only
thing that outlives the process is the cache file.

| Component | State | Operations | What makes it correct |
|---|---|---|---|
| Pipeline (pipeline.go, main.go, flags.go) | the mutants and their statuses, the re-check's target, the exit status | one phase after another; an interrupt | the exit status says what happened, for a whole run and for the re-check of one mutant |
| Mutant pool (internal/runner/pool.go) | two channels, the mutants slice, the workers | feed, receive, test, send, collect, close, cancel | each mutant is tested once, gets its own result, and every goroutine ends |
| Worker (internal/runner/worker.go) | a patched file, an overlay, numbered test binaries, a deadline | stage, build, run, re-check, give up | a survivor passed every suite that could have killed it, with its own binary, in its own time |
| Outcome classifier (worker.go) | none | reads how a process ended | a detection is a kill, what gomutants or the host did is not |
| Timeout policy (timeout.go) | none | a deadline from the tests' timings | never above the ceiling |
| Incremental cache (internal/cache) | the cache file, the run's entries, the hasher's memos | load, hash, look up, update, save | a verdict is replayed only where all that decided it is unchanged |
| Coverage test map (internal/coverage/testmap.go) | tests by line, their durations, the suites and what they link | build in parallel, check groups, answer | routes to tests that pass alone; never hides a suite |
| Equivalence detector (internal/tce) | reference hashes per package, files per worker | compile a survivor, compare, flip its status | a survivor becomes equivalent only if its code is the original's |
| RSS monitor (worker.go, worker_unix.go and its platform files) | a shared snapshot of the process table | poll, scan, kill | a group over the cap dies in time, no other does |
| RSS probe (worker_unix.go) | a failure counter and a flag, both atomic | count, reset, report | an outage is reported once and ends when the probe works |
| Progress line (internal/report/terminal.go) | a mutex, a Once, two channels | repaint, stop, paint a frame | nothing is painted over a frame, every call returns |
| Configuration (internal/config, flags.go, main.go) | the merged settings | defaults, file, flags, checks, timeout policy | what was asked for is what runs |
| Test flags (main.go, testmap.go) | none | refuse managed flags, pick out build flags | agrees with the go command and the test binary |
| Stable ids (internal/discover/stableid.go) | none | number mutants, scope and resolve an id | an id names one mutant, the same after an edit elsewhere |
| Filters (internal/discover, internal/coverage/parse.go) | the directives, call spans and profile of a file | diff, directives, calls, coverage | drop what they were told to, once, and say so |
| Integration scope (internal/discover/revdeps.go) | the import graph, a queue | search backwards from the targets | every test that can kill a mutant is run |
| Mutators, patching, report layout | none that outlives a call | pure transformations | |

How they interact: the pipeline loads the cache and hashes the inputs of the
coverage profile; runs coverage, or replays a profile; discovers mutants and
freezes their sources, after which the hasher hashes those bytes; builds the
test map; looks the mutants up in the cache; gives the pending ones to the
pool, whose workers call the classifier and the test map, and whose collector
calls back into the pipeline to checkpoint the cache; gives the survivors to
the equivalence detector, which checkpoints too; writes reports; and turns the
counts into an exit status. Beside the workers run one RSS monitor per command,
all of them on one snapshot and one probe, and the heartbeat of the progress
line, which the collector stops. The context is the one channel from the signal
handler to all of them.

What is hard to test here, and what the properties are about, is listed in
`PROJECT.json` under `hazards`, each at its line. The recurring kinds are
races on channels, locks and atomics, a cancel between any two steps, processes
whose end says little about its cause, files edited while a run that has
already hashed them goes on, and inputs that another program reads by rules of
its own.

## The modules

| Module | Models | Used by |
|---|---|---|
| `Statuses` | a mutant's statuses, and which of them the cache keeps | all that speak of statuses |
| `TestRun` | what a run of the pool promises, with no goroutines: the abstract specification | `Pool` (refinement), `Pipeline` |
| `Pool` | `Pool.Run`, one action per step of each goroutine | `MCPool`, `PoolProofs` |
| `PoolProofs` | the theorems about `Pool` | |
| `Outcomes` | the classifier's functions, over what they look for in the output | `Classify`, `Worker` |
| `Classify` | how a process can really end, and what it leaves to be seen | `MCSequential` |
| `Worker` | `Worker.Test` for the mutants one worker is given in turn | `MCWorker`, `WorkerProofs` |
| `TestMap` | `BuildTestMap` and what the finished map answers | `MCTestMap`, `TestMapProofs` |
| `Incremental` | cache.go as pipeline.go drives it, across runs | `MCIncremental`, `IncrementalProofs` |
| `Pipeline` | one invocation from flags to exit status | `MCPipeline`, `PipelineProofs` |
| `SurvivorPass` | what the equivalence pass promises: survivors become equivalent if that can be proved, and it ends | `Tce` (refinement) |
| `Tce` | `Detector.Run`, its workers, their builds and the references they share | `MCTce`, `TceProofs` |
| `RssCap` | `runMonitored`, its monitors and the snapshot they share, in discrete time | `MCBackground` |
| `RssProbe` | the counter and the flag of the probe's health | `MCBackground` |
| `Heartbeat` | the progress line, its heartbeat goroutine and those who stop it | `MCBackground` |
| `Settings` | defaults, file, flags, the checks and the timeout policy made of them | `MCSequential` |
| `TestFlags` | `checkTestFlags` and `BuildFlags` against the parsers downstream | `MCSequential` |
| `Target` | stable ids, and `--run-mutant-id` resolved before and after coverage | `MCSequential` |
| `Filters` | the diff, the directives, the excluded calls and the coverage status, in their order | `MCSequential` |
| `Closure` | the search for the packages whose tests an `--integration` run needs | `MCSequential` |
| `WorkerProofs`, `TestMapProofs`, `PipelineProofs`, `TceProofs`, `IncrementalProofs` | the theorems about the module each is named for | |
| `BackgroundProofs` | the theorems about the three parts of `MCBackground` | |
| `SequentialProofs` | the theorems about the parts of `MCSequential` | |

`Pool` takes `Worker.Test` as one step between start and finish; `Worker`
opens it up. `Pipeline` takes the whole pool as `TestRun`, by `INSTANCE`, which
`Pool` is shown to implement, so the two meet at a specification and not at an
assumption. `Tce` implements `SurvivorPass` likewise. `Incremental` keeps of the
pipeline's phases only what they read and write of the cache. `TestMap` builds
what `Worker` takes as constants: `Worker`'s assumption on its jobs, that
covering tests belong to suites that link the mutant's package, is what
`KillersAmongSuites` gives for the tests a map routes to. `Classify` takes what
a monitor decided as a circumstance, and `RssCap` shows when it may.
`Pipeline` takes the two discoveries of a re-check as two choices, and `Target`
shows when they agree.

`MCBackground` and `MCSequential` put several modules into one instance for TLC.
Their parts share no state, so a behaviour chooses one part, which runs alone
while the variables of the others stay as they are; each part has its own
actions, properties and fairness, and is checked as it would be by itself.
A property of such a run has the name and the meaning it has in its module.

A module's `TypeOK` and the smaller invariants that go with it are checked as
one, `WorkerInv`, `TceInv` and so on, defined at the end of the module as the
conjunction of named parts, each with its comment.

**Faulty variants.** An operator `FaultyX` stands before some `X`: it is `X`
with the mistake its comment names. No specification uses it. Each property of
a passing run has one or more, listed in `PROJECT.json` under `mutants`, that
make TLC find the property violated when they take the place of `X`.

### Pool

The variables follow the code's: `order` is `pending` after the sort, `sent`
and `received` count what has passed through the work channel (only the feeder
sends on it, in that order), `results` and `resultsClosed` are the other
channel, `at[w]` is where a worker's loop stands, `holds[w]` its index. The
actions are grouped by goroutine: `Feed`, `WorkerStep`, `Close`, and `Main` for
`Pool.Run` itself. The write-back and `onResult` are one step, since only the
collector touches the slice meanwhile and `onResult` runs in it. `given`,
`starts`, `outcome` and `reported` are history: they change nothing.

### Worker

One worker, a list of mutants (`Jobs`), and for each the sequence of
`Worker.Test`: staging, then for each package of `runGroups` a build, the
binary's arguments and a run, then the re-check, then `Settle` (`removeBins`
and the return). `files` says which mutant a numbered binary file was built
from, so a binary that is stale would be seen. `left` is the deadline in ticks;
a run may take any part of it. Another worker appears in one place,
`OtherReadsArgs`, since `binArgsCache` is shared.

### TestMap

`stage` is where `BuildTestMap` stands; the compiles are one step, as nothing
else runs meanwhile and the context is looked at after the last, and each
listing is one, as it touches what is shared once, under its lock. The solo runs
have the goroutines of the code: a feeder (`Feed`, `FeedEnd`), workers
(`Receive` to `Send`), the closer and the collector (`Ingest`, `Collected`),
with `work` and `results` for the channels. A worker's test run ends in three
ways: it passes, it times out, or anything else. Which lines a test covers is
given by `Covers`, and by `-coverpkg` (`crossPkg`, both values of which are
initial); that it passes is not: a test may pass alone and fail with others, or
the other way round. `passed`, `timedOut` and `cut` are history. `cut` marks a
compile, listing or test that failed after the cancel, which may be why. Two
processes of the build do not count: when the binaries' arguments or the links
cannot be read, with `-coverpkg`, the code returns the map without them and
without looking at the context, and the run meets the interrupt in a later
phase (`ReadLinks` in `Pipeline`).

### Outcomes and Classify

The classifier cannot see why a process ended. `Classify` starts from the
cause (its tests failed, the deadline struck, the kernel killed it, ...) and
the circumstances (a test had already failed, the output was cut off, the code
under test printed the words of a host failure, the monitor or the deadline
raced the process's own end), derives what is left to observe, and compares the
verdict with the cause. Races are excepted from `DetectionIsAKill`: the code
gives such a run TIMED OUT whatever its tests said.

### Incremental

A file's content is a number, and a hash the number it was taken of. Four files
stand for all: `src`, the mutated one, whose bytes the run freezes; `sib`, what
else its package is compiled from; `test`, its tests; `dep`, the production
sources of an importing package whose suite runs for the mutant. Every verdict
and profile records, as history, what it was really measured on, which is what
the properties compare. `Edit` may come between any two steps, as may `Crash`.
`world` is where it all happens, chosen once: how many mutants, whether the
suites of importing packages run too, whether edits come while a run goes on or
may bring back an earlier content, whether reads fail, and the bounds. A read
that fails leaves no memo (`Memos`): the coverage key is then not made, the
package or the tests of an entry match nothing, a verdict is stored without its
tests' hash or not at all, and an entry that cannot be compared is kept. The
bytes of `src` come from memory, and always can be had. Each attempt is a mutant's
own, so that a world where reads fail has one. The passing run looks at the
worlds where the code keeps its promises, the violated ones at one each where it
does not.

### Pipeline

One action per phase, in the order of `run`. A phase that runs commands under
the context fails once the context is done; the phases that do not, do not.
The build of the map is two of them: `BuildMap`, up to its last look at the
context, and `ReadLinks`, what a build for `-coverpkg` runs without looking at it
again.
`Mutants` is what discovery may find, so an edit between the two discoveries of
a re-check is the choice of a different set.

### Tce

The work channel holds every index from the start. A worker goes through
`source`, `overlay`, `reference` (and `first`, if it is the one to compile it),
`build`, `lock` and `report`; the status is flipped and `onResult` called under
the lock, so the checkpoint sees a slice nobody writes. `Asm` stands for the
compiler, as any function of the sources; a text is a number, 0 the frozen one.
`Edit` changes a file on disk at any time: mutants are made of the frozen bytes,
references of what is on disk. `Settled` are the mutants of packages whose code
no edited file enters, and `KillableStaysLived` and `FindsEveryEquivalent` speak
of those.

### RssCap, RssProbe and Heartbeat

`RssCap` counts time in ticks, `Half` of them to half a poll interval, the age a
snapshot may have. A monitor sleeps, asks for a reading at a due poll, scans if
the snapshot is too old, and kills a group that reads high; the group allocates,
frees and ends by itself at any time, and the worker waits for both. `overFor`
counts how long a group has been over the cap under a probe that works.
`RssProbe` has the counter and the flag without that detail: a poll reads or
fails, and then does one atomic operation per step, as do those of the other
monitors; `Run` is the reset at the start of `Pool.Run`. `Heartbeat` has the
mutex, the Once and the two channels, with `line` and `suffix` for what is left
on the terminal.

### Settings and TestFlags

`Settings` has one step per stage of the code (`ParseFlags`, `Load`,
`ApplyFlags`, `Check`, `Run`) and one number per setting; the kinds of setting
differ in which value reads as not given (`KeptFromFile`, `KeptFromFlags`).
`TestFlags` scans a list of fields as `checkTestFlags` does, one at a time. The
go command and the flag package of the test binary are external: `GoCommand` and
`Binary` say what they read of the same fields, for any choice (`Arity`) of which
flags take a value and which ones the go command does not know. Each of them, and
`BuildFlags`, is one pass over the fields, with a mode at each that follows from
the one before (`Modes`).

### Target, Filters and Closure

`Target` renders ids from declarations and mutation points, resolves one in the
files it could name, lets one file be edited, and resolves it again. `Filters`
applies the four filters of a run in turn to the mutants of one file of a few
lines; calls, blocks and directives are given by place. `Closure` is the
breadth-first search with its queue, `Look` one importer at a time in the order
of a map, and the fallback when no graph can be had.

## The runs

| Run | Bounds | Shows |
|---|---|---|
| `pool` | 2 workers, 3 mutants, PENDING or NOT COVERED, two results | no double test, no lost, swapped or missing result, no goroutine left, and `Pool` implements `TestRun` |
| `worker` | 3 packages (one without tests, one importing the others), 4 mutants, a deadline of 3 ticks | the re-check, binaries, cancel and deadlines are right across mutants |
| `incremental` | 2 mutants, 1 edit, or 1 mutant, 2 edits, at any time, 2 runs, a package tested by its own suite; 1 mutant, 2 edits with reverts between runs, 3 runs, 2 generations, an importing suite; 1 mutant, 1 edit between runs, 3 runs, reads that fail | nothing stale is replayed, nothing is lost, nothing is tested again for nothing |
| `pipeline` | 3 mutants, 4 verdicts, 3 thresholds, all flags | the exit status tells the truth |
| `test_map` | 3 packages (one without tests, one importing another), 4 tests, 3 lines, 2 workers | routes rest on tests that passed without a mutant, no suite or result is lost, nothing a cancel cut short is believed, no goroutine is left |
| `tce` | 2 workers, 3 mutants, 2 packages, one inlining a file of the other, 3 texts | no false equivalent, each equivalent found, one reference per package, no write under a checkpoint, and `Tce` implements `SurvivorPass` |
| `background` | 2 workers with 2 ticks to an interval; 3 monitors, outage after 3 failures, 2 runs of the pool; 3 callers, 2 results | the cap fires in time and on its own group only; each outage is reported once and ends; the heartbeat paints over nothing and everyone returns |
| `sequential` | every end and circumstance of a process; every list of 4 fields; every focus of settings with 4 numbers; files of 2 declarations; files of 3 and 4 lines; import graphs of 4 packages | verdicts fit causes, flags and settings mean what they say, ids resolve, filters drop what they should, no killer is left out |
| `importer_edit` | 1 mutant, 1 edit, 2 runs | violated: see below |
| `test_revert` | 1 mutant, 2 edits, 2 runs | violated: see below |
| `carry_over` | 2 mutants, 1 edit, 2 runs | violated: see below |
| `interrupted_run` | as `pipeline` | violated: see below |

Why these bounds. Two workers are the least that race; three mutants let one be
in each of the pool's places, with IDs that are not positions and one that is
no index at all. Four jobs give the worker each kind of route, and enough
mutants in turn for a leftover of one to reach the next. A stale replay takes
two runs and a revert needs two edits; a third run lets an entry be carried over
by a run that does not own it. A second mutant is there for what one run tests
and the next leaves out; what two edits do, they do to a mutant alone. Three mutants let a run have a target, another
for its id to name, and one more to count; 60 is a threshold that a third misses
and two thirds meet. Three tests in one package, two lines of it with different
groups of them and one more from its importer are the least for which a group
can fail while one that contains it passes, a package can stall with tests still
to give out to two workers, and a line can lose one package's tests and keep
another's. A reference shared by two of three survivors lets one worker wait for
the other's build while both write their files. Two monitors are the least that
share a snapshot; with one tick to half an interval a scan is fresh, old enough
to be taken again, or in between. Three monitors let two count failures while a
third reads a success between the threshold and the flag. Two callers race for
the Once, and a third can paint meanwhile. The fields that matter to one another
in a list are a flag, what may be its value, a boundary and what is behind it:
four. Two declarations of one name are the least that share an anchor, and two
mutation points there the least whose ids, `1` and `10`, begin alike. A
directive, a line between and its target are three lines; a function is three of
the four. Three packages in the module make chains, diamonds and, with their
tests, cycles; the fourth, outside, can lead out of it and back. `AllMutants`
and `Mutants` are symmetry sets in the runs with invariants and action
properties only.

Deadlock is checked in all of them but `incremental` and `pipeline` (and the
violated runs): these really stop, at the bounds on runs and at the exit. The
others stutter explicitly once they are done.

### What disagrees with the documentation

Each violated run states what a comment or the README says.

- `importer_edit`: README.md:843 lists the production sources of importing
  packages in a verdict's key. `SetSrcCache` (cache.go:294) drops their memos
  and retakes only those of the mutants' own packages, so that an importer's
  sources are first hashed at `Lookup`, or, under `--run-mutant-id` or for a
  mutant without an entry, at `Update`, after the test. An edit in between is
  stored as the key of a verdict measured without it.
- `test_revert`: cache.go:288 says an edit to a test mid-run can only turn into
  a miss. If it is reverted before the next run, that run's hash equals the one
  from before the edit, and it replays the verdict measured with it.
- `carry_over`: cache.go:894 says entries of other files are preserved.
  `Update` joins the project directory with `RelFile`, from which discovery has
  stripped the prefix all packages share (discover.go:304); where that is more
  than the module path the file is not found and its entries are dropped.
- `interrupted_run`: pipeline.go:578 says an interrupt stops the run there as in
  every other phase. It does up to the last look at the context in the build of
  the map (`EarlyInterruptFails`). From then on it does not: with `-coverpkg` the
  build still reads the binaries' arguments (testmap.go:246) and what each suite
  links (:324), a failure of which is a warning, so that the map comes back
  without an error and `buildTestMap` does not look at the context; the cache is
  applied; and in the mutant phase `pool.Run` returns. Each time reports are
  written, the gates are judged, and the run can exit 0 with mutants untested.
  The property is violated by an interrupt in each of these three phases alone.

Other places where the code does not do what a comment or the README says are
stated as conditions of the properties that are checked, or of their worlds, so
that these hold:

- cache.go:787 says a transient I/O error never produces a wrong skip. When the
  hash of the coverage key, of the freeze, or of `Lookup` fails, nothing is
  memoized, and the first hash that succeeds is `Update`'s: of a test or a
  sibling edited since the mutant was tested, which the next run replays the
  verdict for. Worlds where reads fail have edits between runs only.
- worker.go:781 has a mutant overshoot the memory cap by what it allocates within
  one interval. A poll may read a snapshot half an interval old (:780), so it can
  be one and a half, which is what `KilledInTime` bounds it by.
- tce.go:15 promises that nothing that could be killed is declared equivalent;
  a file of the package edited before its reference is compiled from disk can
  make unlike sources compile alike (`Settled` in `Tce`).
- main.go:525 says the scan of test flags errs strict only. In
  `-x -race=true -- -test.run=X`, with an `-x` that only the test binary knows
  and that takes a value, the go command takes the build flag away, `--` becomes
  the value, and the managed flag takes effect (`NoGap` in `TestFlags`).
  testmap.go:725 says `BuildFlags` reads as `go test` reads; the value of a flag
  it does not know is read as a flag where the go command would not
  (`InlineFlagsBuildAlike`). .gomutants.yml.example:32 lists `-args` as rejected;
  it is accepted.
- README.md:44 and :567 have the command line override the file; `--quiet=false`
  and the other plain toggles do not (config.go:453), and `--quiet` with
  `verbose` in the file passes the check of README.md:683 (`SetFlagsOverride`).
  .gomutants.yml.example:30 says test flags stand adaptive timeouts down; nothing
  does.
- README.md:448 says `disable-next-line` skips comments; it skips those that
  begin with `//`, and a block comment takes the directive
  (`DirectivesHitTheirTargets`).
- filter.go:20 says positions in a block that did not run remain uncovered; the
  end of a block counts as inside it, so that the first place of a branch that
  did not run counts as run where the block before it did
  (`NotCoveredNeverRan` states the other direction, which no mutant is lost by).
- excludecalls.go:117 says every mutant's file was parsed; behind a `//line`
  comment a mutant bears the name of a file that was not (`NoLineComment`).
- revdeps.go:18 says only the tests found can kill a mutant; a test that reaches
  a target through a package outside the module that imports it is left out
  (`OutsideImportsNone`).

## Fairness

`Pool` assumes weak fairness of each goroutine and of `Run` itself: the Go
scheduler runs what can run, and every test ends because its deadline, or the
build's ten minutes, kills its process group (worker.go:636, :706,
proctree.Bound). Nothing is assumed of the interrupt. One `WF` per goroutine is
enough since a goroutine here waits only on channels, and a full or empty
channel that becomes ready stays ready for a single sender; two workers
competing for one index need no strong fairness, as the one that loses is then
enabled to see the closed channel. `Worker` states `WF` of `Test` for the same
reason, and no liveness is checked of it. `TestMap` assumes `WF` of the build as
a whole, that some goroutine that can step does: no step of it can be taken for
ever, so more is not needed, and every process it waits for ends at
`TestTimeout` (testmap.go:801), or with the cancel. `Classify`, `Incremental` and
`Pipeline` assume none: a user may stop editing, and a run may die, at any
time, and they have safety properties only; so have `RssCap` and the other
parts of `sequential`.

`Tce` assumes `WF` of each worker and of `Run`'s return: a builder's process
ends with its build or the context, and a worker that waits for a reference
waits on a channel that the first one closes, whatever happened. `RssProbe`
assumes that a monitor goes on polling (`WF` of its poll; a monitor lives as
long as its command, and commands follow one another) and that the pool is run;
whether forks work is up to the host, and the two properties speak of hosts
where that settles. `Heartbeat` assumes `WF` of its loop and of the
`StopHeartbeat` that `runMutants` defers, and `SF` of taking the mutex, which
other goroutines take and release for ever, and of the select's stop branch,
which competes with a ticker: Go's mutex hands over to a goroutine that has
waited for a millisecond, and a select chooses among ready cases at random.

## What is proved

### The pool

`PoolProofs` proves, for every set of workers, every number of mutants and
every assignment of unique IDs and sort keys (the module's `ASSUME`s, all of
which discovery and the code establish):

- `PoolTypeOK`, `PoolTestedAtMostOnce`, `PoolStatusIsOwnOutcome`,
  `PoolCompleteUnlessCancelled`: each `Spec => []...` of a property of the run
  `pool`;
- `PoolImplementsTestRun`: the initial states are initial states of `TestRun`
  and each step is a step of it or leaves its variables alone.

None of the safety properties is inductive. What has to be added is where every
index is: the invariant `IInv` says that `order` lists the pending mutants once
each and the counters stay within it (`Bounds`, `Phases`, `Queue`); that a
worker holds an index that was received, and no two workers the same one
(`Holding`); that an index not yet received has not been started nor reported
(`Untouched`); that a result in the channel is the outcome of its own mutant,
posted once, and not by a worker that still has it (`Posted`); and that an
index received without a cancel is held, posted or reported (`Accounted`). With
it, a mutant is started only by the worker that received it, which gives
`TestedAtMostOnce`; a result is collected only where it was given, which gives
`StatusIsOwnOutcome`; and when the results channel is closed and empty, nobody
holds or has posted anything, so without a cancel everything received, and
hence everything, is reported, which gives `CompleteUnlessCancelled`. The step
of the proof is split by action, one lemma each, and within it by conjunct. The
refinement needs besides that an outcome is a verdict a test may give, which
`OutcomesAreVerdicts` adds.

In the other modules the invariant is called `IInv` too, `CapIInv`, `IdsIInv` and
so on where several parts meet, and is laid out the same way: named parts, each
with its comment, an initial lemma, one lemma per action or group of actions, and
under it one step per part that the action can disturb.

### Worker

`WorkerInvHolds`, `LivedPassedEverySuiteHolds` and
`TimedOutUsedItsDeadlineHolds`, for any number of packages, with and without
tests, any links among them, any sequence of mutants, any deadlines and any ways
for a process to end. What a survivor passed is spread over the order of the
packages, the packages without tests, the route by coverage and the re-check.
`Progress` collects it: every run that was asked for is still in the list, or has
passed, or is of a package without tests; with an empty list, and a re-check
behind it, that is `LivedPassedEverySuite`. `Binaries` says that the numbered
files in use are the first ones and hold the current mutant's binaries, so a file
that an earlier mutant left is overwritten before it is named; `Clock` that what
the tests have taken and what is left of the deadline make the deadline, across
the packages and again for the re-check; `Cuts` that only a cancel cuts a process
short. The assumption on `Jobs` is what `KillersAmongSuitesHolds` proves of the
map.

### TestMap

`MapInvHolds`, `RoutedGroupsPassedHolds`, `NoRouteLostHolds` and
`KillersAmongSuitesHolds`, for any packages, links, tests and coverage, where a
test covers lines of linked packages only, and any number of workers. The
invariant follows a test through the pool: one that has passed alone is with a
worker that is sending, in the results, or in the index under every line it
covers, and nothing else ever gets into the index (`Passing`). Of the checks of
groups it says that every group of the index is waiting, running, failed or
passed (`Groups`), and at the end the first two are empty (`Finished`). `Stalls`
counts, for a package that has stalled, its timeouts and the workers still at it,
which together never exceed the workers: that a worker which did not yet know
starts no new test of it is what makes the bound hold. `Cuts` says that what a
cancel may have failed is behind a stage that looks at the context.

### Pipeline

`ExitInvHolds`, `ExitAnswersForTargetHolds` and `EarlyInterruptFailsHolds`, for
any finite set of mutants, verdicts and thresholds. The last of them is about
interrupts in the phases of `Guarded` only, up to the map's last look at the
context, or up to a dry run's discovery; for the later ones, before the tests or
among them, `interrupted_run` shows that it is false. `Interrupted` bounds how
far a run gets after an interrupt by the phase it came in; `Subject` says that the
mutants of a run for one id are the one it named, from its first resolution on,
and `Tally` that without an interrupt no mutant is pending when the pool is done.
The arithmetic of the gates is needed only as far as a target that is the only
mutant makes the efficacy 0 or 100.

### The equivalence pass

`TceInvHolds`, `NoWriteDuringReportHolds` and `TceImplementsSurvivorPass`, for
any number of workers, packages and files, any mutants, any compiler (`Asm` is
any function of the sources) and any files that may be edited. The invariant
knows where each survivor is (`Queue`, `Holding`, `Accounted`), what a worker's
two files say (`Written`), that a reference is compiled once, by one worker, and
of a text its files had (`Compiling`); and `Truth`: in a package into which no
edit reaches, what a build found equal is equivalent, and conversely unless the
build failed. `Truth` makes each flip a step of `SurvivorPass`; every other step
leaves its variables alone.

### The cache

The theorems hold for any verdicts, worlds and bounds the module admits, and the
worlds they need are part of their statements, as of the run's properties; the
violated runs show what happens outside them:

- `CacheInvHolds`, in every world: entries are of one generation and keyed on
  the bytes their mutant was made of;
- `NoStaleReplayHolds`, where edits come between the runs (`BetweenRuns`), or
  else nothing is reverted, no other package's suite runs and all files are read
  (`OwnSuite`);
- `NoStaleProfileHolds` and `NoRetestHolds`, where edits come between the runs or
  nothing is reverted (`Forward`);
- `KeepsWhatMatchesHolds`, in those worlds where an entry's file is found
  (`Keepable`).

Two arguments run side by side, one for each way a hash can be trusted. Where
nothing is edited while a run goes on, all that is remembered is the disk's
(`Settled`). Where edits come at any time and contents only get newer, the order
of events counts: hashes are taken before any mutant is tested (`HashedFirst`),
so a verdict's hash is of the content it was measured on or of an older one, and
what a run finds in the cache was measured before it hashed anything (`InOrder`).
If the two hashes are then equal, so is everything between them. That this
needs the hashes first, and for every file that decides the verdict, is why
`importer_edit` is violated, and that contents must not return, why
`test_revert` is. What is kept and not tested again is an invariant over pairs of
states: an entry of the file is the run's, is replaced by a verdict of the run, or
its package has changed for the rest of the run (`KeptOrGone`); and a mutant that
is still to be tested was looked up, and no entry could be replayed (`LookedUp`).
`RInv` adds these and three others to `IInv`.

### The background

`CapInvHolds`, `ProbeInvHolds` and `HeartbeatInvHolds`, each for the
specification of its module and for that of `MCBackground`, for any sets of
workers, monitors and callers, any interval and any threshold. For the cap,
`InTime` adds what a group has been over to what its monitor still sleeps, and
`Counted` bounds the former by the snapshot's age where the snapshot does not
show it: a poll finds either a snapshot that shows the group or one that is too
old. For the probe, the lines printed, those yet to be printed and the flag
balance (`Balance`), whoever flipped it. For the heartbeat, `Locked` says who
holds the mutex, `OneStops` that one caller at a time stops it and nobody gets
past the Once before, and `FirstFrame` that no frame is painted until then.

### The parts of `sequential`

`SequentialProofs` has an invariant for each part, and from them the one of
`MCSequential`'s specification (`Parts`), so that each theorem speaks both of the
part's own specification and of the run's.

- `VerdictFitsCauseHolds`: by the causes and circumstances, for any observation.
- `ScanInvHolds`: for lists of any length, and whatever the two parsers know. What
  a pass over the fields makes of them is a function that goes back to the field
  before, so its values are had from the least field that has none (`Reaches`,
  `FollowersExist`, `ModesFollow`), and what holds of the modes at each field in
  the same way. For an accepted list: up to the first boundary neither parser
  stands elsewhere than the scan does (`GoStopsAtBound`), and without the gap of
  `NoGap` what the test binary takes as a value lies right behind its flag, so
  that the `--` the scan stops at stops it too (`BinaryStopsAtBound`). For a
  refused field `Taking` is the choice of flags that makes it take effect: those
  in front of a value or a swallowed boundary take it (`GoTakes`, `BinaryTakes`).
  `ScanIInv` says of the scan what it has let through (`Passed`).
- `SettingsInvHolds`: for any numbers, baselines and choice of settings.
- `TargetInvHolds`, `MeasuresTheOneAskedHolds` and `EditsElsewhereKeepIdsHolds`:
  for any files in which no path, name or type has a colon in it, and digits of
  each ordinal that no other has (`TargetAssumption`; a Go identifier has no
  colon, and discovery's paths are relative and slashed). The first colon of an
  id ends its path and the second its anchor (`FirstColon`, `SamePath`), the
  ordinals of the points of one anchor and type differ (`OrdinalsDiffer`), and so
  two points never share an id (`SamePoint`). An anchor is one function's own
  (`OwnAnchor`), so an ordinal counts only points of its body (`OrdinalInBody`),
  whatever is edited elsewhere.
- `FiltersInvHolds` and `NotCoveredNeverRanHolds`: for files of any length, where
  a function has a closing line and calls nest or lie apart
  (`SourcesAssumption`). That a nested call is excluded through the outermost one
  that encloses it, and a `disable-next-line` through the next line that counts,
  takes a least or a largest of finitely many; `LeastNat` and `SmallestSet` give
  those from the library's well-founded orders of numbers and finite sets.
- `ClosedUnderImportersHolds`, `NothingElseHolds` and `KillersAreRunHolds`: for
  every set of packages, every module among them, every non-empty sequence of
  targets in it and every import graph, the search returns the targets and with a
  package every importer, nothing else, and no killer is left out. The invariant
  says that an importer of a visited package is visited too, unless that package
  is still queued, or is the one whose importers are being looked at
  (`Frontier`); that what is queued is visited (`Queued`), that the importers
  still to look at import the current package (`Waiting`), that the targets
  seeded so far are visited (`Seeds`), and that every closed set contains the
  visited packages (`Least`). When the queue is empty `Frontier` says that the
  visited packages are closed, and `Least` that they are the least such set
  (`Result`). `KillersAreRun` then follows without any induction along a path:
  the packages of the module that are not in the result, together with all those
  outside it, are closed under imports where nothing outside imports the module,
  so a test binary that links a target is not made of those alone.

### Only model-checked

- Liveness, and with it `ENABLED`, which are outside the prover's reach: that
  every goroutine of the pool and of the map's build ends, `FlagFollowsProbe`,
  `EveryCallReturns`, and the liveness half of both refinements.
- That the properties of the four violated runs are violated.

That the search of `Closure` ends follows from its marking each package once; it
is not stated.

## What is not modelled

Text to text and syntax to syntax: the mutators, patching, the globs of
exclusions, the text of diffs, profiles and YAML, the layout of reports. System
calls, and the platform files around them, process groups among them; that a
killed process ends is assumed. `--help`, `--version` and `--list-mutators`,
which print and exit. What two settings do that no check relates is not
followed. Durations are ticks: the conversions of timeout.go:88 are left out.

## Plan

In this order; the second has a hazard that no property covers yet.

1. `Pipeline` composed with `Incremental` at the phases that read and write the
   cache.
2. The timeout policy with its conversions and overflow (timeout.go:88), as an
   algorithm checked against its definition.
3. The test index of the cache and the numbering of relative paths.
4. Proofs: that `Worker`'s assumption on its jobs is `KillersAmongSuites` of the
   map they come from, as one statement over both modules; and a variant of
   `Closure`'s search that each step decreases, from which it ends.
