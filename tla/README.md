# A TLA+ model of ep2fmu

ep2fmu exports an EnergyPlus building model as an FMI 2.0 co-simulation FMU and
runs it. This directory holds TLA+ modules of that program, TLC configurations
that model-check them on small instances, and proofs that TLAPS checks for all
instances. Paths below are relative to the repository.

- [Inventory](#inventory): the system's parts and what makes each correct
- [Modules](#modules): what is modelled, where, and how it corresponds to the code
- [Runs](#runs): what is checked, with which bounds and fairness
- [Proofs](#proofs): what is proved, from what and how
- [Findings](#findings): where code and documentation disagree
- [Not modelled](#not-modelled) and [Plan](#plan)

## Inventory

The system has three parts, which meet in files: the release makes the runtimes
that the exporter packs, and the exporter writes `resources/ep2fmu-config.json`,
by which they run inside the FMU.

**At run time** an importer loads a shared library and calls fmi2 functions on
instances. Each started instance owns one worker process, which runs EnergyPlus.

| Component | State | Operations |
|---|---|---|
| FMI instance, `runtime/ep2fmu-fmi2/src/lib.rs` | lifecycle, inputs, outputs, current time, stop time, four parameters, log filter, the worker | fmi2Instantiate, SetupExperiment, EnterInitializationMode, ExitInitializationMode, DoStep, Set/Get of four types, SetDebugLogging, Terminate, Reset, FreeInstance |
| Worker, `runtime/ep2fmu-worker/src/main.rs` | handles, inputs, remaining zone steps, time, three flags, output directory | `run`, the callbacks at the beginning and end of a zone timestep, the message callback |
| Protocol, `runtime/ep2fmu-protocol/src/lib.rs` | none; two pipes | write and read of length-prefixed MessagePack messages |
| EnergyPlus (external) | the simulation | calls the worker back; stops on request |

The importer's thread writes a command to the worker's stdin and reads responses
from its stdout until one is not a log message. The worker has one thread: while
EnergyPlus simulates nothing reads stdin, and while a callback waits for a
command EnergyPlus stands still. There is no other synchronisation. What is hard:
both ends block (a full pipe, an empty pipe, a process being waited for); either
process may die at any point; the two keep separate clocks, and EnergyPlus a
third; each checks a step on its own; the worker's reader loses what it has read
ahead; a message may be in the pipe when nobody expects it; a temporary directory
has to go, or to stay, at whatever point the worker ends.
Correct means: each call returns; an answer belongs to the call that gets it;
the three clocks agree when the importer looks; outputs are those of the time and
inputs they are reported for; no process is overwritten, leaked or left running;
simulation output is kept or removed as the parameters say.

**At export time** a command-line program turns a model into the archive.

| Component | State | Operations, and what makes them correct |
|---|---|---|
| Mapping configuration, `src/ep2fmu/config.py`, `models.py` | none | extract legacy objects, load YAML, merge, transform: precedence, unique names, complete fields |
| Metadata, `metadata.py` | none | timing, GUID, identifiers, value references: the references must address the same variables as positions in the worker's vectors |
| Build pipeline, `api.py`, `energyplus.py` | temporary directory, output file | stages of build and validate: the first failure decides, and says what has become of the file |
| Packaging, `resources.py`, `packaging.py`, `runtime_assets.py` | archive entries | no entry replaces another silently; every platform finds its runtime |
| Inspection, `inspection.py` | none | reads an archive back: the report is that of the request |
| Command line, `cli.py`, `errors.py` | none | doctor, validate, build and inspect: every failure has its exit code, and the commands do not contradict each other |

**At release time** `.github/workflows/release.yml` compiles the library and the
worker on four runners. `scripts/package_runtime.py` packs each pair,
`scripts/merge_macos_runtime.py` fuses the two of macOS, and the last job collects
the artifacts into the wheel. Jobs run in parallel, fail and are run again, and
leave artifacts of different attempts behind. Correct means: a published wheel has
a runtime that runs on each platform, and the two of macOS, which share a
directory in the archive, are equal.

`src/ep2fmu/__init__.py` and the benchmark keep no state and nothing depends on
them.

The hazards of all parts, each at its line with the properties that would
catch it, are in `PROJECT.json`.

## Modules

| Module | Models | In the code |
|---|---|---|
| `StepTiming` | tolerance, alignment and stop-time checks, NaN and infinity included | lib.rs:717-732, main.rs:222-260 |
| `Pipes` | messages, the two pipes, the two processes as the system sees them | protocol lib.rs, `Instance::send/receive`, `RuntimeContext::send/receive` |
| `FmiInstance` | the fmi2 functions, `spawn_worker`, `stop_worker` | lib.rs |
| `EnergyPlus` | what the worker assumes of EnergyPlus (external) | the API of energyplus_api.rs |
| `Worker` | `run`, `main` and the three callbacks | main.rs |
| `Bridge` | both processes together, faults, all their properties and their inductive invariant | |
| `CoSimulation` | the abstract contract: the instance as the importer sees it | README.md, "FMI runtime behavior" |
| `Mapping` | FMU variables from legacy objects and YAML to vectors and references | config.py, models.py, metadata.py, lib.rs:543-577 |
| `Bundles` | the runtimes: their names in a bundle, in an archive and where the library looks for its worker | runtime_assets.py, packaging.py, both scripts, lib.rs:184-192 |
| `Archive` | the entries of an archive, identifiers, and what is read back | packaging.py, metadata.py, inspection.py |
| `Export` | sessions of doctor, validate, build and inspect: stages, output file, exit codes, all properties | api.py, cli.py, resources.py, metadata.py, energyplus.py, inspection.py |
| `Release` | the jobs of a release, their attempts and artifacts, the published wheel | release.yml, both scripts |
| `MCBridge`, `MCExport` | small instances for TLC (`Release` needs none) | |
| `BridgeProofs` | typing and ownership of `Bridge` | |
| `ProtocolProofs` | the protocol invariant of `Bridge` and what follows from it | |
| `ContractProofs` | that `Bridge` implements `CoSimulation` | |
| `ReleaseProofs` | theorems about `Release` | |
| `MappingProofs` | what the operators of `Mapping` compute: sorting, merging, both descriptions of the result | |
| `ExportProofs` | the control of a session, its output file and the entries of an archive | |
| `ContentProofs` | what the archive and inspect say of the mappings | |
| `VerdictProofs` | what the commands say of a request | |

`Pipes` declares what is shared; `FmiInstance` and `Worker` extend it without
knowing each other, and `Bridge` extends both. `Archive` extends `Mapping` and
`Bundles`; `Export` extends it, and `Release` shares `Bundles` with it, so that the
two agree on what a bundle is. Each module of proofs extends the module it is about
or the one before it; `ContentProofs` extends `ExportProofs` and `MappingProofs`.

### The runtime

**Steps.** A function that does not talk to the worker is one action. One that
does is a sequence of actions, one for each read or write of a pipe; `call` is
the place in it. The worker's `pc` does the same for its thread. So the model has
every interleaving of the two processes that the pipes allow, and a crash or a
kill at each of those points. A write to the worker fails once its process has
exited; a read fails when the process has exited and nothing is buffered; a write
of the worker blocks while stdout holds `OutCapacity` messages and fails when the
importer is dead. `Take` models the worker's reader: the first message is
returned and whatever else had arrived is lost. A step larger than the stdin pipe
(`"large"` in `Faults`) is written in two halves: the second waits until the worker
reads (`writeStep`).

**Data.** Times are integers. `Eps / ZoneStep` stands for the code's relative
tolerance 1e-9, so every comparison of the code becomes an exact comparison of
integers, with the same shape: the tolerance grows with the step size and is
granted at the communication point and at the stop. NaN and infinity are values of
their own; a comparison with a NaN is false, and `rounded as u64` takes a NaN to
zero. A worker's time is a sum of whole seconds (`simulation_timing` makes the
zone step divide an hour), so f64 addition is exact there. An output vector is
the pair of the zone timestep it was read after and the inputs that were applied:
that is what tells a fresh output from a stale one.

**Correspondence.** `state`, `currentTime`, `experimentStop`, `inputs`,
`outputs`, `hasWorker`, `outputDirectory` and `keepOutputs` are the fields of
`Instance`; `readySent`, `handlesReady`, `remaining`, `workerTime`, `workerInputs`
and `shutdown` those of `RuntimeContext`; `keep` and `directory` what `run` has made
of the two parameters. `modelStop` is `Instance.model_stop_time`, which
fmi2Instantiate and fmi2Reset read from `ep2fmu-config.json` and Ready replaces by the
worker's (lib.rs:262-263); `workerStop` is the stop time of the configuration the
worker has loaded. They are constant unless that file is replaced under a live
instance (`"config"` in `Faults`): then each reading may find any of `StopTimes`, or
other outputs, or no readable file. The zone step is assumed to stay the same, as
EnergyPlus takes its own from model.epJSON. `request` is the local step of fmi2DoStep. `phase`,
`inStep`, `simStep`, `applied` and `stopFlag` are EnergyPlus's. `PROJECT.json` maps
every definition to its lines.

**Assumptions about EnergyPlus**, none of which the repository can enforce: API
data is ready before a run period begins; after `stopSimulation` the current
timestep ends and no other begins; a simulation is finite; messages are not
emitted inside an API call made from a begin or end callback. It may fail in any
state, may end before or after the exported stop time, may run several run
periods with warm-up between them, or none.

### The exporter

It runs in one thread, a command after another; what varies is the `request`:
everything the user and the file system bring, the commands included. `todo` holds
the commands left. Each goes through its stages, one action for each stage of
`_prepare`, `build_fmu`, `doctor` and `inspect_fmu`, and ends in `Exit`, which turns
the exception, if there is one, into the exit code of cli.py for that command
(their tables differ). `config`, `resources`, `model`, `timing` and `guid` are the local
variables of those functions, and are lost with the command; `exits`, `file` and
`report` are what the user sees. A stage raises because of what the request holds
(equal names, missing fields, colliding files, a timestep that does not divide the
hour), which the action decides, or because of the environment: `request.failing`
says which stage meets which of the exceptions that `FailingStages` lists for it
(`StageFails`): a file that cannot be read, text that is not UTF-8, a JSON value of
another type, an archive that cannot be unpacked, a disk that is full.

The output file is as it was until it is opened, truncated while it is being
written, then built; a write that fails leaves it truncated. FMU names are numbers,
since only their order matters; characters of an identifier are of four kinds;
the GUID is what is hashed; a date is a day of the year; an archive is a function
from paths to contents. The library and the worker of a platform are two entries.

### The release

A job waits for those it needs, downloads its artifacts into its runtime directory,
works, uploads. It may fail in each of these phases and be started again, and a job
that has succeeded may be re-run, with those that need it, while the artifacts of
its earlier attempts are still there. An executable is the set of pieces of machine
code in it, each known by its platform and by the attempt that compiled it, so
that a wheel mixed from several attempts can be told from one of a single attempt.

## Runs

| Run | Question |
|---|---|
| `bridge` | one instance, no faults of the system (but EnergyPlus, the file system and every call may fail): safety, the contract, no deadlock |
| `bridge_faults` | the same with a worker that crashes, an importer that is killed, a configuration file that is replaced by one with another RunPeriod or other outputs, steps larger than a pipe, and every choice of output directory |
| `bridge_live` | with a stdout pipe of one message: every call returns, no orphan |
| `reset_recreates`, `nan_step`, `nan_point` | statements of the documentation the runtime does not keep |
| `export` | what an archive promises, and what the commands say of it |
| `export_exit_codes`, `export_aliases`, `export_guid_order`, `export_collisions` | statements of the documentation the exporter does not keep |
| `release` | what the exporter makes of a published wheel |

What the properties of `Bridge` say:

- `FreshSpawn`, `Ownership`: no worker process is overwritten or left behind.
- `ClockAgreement`: instance, worker and simulation agree on the time whenever a
  step can be asked for.
- `NoStaleAnswer`: Ready and StepComplete are in the pipe only for the call that
  waits for them, and StepComplete carries the time that call asked for.
- `CommandsNeverCoalesce`: a worker that may still read never has two commands
  before it; the reader of main.rs:49 would lose the second.
- `NothingLeftToDrain`: when `stop_worker` stops reading, the worker has nothing
  more to write. `child.wait()` with an undrained stdout is safe only for this.
- `HostChecksSuffice`: the worker never rejects a step the host has forwarded
  (a rejection lets the simulation run on, uncounted), except under a NaN stop
  time, which the host accepts.
- `OutputsAsPromised`: a worker that has exited leaves no temporary directory
  undecided. It is kept only if keepOutputs was set, and removed only if it was not
  or if `run` failed before EnergyPlus did anything. README.md:391-392 does not
  mention that exception: until the `keep()` of main.rs:462-467 every error return
  drops the TempDir, also with keepOutputs. Nothing has been simulated by then, so it
  is stated here and not as a finding. A worker that is killed leaves the directory.
- `DataInTurn`: what is answered was simulated with the inputs of the step in
  progress, from the first of its zone steps to the last.
- `Protocol`: the inductive invariant of the proofs. It is checked so that TLC
  sees it under every fault.
- `ImplementsContract`: the two processes implement `CoSimulation`, with the
  identity as refinement mapping: outputs belong to the time they are returned
  for and to the inputs that were set when the step began; a step is a whole
  number of zone steps within the stop time, which is that of the configuration the
  worker has loaded, also when it is not the one fmi2Instantiate read. The contract
  does not tell one failed call from another, and lets the simulation end at any
  time: that an infinite step is answered by FMI_DISCARD is no step against it.
- `CallsReturn`, `OrphanExits`: liveness. A call does not return when a step that
  is larger than the stdin pipe meets a full stdout pipe (`BothPipesFull`): the host
  waits for the worker to read, the worker for the host to read.

Those of `Export`:

- `ReferencesReachMappings`: a value reference of modelDescription.xml, taken as a
  position in the vectors of ep2fmu-config.json, reaches the mapping the user
  means by that name: two sortings in two files, the precedence of YAML and two
  bases in Python and Rust have to fit.
- `StructureNamesVariables`: ModelStructure's positions are those of outputs and
  inputs.
- `TargetsExist`: the worker finds the schedule or global of every input, and the
  fields it asks EnergyPlus with. That the legacy objects are gone from the model is
  not part of it.
- `FilesResolve`, `RuntimesMatch`: no entry of the archive took another's place, and
  the system of every platform finds its library and its worker.
- `IdentifierIsC`: the modelIdentifier is a C identifier.
- `RunPeriodOnGrid`: the stop time lies on the grid of zone steps, which both
  processes' alignment checks take for granted, and its six digits lose nothing.
- `RefusedForAReason`: only contradictory requests and failing environments are
  refused. A request in whose environment any stage fails, or EnergyPlus is not the
  supported one, is excused for all its commands, and a weather file the model refers
  to as well counts as a contradiction.
- `VerdictsAgree`: validate and build, and doctor and the two, agree, up to the
  differences their exit codes have (the missing handler of finding 4 among them).
- `FileAsReported`: the exit code of build tells what has become of the output
  file.
- `InspectionTruthful`: inspect reports what was asked of build, and accepts no
  remains of a build that failed.
- `GuidIgnoresOrderUnderOverlay`: with a YAML configuration the order of the model's
  members leaves the GUID as it is (finding 6 is about models without one).

And those of `Release`:

- `EveryPlatformLoads`: whatever has failed and been repeated, a published wheel has
  for each platform a library and a worker with code for it.
- `SelectorsAgree`: its runtimes that share a path in an archive are equal, so a
  build for all platforms, the default, meets no collision.

Every property of a passing run has a mutant in `PROJECT.json`: a definition of the
model changed as a plausible bug would change the code, under which TLC finds the
property violated. Mutated forms stand before the definitions they mutate and are
commented as such.

**Bounds of the runtime.** One input with two values (one in `bridge_faults`); three
zone steps in the exported RunPeriod, simulations of 0, 2, 3 and 4; communication
points on the grid, one tick off (within the tolerance of one step) and two off
(within that of two); seven step sizes in `bridge`, among them zero, misaligned,
misaligned within the tolerance, and infinite, and three in `bridge_faults` and
`bridge_live`, so those two say nothing of infinite steps, and none of the three of a
NaN step (`nan_step` does); four
experiment stop times in `bridge`, one in the others; in `bridge_faults` a replaced
configuration with a RunPeriod of one or of four zone steps; three warm-up timesteps over a
simulation in `bridge`, so that data may get ready late and a second run period warms
up again in the middle of a step, two in the other runs; one or two messages
against a pipe of two or one, so that the pipe fills; any number of calls, resets
and instances one after another. An instance talks to one worker at a time, so a
second instance adds nothing (what two could share, an output directory, is not
modelled). `ManySteps` stands for u64::MAX and need only exceed a simulation.

**Bounds of the exporter.** The requests of `MCExport` vary in one part at a time:
all sequences of up to two legacy objects over three names, four kinds and two
keys, with overlays of up to two inputs and an output, which is enough for names to
repeat, to be moved between inputs and outputs, to share a key and to be out of
order; every set of fields of one mapping of each kind, in an overlay and in a
legacy object; all pairs of file references over two directories and three names,
with and without a weather file of one of those names; up to two platform options,
with and without a default, for four sets of runtimes (missing, universal, half
universal, different); every timestep from 0 to 61, every run period that begins
with the year and those that cross its end, include a leap day or are absent;
names of up to four characters, an overlay's empty one, which counts as none,
included; and every failure of every stage in every state
of EnergyPlus, and every contradiction, under all four commands in one session,
with and without an older output file; the four commands in every order, while a
stage fails always in one way or each time in one of two. There is one build in a
session: a second one meets an older file, with which sessions may begin. Weather files with the name
of an entry of the exporter are left to `export_collisions`. A build without a
weather file can only be asked for through the Python API.

**Bounds of the release.** Each job is started at most twice (`MaxAttempts`), so that
every artifact may come from either attempt. A third attempt replaces an artifact
by one of the same kind; the theorems hold for any number.

**Deadlock** is checked in `bridge`, `reset_recreates` and `nan_point`. The runs
that may kill the importer do stop, the exporter and a release end, and `nan_step`
stops in the hang it shows.

**Fairness.** `FairSpec` is weakly fair to the steps of a call in progress and to
those of a live worker: the operating system schedules both. Nothing is assumed
of the importer's calls, of crashes and kills, or of the outcome of any choice.
That a worker comes to an end of its warm-up and its messages is the bounds'
doing and stands for a simulation being finite. No property of `Export` or `Release`
is about progress, and neither states fairness.

## Proofs

TLAPS checks every theorem below for all values of the constants. What is taken for
granted are the named assumptions of the modules: about the constants, evaluated by
TLC on the instances it checks.

**Typing and ownership** (`BridgeProofs`). `TypeOK` alone is not inductive:
fmi2DoStep sends the request it has stored, which is a request only because a step
is in progress. `Ownership` says which call belongs to which lifecycle state and
ties `hasWorker` to the process; `TypeOK /\ Ownership` is inductive. There is one
lemma for each kind of step (calls, calls in progress, spawning, reaping, worker,
faults), with one case for each action. `FreshSpawn` follows from `Ownership` in one
step. For the type of `remaining`, `ZoneStepsType` shows that a step which passed the
alignment test is a natural number of zone steps, NaN and infinity included.

**The protocol** (`ProtocolProofs`). Neither the clocks nor the freshness of answers
is inductive: that an answer is fresh needs that there is at most one, that it is
written only after the command was read and that no command follows before it is
read. `Protocol` says so for each pair of `call` and `pc`, in six parts: `WorkerShape`
and `DirectoryShape` (what the worker's place says of its flags and its directory),
`ExperimentShape` (what fmi2SetupExperiment has fixed), `AnswersInTurn`,
`CommandsInTurn` (what the pipes may hold) and `ClocksInTurn` (how far each clock is
from the target while a step is under way). With `TypeOK` and `Ownership` it is
inductive, under every fault of the model. From it follow, each in a few lines,
`ClockAgreement`, `NoStaleAnswer`, `CommandsNeverCoalesce`, `NothingLeftToDrain` and
`OutputsAsPromised`; and `HostChecksSuffice` if the configuration file does not
change (`"config" \notin Faults`), since the host then checks against the stop time
the worker has or against a smaller one, and its check is the stronger. With a file
that changes it does not hold: an experiment stop accepted under a longer RunPeriod
stays, and the worker refuses what the host lets pass.

**The contract** (`ContractProofs`). `DataInTurn` adds what travels in the messages and
is invariant on top of `Protocol`. `Refinement` then maps every step of `Bridge` to a
step of `CoSimulation` or a stutter: the last read of fmi2DoStep and of
fmi2ExitInitializationMode are the abstract steps, setters and lifecycle calls map
to themselves, everything else of both processes is a stutter. It holds also when the
configuration file is replaced, because `Protocol` has `modelStop = workerStop`
whenever a step may be asked for. It holds under
`OrdinaryRun`: no communication point is a NaN (`nan_point` shows why) and no
simulation is as long as an infinite step asks for. The arithmetic is that of the
tolerances: a step that passes the alignment and stop checks, rounded, ends within
the RunPeriod (`WholeStepsWithinPeriod`), which takes that 1e-9 of the longest
possible step is far below a zone step (`ToleranceAssumption`).

**The release** (`ReleaseProofs`). The inductive invariant `Consistent` says that a job
that runs or has run was preceded by those it needs, what each artifact and each
runtime directory holds in each phase, and that a published wheel is complete. The
order is essential: re-running a compiler sends the merger and the publisher back to
waiting, and only so does the publisher never meet a merged artifact without its
parts. `EveryPlatformLoads` and `SelectorsAgree` follow.

**The exporter** (`ExportProofs`). The invariant has four parts: `Control` (which
command is at which stage), `Prepared` (what the stages before have made of the
request), `Filed` (the output file and the exit codes) and `Contents` (what a built
archive holds). `FileAsReported` is part of `Filed`; `RuntimesMatch`, `FilesResolve`
and `RunPeriodOnGrid` follow from the shape of the entries as they are put together
in `Assemble`, the last two for a weather file that has not the name of an entry of
the exporter (`OrdinaryWeather`; finding 7 is about the others). `RequestsAssumption`
says what a request is: timesteps are natural numbers, dates are days of a year, a
command is given once; legacy objects are of any kind but meters, and the two lists of
an overlay are of their kinds, as the enumerations of models.py make sure.

**Mappings** (`MappingProofs`). `SortedByName` is defined as an enumeration in the order
of names, chosen among all. So a proof has to show that there is one: each member
has as its place the number of members not above it (`InOrderExists`), from the
cardinalities of intervals and subsets alone, without induction. `SameOrder` says
there is only one when the keys tell the members apart. On that rest `UniqueNamesAre`
(the count of names is right exactly when no two mappings share one),
`ExtractLegacyIs` and `MergeConfigsIs` (which mappings come out, under either
precedence), `SortedDumpIs` and `DescribedVariables`: the sorting of api.py and that
of metadata.py put the same mapping in the same place.

**What an archive says** (`ContentProofs`). The invariant adds three parts. `Derived` is
what each stage has made of the mappings and the model: `config` and `model` are the
functions of the request that extraction, merge and transformation compute, and no
name is twice in `config`. `Told` is what the written archive says, `Inspected` what
inspect has read and that no build follows it. `TypeOK`, `StructureNamesVariables`,
`IdentifierIsC`, `ReferencesReachMappings`, `TargetsExist` and `InspectionTruthful`
follow; of these the two before the last read files that a weather file could have
replaced, and hold under `OrdinaryWeather`. `Identified`, on top of `Derived`, says that
the GUID is that of the configuration and the model the request leads to; since under
an overlay both depend only on the set of legacy objects (`MergedAlike`),
`GuidIgnoresOrderUnderOverlay` follows.

**What the commands say** (`VerdictProofs`). `RefusedForAReason` is inductive on top of
those: each `Raise` in the model is traced to one of the listed reasons
(`RaisedForAReason`), which needs `Derived` to go back from `config` and `model` to what
the user gave. `VerdictsAgree` compares two commands that may be in either order with
others between. So it is not proved from one to the other but from both to the
request: `Outcome` says, without a state, what `validate` and `build` end in on a
request, by the first of the thirteen stages of `Order` that does not go on. `Judged`
says that each of them is on its way to that outcome, or has ended in the code of it;
`OneVerdict`, that a steady environment (`Steady`: a stage fails each time, and in one
way) leaves one outcome for the shared stages. `Installed` does the same for what
`doctor` finds of EnergyPlus. Judged, Installed and the parts of the other invariants
have been checked by TLC before they were proved.

What the theorems suppose of a session is in `Steady` and, for `InspectionTruthful`, in
`InspectsResult` (a build after the inspection replaces what was inspected): they are
antecedents of the properties, and `export` has sessions with and without them.

Only model-checked: liveness (`CallsReturn`, `OrphanExits`), which needs reasoning about
fairness and ENABLED that TLAPS does not support. Every invariant of a passing run is
stated by a theorem.

## Findings

1. **fmi2Reset does not recreate the worker** (`reset_recreates`). README.md:373
   says it does; lib.rs:514-527 stops it, and the next one is started by
   fmi2ExitInitializationMode.
2. **A NaN step size hangs importer and worker** (`nan_step`). README.md:371-372
   promises an error for a misaligned step.
3. **A NaN communication point lets a step pass the RunPeriod** (`nan_point`),
   against the same lines, when the simulation is longer than the exported stop
   time, as with two RunPeriod objects.
4. **Duplicate legacy names escape the exit codes** (`export_exit_codes`).
   README.md:206 promises stable exit codes and README.md:326-327 an error; `build`
   ends with a traceback and status 1, `validate` reports 2.
5. **A YAML entry drops an embedded actuator's alias** (`export_aliases`), against
   README.md:329-331.
6. **The GUID depends on the order of JSON members** (`export_guid_order`) when there
   is no YAML configuration, against README.md:402-403.
7. **A weather file may replace the model** (`export_collisions`), against
   README.md:170.

`BothPipesFull` is not listed, since no document says how many inputs a step may
have: it takes some thousands of them and as many messages.

## Not modelled

In the runtime: the log filter and the texts given to the importer's logger; the
parameters energyplusHome and runReadVars, which are handed on unread; byte-level
framing and the 16 MiB limit (a message is whole); two instances that are given one
output directory; a configuration file replaced by one with another zone step; f64
rounding beyond the tolerance; Windows and macOS process
details; the functions that always return FMI_ERROR. A message that EnergyPlus emits
inside an API call, and a timestep begun after a stop request, are excluded by the
assumptions above.

In the exporter: start values, units, descriptions and the alternative spellings of
epJSON fields; the rest of the model; the text of modelDescription.xml; the
hash; the order and attributes of ZIP entries; the printing of results, which may
fail after the file is written; a shortage of memory or stack; option parsing and the default
output path, which two models of one directory may share when their names differ
in punctuation only.

In the release: the checksums and the GitHub release the last job makes before it
publishes (release.yml:86-93), and the universal2 marker, which nothing reads back;
the source distribution, a second file of `uv publish`, whose upload is one step
here, of the wheel; the Rust build itself. The package surface (`__init__.py`) re-exports, and the benchmark
measures from outside.

## Plan

Done, in this order: `StepTiming`, `Pipes`, `FmiInstance`, `EnergyPlus`, `Worker`,
`Bridge`, `CoSimulation`, with typing and ownership proved; `Mapping` and `Export`;
output directories and large steps; sessions, `Archive`, `Bundles` and `Release`; the
protocol invariant and the refinement; the proofs of the release and of the exporter,
its archives, their mappings and the verdicts of its commands.

Left:

1. `LogFilter`: which messages reach the importer (README.md:379-380 against
   lib.rs:108-119), with SetDebugLogging between any two calls.
2. Two instances over one directory, once the code says what it promises there.
