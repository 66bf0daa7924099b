-------------------------------- MODULE Export --------------------------------
(***************************************************************************)
(* A session with the command line: "ep2fmu doctor", "validate", "build"   *)
(* and "inspect", one after the other, on one model and one output file.   *)
(* Each command goes through the stages of src/ep2fmu/api.py in their      *)
(* order; a stage may end it in an exception, which cli.py and errors.py   *)
(* turn into an exit code.                                                 *)
(*                                                                         *)
(* A request is what the user has: the commands and their options, a model *)
(* with its legacy objects, its own schedules and EMS globals and the      *)
(* files it refers to, perhaps an overlay and a weather file, an           *)
(* EnergyPlus installation, the runtimes of the package, and at most what  *)
(* goes wrong in its environment.  A file is a directory and a name.       *)
(***************************************************************************)
EXTENDS Archive

CONSTANTS Requests  \* the requests

VARIABLES
    request,    \* the command line and the files behind it
    todo,       \* the commands left, the current one first
    stage,      \* the stage that is next, or "failed", "done"; "over" after the last
    exception,  \* the exception that ended the current command, or None
    exits,      \* command -> exit code, None before it has ended
    config,     \* the legacy, then the resolved configuration
    resources,  \* archive name -> file, of the files the model refers to
    model,      \* the model as it is parsed, rewritten and transformed
    timing,     \* the zone step and the stop time in seconds
    guid,       \* what the GUID is derived from
    file,       \* the output file
    report      \* what inspect has printed, or None

prepared == <<config, resources, model, timing, guid>>
product == <<file, report>>
vars == <<request, todo, stage, exception, exits, prepared, product>>

CommandNames == {"doctor", "validate", "build", "inspect"}
command == Head(todo)

Stages == {"options", "weather", "energyplus", "library", "convert", "load",
           "resources", "version", "extract", "overlay", "merge", "transform", "timing",
           "guid", "assets", "assemble", "open", "write", "inspect"}

\* The exceptions of the program, typer's, ValueErrors (ValidationError and
\* UnicodeDecodeError too), and OSError, TimeoutExpired, TypeError, zlib.error and
\* the like.
Exceptions == {"BadParameter", "InvalidInputError", "EnergyPlusNotFoundError",
               "EnergyPlusVersionError", "MappingError", "PackagingError",
               "ValueError", "OtherError"}

\* The stages that fail, by the exception, on what they find, besides what the
\* request itself gets wrong: a file that cannot be read or is no text, no number
\* where there should be one, an archive that cannot be unpacked.
FailingStages ==
    [BadParameter |-> {"options"},
     InvalidInputError |-> {"weather", "convert", "load", "resources", "overlay", "inspect"},
     MappingError |-> {"extract", "transform"},
     PackagingError |-> {"assemble", "open", "write"},
     ValueError |-> {"energyplus", "convert", "load", "resources", "extract", "overlay",
                     "timing", "guid", "assets", "inspect"},
     OtherError |-> {"weather", "energyplus", "convert", "resources", "extract", "overlay",
                     "timing", "assets", "assemble", "open", "inspect"}]

Failures ==
    UNION {{<<at, error>> : at \in FailingStages[error]} : error \in DOMAIN FailingStages}

\* A command is given once, the file is not yet one of this session, there are legacy
\* objects for all kinds but meters, timesteps are natural numbers and dates days of
\* a year.
ASSUME RequestsAssumption ==
    \A r \in Requests :
        /\ r.commands \in Seq(CommandNames) /\ r.commands # <<>> /\ IsInjective(r.commands)
        /\ r.failing \subseteq Failures
        /\ r.file \in {"none", "older"}
        /\ {"objects", "schedules", "globals", "version", "stem"} \subseteq DOMAIN r.source
        /\ r.source.stem \in Seq(Characters)
        /\ r.source.objects \in Seq({m \in Mappings : m.kind # "meter"})
        /\ r.overlay # None =>
               /\ r.overlay.model \in Seq(Characters) \cup {None}
               /\ r.overlay.inputs \in Seq({m \in Mappings : m.kind \in InputKinds})
               /\ r.overlay.outputs \in Seq({m \in Mappings : m.kind \in OutputKinds})
        /\ r.source.timestep \in Nat \cup {None}
        /\ r.source.periods \in
               Seq([begin : 1..365 \cup {None}, end : 1..365 \cup {None}])
ASSUME NoneAssumption == None \notin Nat \cup Exceptions

\* The output file before a build: there is none, or that of an earlier session.
Untouched == [state |-> request.file, entries |-> << >>]

TypeOK ==
    /\ todo \in Seq(CommandNames)
    /\ stage \in Stages \cup {"done", "failed", "over"}
    /\ exception \in Exceptions \cup {None}
    /\ exits \in [CommandNames -> 0..6 \cup {None}]
    /\ config \in Configs
    /\ UniqueNames(config)
    /\ file.state \in {"none", "older", "truncated", "built"}

-----------------------------------------------------------------------------
(* Commands and stages.                                                    *)

FirstStage(name) ==
    CASE name = "doctor" -> "energyplus"
      [] name \in {"validate", "build"} -> "options"
      [] name = "inspect" -> "inspect"

\* Nothing is kept from one command to the next.
Nothing == [config |-> [inputs |-> <<>>, outputs |-> <<>>], resources |-> << >>,
            model |-> None, timing |-> None, guid |-> None]

Init ==
    /\ request \in Requests
    /\ todo = request.commands
    /\ stage = FirstStage(command)
    /\ exception = None
    /\ exits = [name \in CommandNames |-> None]
    /\ config = Nothing.config
    /\ resources = Nothing.resources
    /\ model = Nothing.model
    /\ timing = Nothing.timing
    /\ guid = Nothing.guid
    /\ file = Untouched
    /\ report = None

\* The environment makes the current stage fail.
Failing == \E failure \in request.failing : failure[1] = stage

Raise(error) ==
    /\ stage' = "failed"
    /\ exception' = error
    /\ UNCHANGED <<request, todo, exits, prepared, product>>

StageFails ==
    \E failure \in request.failing : failure[1] = stage /\ Raise(failure[2])

\* A stage that refuses the request ...
Refuse(at, error) == stage = at /\ ~Failing /\ Raise(error)

\* ... that goes on ...
Advance(from, to) ==
    /\ stage = from
    /\ ~Failing
    /\ stage' = to
    /\ UNCHANGED <<request, todo, exception, exits>>

\* ... and that goes on and leaves nothing behind.
Pass(from, to) == Advance(from, to) /\ UNCHANGED <<prepared, product>>

-----------------------------------------------------------------------------
(* The options.                                                            *)

\* --platform, else EP2FMU_DEFAULT_PLATFORM, else everything.
Selectors ==
    CASE request.platforms # <<>> -> request.platforms
      [] request.defaultPlatform # None -> <<request.defaultPlatform>>
      [] OTHER -> <<"all">>

Platforms == IF "all" \in ToSet(Selectors) THEN AllPlatforms ELSE Selectors

\* What build asks of them; validate has no --platform and needs no weather.
BuildOptions ==
    /\ ToSet(Platforms) \subseteq ToSet(AllPlatforms)
    /\ IsInjective(Platforms)
    /\ request.weather # None

CheckOptions ==
    LET accepted == command = "build" => BuildOptions
    IN  \/ Pass("options", "weather") /\ accepted
        \/ Refuse("options", "BadParameter") /\ ~accepted

-----------------------------------------------------------------------------
(* _prepare, and what doctor does of it.                                   *)

CheckWeather == Pass("weather", "energyplus")

\* An executable is found, can be asked for its version, and it is the supported
\* one.  The library is looked for, but only doctor minds.
ResolveEnergyPlus ==
    \/ /\ stage = "energyplus"
       /\ request.energyplus \in {"supported", "no library"}
       /\ Pass("energyplus", IF command = "doctor" THEN "library" ELSE "convert")
    \/ /\ Refuse("energyplus", "EnergyPlusNotFoundError")
       /\ request.energyplus = "missing"
    \/ /\ Refuse("energyplus", "EnergyPlusVersionError")
       /\ request.energyplus = "unsupported"

CheckLibrary ==
    \/ Pass("library", "done") /\ request.energyplus # "no library"
    \/ Refuse("library", "EnergyPlusNotFoundError") /\ request.energyplus = "no library"

\* The model is copied to the temporary directory, or converted there.
ConvertModel == Pass("convert", "load")

LoadModel ==
    /\ Advance("load", "resources")
    /\ model' = request.source
    /\ UNCHANGED <<config, resources, timing, guid, product>>

\* Two files the model refers to would be one entry of the archive.
ResourcesClash ==
    \E one, other \in ToSet(model.references) : one # other /\ one.name = other.name

\* collect_model_resources: every file_name becomes the name of an entry.
CollectResources ==
    \/ /\ Advance("resources", "version")
       /\ ~ResourcesClash
       /\ resources' = [name \in {f.name : f \in ToSet(model.references)} |->
                           CHOOSE f \in ToSet(model.references) : f.name = name]
       /\ model' = [files |-> [i \in DOMAIN model.references |->
                                  model.references[i].name]] ++ model
       /\ UNCHANGED <<config, timing, guid, product>>
    \/ Refuse("resources", "InvalidInputError") /\ ResourcesClash

\* The one of the model's first Version object that has one.
CheckVersion ==
    LET supported == model.version \in {"26.1", "26.1.0"}
    IN  \/ Pass("version", "extract") /\ supported
        \/ Refuse("version", "InvalidInputError") /\ ~supported

\* A mutant of the next: the names are left to the overlay to check.
ExtractUnchecked ==
    /\ Advance("extract", "overlay")
    /\ config' = ExtractLegacy(model.objects)
    /\ UNCHANGED <<resources, model, timing, guid, product>>

\* extract_legacy_config: a missing field has an error of its own, pydantic's
\* ValidationError is a ValueError.
Extract ==
    LET legacy == ExtractLegacy(model.objects)
        complete == \A object \in ToSet(model.objects) : WellFormed(object)
    IN  \/ /\ Advance("extract", "overlay")
           /\ complete
           /\ UniqueNames(legacy)
           /\ config' = legacy
           /\ UNCHANGED <<resources, model, timing, guid, product>>
        \/ Refuse("extract", "MappingError") /\ ~complete
        \/ Refuse("extract", "ValueError") /\ complete /\ ~UniqueNames(legacy)

\* The file named with --config, or beside the model; there may be none.
LoadOverlay ==
    LET accepted == request.overlay # None =>
            /\ \A mapping \in ToSet(request.overlay.inputs \o request.overlay.outputs) :
                   WellFormed(mapping)
            /\ UniqueNames(request.overlay)
    IN  \/ Pass("overlay", "merge") /\ accepted
        \/ Refuse("overlay", "InvalidInputError") /\ ~accepted

\* merge_configs, and the check that there is a variable.
Merge ==
    LET merged == MergeConfigs(config, request.overlay)
    IN  \/ /\ Advance("merge", "transform")
           /\ UniqueNames(merged)
           /\ NamesOf(merged) # {}
           /\ config' = merged
           /\ UNCHANGED <<resources, model, timing, guid, product>>
        \/ /\ Refuse("merge", IF UniqueNames(merged) THEN "InvalidInputError" ELSE "ValueError")
           /\ UniqueNames(merged) => NamesOf(merged) = {}

\* A mutant of the next: the legacy configuration decides what is added.
TransformLegacy ==
    /\ Advance("transform", "timing")
    /\ model' = TransformModel(model, ExtractLegacy(model.objects))
    /\ UNCHANGED <<config, resources, timing, guid, product>>

Transform ==
    /\ Advance("transform", "timing")
    /\ model' = TransformModel(model, config)
    /\ UNCHANGED <<config, resources, timing, guid, product>>

HourSeconds == 3600
DaySeconds == 86400
YearDays == 365

\* Timesteps per hour, six if the model does not say.
StepsPerHour ==
    IF request.source.timestep = None THEN 6 ELSE request.source.timestep

\* A mutant of the next: any positive number will do.
AnyStepsFit == StepsPerHour > 0

StepsFit == StepsPerHour > 0 /\ HourSeconds % StepsPerHour = 0

\* A date is its day in 2001, None the 29th of February.
DatesExist ==
    request.source.periods # <<>> =>
        None \notin {Head(request.source.periods).begin, Head(request.source.periods).end}

\* The days of the first RunPeriod, a year if there is none; an end before the
\* begin is in the year after.
RunPeriodDays ==
    IF request.source.periods = <<>>
    THEN YearDays
    ELSE LET period == Head(request.source.periods)
         IN  period.end - period.begin + 1 +
                (IF period.end < period.begin THEN YearDays ELSE 0)

\* simulation_timing.
Time ==
    \/ /\ Advance("timing", "guid")
       /\ StepsFit /\ DatesExist
       /\ timing' = [step |-> HourSeconds \div StepsPerHour,
                     stop |-> RunPeriodDays * DaySeconds]
       /\ UNCHANGED <<config, resources, model, guid, product>>
    \/ Refuse("timing", "ValueError") /\ ~(StepsFit /\ DatesExist)

\* content_guid of the model and the configuration, as they are ordered; aliases
\* are excluded from the dump.
GuidOf(transformed, resolved) ==
    LET Dump(mappings) == [i \in DOMAIN mappings |-> Dumped(mappings[i])]
    IN  [model |-> transformed,
         inputs |-> Dump(resolved.inputs),
         outputs |-> Dump(resolved.outputs)]

Identify ==
    /\ Advance("guid", IF command = "validate" THEN "done" ELSE "assets")
    /\ guid' = GuidOf(model, config)
    /\ UNCHANGED <<config, resources, model, timing, product>>

-----------------------------------------------------------------------------
(* build_fmu after _prepare.                                               *)

\* The runtime bundle of each platform.
LoadAssets ==
    LET missing == \E platform \in ToSet(Platforms) : request.bundles[platform] = None
    IN  \/ Pass("assets", "assemble") /\ ~missing
        \/ Refuse("assets", "PackagingError") /\ missing

\* The overlay names the model; an empty name is none.
ModelNamed ==
    /\ request.overlay # None
    /\ request.overlay.model \notin {None, <<>>}

\* The overlay's name for the model, else the file's.
Identifier ==
    Sanitized(IF ModelNamed THEN request.overlay.model ELSE request.source.stem)

\* "{:g}": six significant digits, of times below ten thousand days.
SixDigits(seconds) ==
    LET scale == CHOOSE s \in {1, 10, 100, 1000} :
                    /\ seconds < 1000000 * s
                    /\ s = 1 \/ seconds >= 100000 * s
    IN  ((seconds + scale \div 2) \div scale) * scale

Description ==
    ModelDescription(config) ++
    [identifier |-> Identifier, guid |-> guid, stop |-> SixDigits(timing.stop)]

Payload ==
    MappingPayload(config) ++
    [model |-> "model.epJSON", step |-> timing.step, stop |-> timing.stop,
     weather |-> IF request.weather = None THEN None ELSE request.weather.name]

Base == BaseEntries(Description, model, Payload, request.weather)

Runtimes(platform) == RuntimeEntries(platform, request.bundles[platform], Identifier)

\* A mutant of the next: only the names of the exporter itself are taken.
TakenByExporter(path) == path \in {DescriptionPath, ConfigPath, ModelPath}

\* A resource may use no path that is in use.
Taken(path) == path \in DOMAIN Base

Collisions ==
    \/ \E path \in DOMAIN ResourceEntries(resources) : Taken(path)
    \/ \E one, other \in ToSet(Platforms) : ~Agree(Runtimes(one), Runtimes(other))

\* The entries and what they are made of.
Entries ==
    [path \in UNION {DOMAIN Runtimes(platform) : platform \in ToSet(Platforms)} |->
        LET platform == CHOOSE p \in ToSet(Platforms) : path \in DOMAIN Runtimes(p)
        IN  Runtimes(platform)[path]]
    ++ ResourceEntries(resources) ++ Base

Assemble ==
    \/ Pass("assemble", "open") /\ ~Collisions
    \/ Refuse("assemble", "PackagingError") /\ Collisions

\* write_bytes empties the file before it writes it.
OpenFile ==
    /\ Advance("open", "write")
    /\ file' = [state |-> "truncated", entries |-> << >>]
    /\ UNCHANGED <<prepared, report>>

WriteFile ==
    /\ Advance("write", "done")
    /\ file' = [state |-> "built", entries |-> Entries]
    /\ UNCHANGED <<prepared, report>>

-----------------------------------------------------------------------------
(* inspect, and the end of a command.                                      *)

\* What is there can be opened and parsed.
Inspectable ==
    \/ file.state = "older"
    \/ file.state = "built" /\ Readable(file.entries)

Inspect ==
    \/ /\ Advance("inspect", "done")
       /\ Inspectable
       /\ report' = IF file.state = "built" THEN Report(file.entries) ELSE None
       /\ UNCHANGED <<prepared, file>>
    \/ Refuse("inspect", "InvalidInputError") /\ ~Inspectable

\* A mutant of the next: every class has the exit code of its base.
ExitCodeOfBase(error) ==
    CASE error = None -> 0
      [] error \in {"ValueError", "OtherError"} -> 1
      [] OTHER -> 2

\* ExitCode of each class; any other exception ends Python with status 1.
ExitCode(error) ==
    CASE error = None -> 0
      [] error \in {"InvalidInputError", "BadParameter"} -> 2
      [] error = "EnergyPlusNotFoundError" -> 3
      [] error = "EnergyPlusVersionError" -> 4
      [] error = "MappingError" -> 5
      [] error = "PackagingError" -> 6
      [] OTHER -> 1

\* A mutant of the next: the table of validate_command has no MappingError.
ValidateExitCodeForgetful(error) ==
    IF error \in {"ValueError", "MappingError"} THEN 2 ELSE ExitCode(error)

\* validate_model turns exceptions into a report, ValueErrors too, and
\* validate_command has a table of its own.
ValidateExitCode(error) == IF error = "ValueError" THEN 2 ELSE ExitCode(error)

Exit ==
    /\ stage \in {"done", "failed"}
    /\ exits' = [exits EXCEPT ![command] =
                    IF command = "validate" THEN ValidateExitCode(exception)
                    ELSE ExitCode(exception)]
    /\ todo' = Tail(todo)
    /\ stage' = IF Tail(todo) = <<>> THEN "over" ELSE FirstStage(Head(Tail(todo)))
    /\ exception' = None
    /\ config' = Nothing.config
    /\ resources' = Nothing.resources
    /\ model' = Nothing.model
    /\ timing' = Nothing.timing
    /\ guid' = Nothing.guid
    /\ UNCHANGED <<request, product>>

Next ==
    \/ CheckOptions
    \/ CheckWeather
    \/ ResolveEnergyPlus
    \/ CheckLibrary
    \/ ConvertModel
    \/ LoadModel
    \/ CollectResources
    \/ CheckVersion
    \/ Extract
    \/ LoadOverlay
    \/ Merge
    \/ Transform
    \/ Time
    \/ Identify
    \/ LoadAssets
    \/ Assemble
    \/ OpenFile
    \/ WriteFile
    \/ Inspect
    \/ StageFails
    \/ Exit

Spec == Init /\ [][Next]_vars

-----------------------------------------------------------------------------
(* What the commands promise of the archive.                               *)

Built == file.state = "built"
WrittenDescription == file.entries[DescriptionPath][2]
WrittenPayload == file.entries[ConfigPath][2]
WrittenModel == file.entries[ModelPath][2]

Overlaid == IF request.overlay = None THEN <<>>
            ELSE request.overlay.inputs \o request.overlay.outputs

\* The mapping the user means by a name: the YAML entry, else the legacy object.
Intended(name) ==
    LET Named(mappings) ==
            {Dumped(mapping) : mapping \in {m \in ToSet(mappings) : m.name = name}}
    IN  IF Named(Overlaid) # {} THEN Named(Overlaid) ELSE Named(request.source.objects)

IntendedNames == NamesIn(request.source.objects) \cup NamesIn(Overlaid)

\* The value reference modelDescription.xml gives a name reaches, through the
\* vectors of host and worker, the EnergyPlus object the user means by that name;
\* every name has one (sorting in metadata.py and api.py, precedence in config.py,
\* positions in lib.rs and main.rs).
ReferencesReachMappings ==
    Built =>
        LET Of(causality) ==
                {v \in ToSet(WrittenDescription.variables) : v.causality = causality}
        IN  /\ \A v \in Of("input") :
                   Intended(v.name) = {AddressedInput(WrittenPayload, v.reference)}
            /\ \A v \in Of("output") :
                   Intended(v.name) = {AddressedOutput(WrittenPayload, v.reference)}
            /\ {v.name : v \in Of("input") \cup Of("output")} = IntendedNames

\* ModelStructure refers to variables by position: its unknowns are the outputs
\* and their dependencies the inputs (metadata.py, next_index).
StructureNamesVariables ==
    Built =>
        LET Positions(causality) ==
                {i \in DOMAIN WrittenDescription.variables :
                    WrittenDescription.variables[i].causality = causality}
        IN  /\ WrittenDescription.unknowns = Positions("output")
            /\ WrittenDescription.dependencies = Positions("input")

\* The worker can get a handle for every mapping: the configuration has the fields
\* it asks EnergyPlus with, and the model packed beside it has the
\* Schedule:Constant or the EMS global (transform_epjson, ensure_handles).
TargetsExist ==
    Built => \A mapping \in ToSet(WrittenPayload.inputs \o WrittenPayload.outputs) :
                /\ HandleFields(mapping.kind) \subseteq mapping.fields
                /\ mapping.kind = "schedule" =>
                       mapping.key \in DOMAIN WrittenModel.schedules
                /\ mapping.kind = "ems_global" => mapping.key \in WrittenModel.globals

\* Each rewritten file_name finds in the archive the file the model referred to,
\* and the configuration finds the weather (resources.py, packaging.py).
FilesResolve ==
    Built =>
        /\ \A i \in DOMAIN request.source.references :
               file.entries[ResourcePath(WrittenModel.files[i])] =
                   <<"file", request.source.references[i]>>
        /\ file.entries[ResourcePath(WrittenPayload.weather)] = <<"file", request.weather>>

\* The modelIdentifier is a C identifier, as the standard requires, whatever the
\* overlay or the file calls the model (sanitize_identifier).
IdentifierIsC ==
    Built =>
        LET identifier == WrittenDescription.identifier
        IN  /\ Len(identifier) > 0 /\ Head(identifier) # "digit"
            /\ ToSet(identifier) \subseteq {"letter", "digit", "_"}

\* On the system of every platform asked for, an importer that looks for the
\* library by its modelIdentifier and the library that looks for its worker find
\* those of that platform's bundle, the two kinds of macOS in one directory
\* included (packaging.py and metadata.py, lib.rs:184-192).
RuntimesMatch ==
    Built =>
        \A platform \in ToSet(Platforms) :
            LET system == SystemOf(platform)
                library == <<"binaries", PlatformDirectory(system),
                             WrittenDescription.identifier, Suffix(platform)>>
                bundle == request.bundles[platform]
            IN  /\ file.entries[library] = <<"library", bundle.library>>
                /\ file.entries[SpawnedFrom(system)] = <<"worker", bundle.worker>>

\* What the alignment checks of host and worker take for granted of
\* ep2fmu-config.json: the stop time, and every full hour, lies a whole number of
\* zone steps after zero; and an importer that takes its stop time from
\* modelDescription.xml, where it has six digits, stops at that of the
\* configuration (metadata.py).
RunPeriodOnGrid ==
    Built =>
        /\ WrittenPayload.stop > 0
        /\ WrittenPayload.stop % WrittenPayload.step = 0
        /\ HourSeconds % WrittenPayload.step = 0
        /\ WrittenDescription.stop = WrittenPayload.stop

\* No command refuses anything but a request that is contradictory in itself or
\* one in whose environment something fails, a stage or EnergyPlus, at that command
\* or another: an overlay that moves a name from inputs to outputs is neither, nor
\* are two references to one file, nor the same runtime twice.  A weather file that
\* the model refers to as well counts as a contradiction.
RefusedForAReason ==
    LET files == ToSet(request.source.references) \cup ({request.weather} \ {None})
        mappings == request.source.objects \o Overlaid
        Repeats(sequence) == Cardinality(NamesIn(sequence)) # Len(sequence)
    IN  exception # None =>
            \/ request.failing # {}
            \/ request.energyplus # "supported"
            \/ request.source.version \notin {"26.1", "26.1.0"}
            \/ command = "inspect" /\ ~Built
            \/ command = "build" /\ ~BuildOptions
            \/ \E mapping \in ToSet(mappings) : ~WellFormed(mapping)
            \/ Repeats(request.source.objects) \/ Repeats(Overlaid) \/ mappings = <<>>
            \/ StepsPerHour \notin 1..HourSeconds \/ HourSeconds % StepsPerHour # 0
            \/ ~DatesExist
            \/ \E one, other \in files : one # other /\ one.name = other.name
            \/ request.weather \in ToSet(request.source.references)
            \/ \E one \in files : ResourcePath(one.name) \in {ConfigPath, ModelPath}
            \/ \E platform \in ToSet(Platforms) : request.bundles[platform] = None
            \/ {"darwin64", "darwinarm64"} \subseteq ToSet(Platforms)
                  /\ request.bundles["darwin64"] # request.bundles["darwinarm64"]

\* What goes wrong in a stage goes wrong each time, and in one way.
Steady ==
    \A one, other \in request.failing : one[1] = other[1] => one = other

\* What validate says is what build will do, if its options are in order and the
\* environment stays as it is: the same exit code, or a failure of a later stage, or
\* a traceback where validate reports an invalid model; and after doctor has found
\* nothing wrong neither complains about EnergyPlus (the two tables of cli.py, api.py).
VerdictsAgree ==
    /\ exits["validate"] # None /\ exits["build"] # None /\ BuildOptions /\ Steady =>
           \/ exits["build"] = exits["validate"]
           \/ exits["validate"] = 0 /\ exits["build"] \in {1, 6}
           \/ exits["validate"] = 2 /\ exits["build"] = 1
    /\ exits["doctor"] = 0 => {exits["validate"], exits["build"]} \cap {3, 4} = {}

\* The exit code of build tells what has become of the output file: there is a
\* new one, it may have been lost to a failing write, or it is as it was
\* (packaging.py:99-108).
FileAsReported ==
    exits["build"] # None =>
        \/ exits["build"] = 0 /\ Built
        \/ exits["build"] = 6 /\ (file = Untouched \/ file.state = "truncated")
        \/ exits["build"] \notin {0, 6} /\ file = Untouched

\* No build follows the inspection.
InspectsResult ==
    LET commands == request.commands
    IN  \A i, j \in DOMAIN commands :
            commands[i] = "build" /\ commands[j] = "inspect" => i < j

\* What inspect prints of a new archive is what was asked of build, and it accepts
\* no remains of a build that failed (inspection.py).
InspectionTruthful ==
    exits["inspect"] = 0 /\ InspectsResult =>
        /\ file.state \in {"older", "built"}
        /\ Built =>
           /\ report.platforms = {PlatformDirectory(SystemOf(p)) : p \in ToSet(Platforms)}
           /\ report.inputs + report.outputs = Cardinality(IntendedNames)
           /\ report.variables = ParameterCount + Cardinality(IntendedNames)
           /\ report.stop = RunPeriodDays * DaySeconds

-----------------------------------------------------------------------------
(* What the README says and the program does not do.                       *)

\* README.md:402-403: "the GUID is derived from normalized model data, configuration
\* and tool version": the members of the model's JSON objects have no order.
GuidIgnoresMemberOrder ==
    guid # None => \A i, j \in DOMAIN request.source.objects :
        LET objects == request.source.objects
            source == [request.source EXCEPT !.objects =
                          [objects EXCEPT ![i] = objects[j], ![j] = objects[i]]]
            other == MergeConfigs(ExtractLegacy(source.objects), request.overlay)
            packed == [files |-> model.files] ++ source
        IN  GuidOf(TransformModel(packed, other), other) = guid

\* With an overlay the program keeps to that, whatever the kinds of the objects and
\* whichever of them it replaces: merge_configs sorts what extract_legacy_config has
\* found in the order of the members (config.py, metadata.py).
GuidIgnoresOrderUnderOverlay == request.overlay # None => GuidIgnoresMemberOrder

\* README.md:329-331: "It adds the required constant schedules and EMS globals
\* while preserving EMS actuator aliases found in the model."
AliasesPreserved ==
    Built => \A object \in ToSet(request.source.objects) :
                object.kind = "actuator" => object.alias \in WrittenModel.globals

\* README.md:170: "Missing files and archive-name collisions are reported before
\* packaging."  The entries are those of the exporter, and none is below another.
CollisionsReported ==
    Built => /\ file.entries[ModelPath][1] = "model"
             /\ file.entries[ConfigPath][1] = "config"
             /\ \A one, other \in DOMAIN file.entries :
                    one # other => ~IsPrefix(one, other)

\* README.md:206-215: "CLI failures use stable exit codes", 2 to 6.
ExitCodesAreDocumented ==
    \A name \in CommandNames : exits[name] \in {None, 0, 2, 3, 4, 5, 6}
=============================================================================
