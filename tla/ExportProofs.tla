----------------------------- MODULE ExportProofs -----------------------------
(***************************************************************************)
(* What the archive of any build is made of, whatever the model, the       *)
(* options and the environment: its runtimes, its files and its run        *)
(* period; and what the exit code of build says of the output file.        *)
(***************************************************************************)
EXTENDS Export, TLAPS

\* The stages both validate and build go through, those of build alone, and those
\* that come after a stage both go through.
SharedStages == {"options", "weather", "convert", "load", "resources", "version", "extract",
                 "overlay", "merge", "transform", "timing", "guid"}
BuildStages == {"assets", "assemble", "open", "write"}
PastTiming == {"guid"} \cup BuildStages
PastResources == {"version", "extract", "overlay", "merge", "transform", "timing"}
                    \cup PastTiming
PastOptions == {"weather", "energyplus", "convert", "load", "resources"} \cup PastResources

\* Which command is at which stage.
Control ==
    /\ request \in Requests
    /\ todo \in Seq(CommandNames)
    /\ stage \in Stages \cup {"done", "failed", "over"}
    /\ stage = "over" <=> todo = <<>>
    /\ stage = "failed" => exception \in Exceptions
    /\ stage # "failed" => exception = None
    /\ stage \in SharedStages => command \in {"validate", "build"}
    /\ stage = "energyplus" => command \in {"doctor", "validate", "build"}
    /\ stage = "library" => command = "doctor"
    /\ stage \in BuildStages => command = "build"
    /\ stage = "inspect" => command = "inspect"

\* What the stages before have made of the request.
Collected ==
    LET references == request.source.references
    IN  /\ \A one, other \in ToSet(references) : one.name = other.name => one = other
        /\ resources = [name \in {f.name : f \in ToSet(references)} |->
                           CHOOSE f \in ToSet(references) : f.name = name]
        /\ model.files = [i \in DOMAIN references |-> references[i].name]

Timed ==
    /\ StepsFit /\ DatesExist
    /\ timing = [step |-> HourSeconds \div StepsPerHour, stop |-> RunPeriodDays * DaySeconds]

Prepared ==
    /\ stage \in PastOptions /\ command = "build" => BuildOptions
    /\ stage = "resources" => model = request.source
    /\ stage \in PastResources => Collected
    /\ stage \in PastTiming => Timed
    /\ stage \in {"open", "write"} => ~Collisions

\* The output file before, during and after a build.
Writing ==
    \/ stage = "write"
    \/ stage \in {"done", "failed"} /\ command = "build"

Filed ==
    /\ exits \in [CommandNames -> 0..6 \cup {None}]
    /\ IsInjective(todo)
    /\ \A i \in DOMAIN todo : exits[todo[i]] = None
    /\ exits["build"] = None /\ ~Writing => file = Untouched
    /\ stage = "write" => file.state = "truncated"
    /\ stage = "done" /\ command = "build" => Built
    /\ stage = "failed" /\ command = "build" =>
           \/ file = Untouched
           \/ exception = "PackagingError" /\ file.state = "truncated"
    /\ FileAsReported

-----------------------------------------------------------------------------
(* Definitions by cases, and what a request is.                            *)

LEMMA FirstStageOf ==
    /\ FirstStage("doctor") = "energyplus"
    /\ FirstStage("validate") = "options"
    /\ FirstStage("build") = "options"
    /\ FirstStage("inspect") = "inspect"
  BY Zenon DEF FirstStage

LEMMA FailuresTyped ==
    \A failure \in Failures :
        /\ failure[1] \in Stages
        /\ failure[2] \in Exceptions
        /\ failure[2] \notin {"EnergyPlusNotFoundError", "EnergyPlusVersionError"}
        /\ failure[1] \in {"assets", "assemble", "open", "write"} =>
               failure[2] \in {"PackagingError", "ValueError", "OtherError"}
        /\ failure[1] = "write" => failure[2] = "PackagingError"
  <1>1. ASSUME NEW failure \in Failures
        PROVE  \E error \in DOMAIN FailingStages :
                  \E at \in FailingStages[error] : failure = <<at, error>>
    BY DEF Failures
  <1>2. DOMAIN FailingStages = {"BadParameter", "InvalidInputError", "MappingError",
                                "PackagingError", "ValueError", "OtherError"}
    BY DEF FailingStages
  <1>3. /\ FailingStages["BadParameter"] \subseteq Stages \ BuildStages
        /\ FailingStages["InvalidInputError"] \subseteq Stages \ BuildStages
        /\ FailingStages["MappingError"] \subseteq Stages \ BuildStages
        /\ FailingStages["PackagingError"] \subseteq Stages
        /\ FailingStages["ValueError"] \subseteq Stages \ {"write"}
        /\ FailingStages["OtherError"] \subseteq Stages \ {"write"}
    BY DEF FailingStages, Stages, BuildStages
  <1>. QED BY <1>1, <1>2, <1>3 DEF Exceptions, BuildStages

LEMMA CommandsGiven ==
    ASSUME NEW r \in Requests
    PROVE  r.commands \in Seq(CommandNames) /\ r.commands # <<>> /\ IsInjective(r.commands)
  BY RequestsAssumption

LEMMA StateBefore ==
    ASSUME NEW r \in Requests
    PROVE  r.file \in {"none", "older"} /\ r.source.timestep \in Nat \cup {None}
  BY RequestsAssumption

-----------------------------------------------------------------------------
(* The control of a session.                                               *)

LEMMA InitControl == Init => Control
  <1> SUFFICES ASSUME Init PROVE Control
    OBVIOUS
  <1>1. /\ request.commands \in Seq(CommandNames)
        /\ request.commands # <<>>
    BY RequestsAssumption DEF Init
  <1>2. request \in Requests /\ todo = request.commands /\ stage = FirstStage(command)
    BY DEF Init
  <1>3. command \in CommandNames
    BY <1>1, <1>2 DEF command
  <1>4. /\ stage \in {"energyplus", "options", "inspect"}
        /\ exception = None
        /\ stage = "energyplus" => command = "doctor"
        /\ stage = "options" => command \in {"validate", "build"}
        /\ stage = "inspect" => command = "inspect"
    BY <1>2, <1>3, FirstStageOf DEF Init, CommandNames
  <1>5. QED
    BY <1>1, <1>2, <1>4 DEF Control, Stages, SharedStages, BuildStages

LEMMA RaiseControl ==
    ASSUME Control, NEW error \in Exceptions, Raise(error), stage # "over"
    PROVE Control'
  BY DEF Control, Raise, command, Stages, SharedStages, BuildStages

LEMMA StageControl ==
    ASSUME Control, Next, ~Exit
    PROVE Control'
  <1> USE DEF Control, Pass, Advance, Refuse, Raise, command, Stages, SharedStages,
              BuildStages, Exceptions
  <1>1. CASE CheckOptions
    BY <1>1 DEF CheckOptions
  <1>2. CASE CheckWeather
    BY <1>2 DEF CheckWeather
  <1>3. CASE ResolveEnergyPlus
    BY <1>3 DEF ResolveEnergyPlus
  <1>4. CASE CheckLibrary
    BY <1>4 DEF CheckLibrary
  <1>5. CASE ConvertModel
    BY <1>5 DEF ConvertModel
  <1>6. CASE LoadModel
    BY <1>6 DEF LoadModel
  <1>7. CASE CollectResources
    BY <1>7 DEF CollectResources
  <1>8. CASE CheckVersion
    BY <1>8 DEF CheckVersion
  <1>9. CASE Extract
    BY <1>9 DEF Extract
  <1>10. CASE LoadOverlay
    BY <1>10 DEF LoadOverlay
  <1>11. CASE Merge
    BY <1>11 DEF Merge
  <1>12. CASE Transform
    BY <1>12 DEF Transform
  <1>13. CASE Time
    BY <1>13 DEF Time
  <1>14. CASE Identify
    BY <1>14 DEF Identify
  <1>15. CASE LoadAssets
    BY <1>15 DEF LoadAssets
  <1>16. CASE Assemble
    BY <1>16 DEF Assemble
  <1>17. CASE OpenFile
    BY <1>17 DEF OpenFile
  <1>18. CASE WriteFile
    BY <1>18 DEF WriteFile
  <1>19. CASE Inspect
    BY <1>19 DEF Inspect
  <1>20. CASE StageFails
    <2>1. PICK failure \in request.failing : failure[1] = stage /\ Raise(failure[2])
      BY <1>20 DEF StageFails
    <2>2. failure \in Failures
      BY RequestsAssumption
    <2>3. failure[1] \in Stages /\ failure[2] \in Exceptions
      BY <2>2, FailuresTyped
    <2>4. QED
      BY <2>1, <2>3, RaiseControl
  <1>21. QED
    BY <1>1, <1>2, <1>3, <1>4, <1>5, <1>6, <1>7, <1>8, <1>9, <1>10, <1>11, <1>12, <1>13,
       <1>14, <1>15, <1>16, <1>17, <1>18, <1>19, <1>20 DEF Next

\* The next command begins with its own first stage.
LEMMA NextCommand ==
    ASSUME Control, Exit
    PROVE /\ todo' \in Seq(CommandNames)
          /\ \/ stage' = "over" /\ todo' = <<>>
             \/ /\ todo' # <<>>
                /\ \/ stage' = "energyplus" /\ command' = "doctor"
                   \/ stage' = "options" /\ command' \in {"validate", "build"}
                   \/ stage' = "inspect" /\ command' = "inspect"
  <1>1. todo # <<>> /\ todo' = Tail(todo)
    BY DEF Control, Exit
  <1>2. todo' \in Seq(CommandNames)
    BY <1>1 DEF Control
  <1>3. CASE todo' = <<>>
    BY <1>1, <1>2, <1>3 DEF Exit
  <1>4. CASE todo' # <<>>
    <2>1. command' \in CommandNames
      BY <1>2, <1>4 DEF command
    <2>2. stage' = FirstStage(command')
      BY <1>1, <1>4 DEF Exit, command
    <2>3. QED
      BY <1>2, <1>4, <2>1, <2>2, FirstStageOf DEF CommandNames
  <1>5. QED
    BY <1>3, <1>4

LEMMA ExitControl ==
    ASSUME Control, Exit
    PROVE Control'
  <1>1. request' = request /\ exception' = None
    BY DEF Exit
  <1>2. QED
    BY <1>1, NextCommand DEF Control, Stages, SharedStages, BuildStages

LEMMA NextControl ==
    ASSUME Control, [Next]_vars
    PROVE Control'
  <1>1. CASE UNCHANGED vars
    BY <1>1 DEF vars, Control, command
  <1>2. QED
    BY <1>1, StageControl, ExitControl

-----------------------------------------------------------------------------
(* The stages of validate and build.                                       *)

\* Functions of the request.
LEMMA RequestUnchanged ==
    ASSUME UNCHANGED request
    PROVE /\ BuildOptions' = BuildOptions
          /\ StepsFit' = StepsFit
          /\ DatesExist' = DatesExist
          /\ StepsPerHour' = StepsPerHour
          /\ RunPeriodDays' = RunPeriodDays
          /\ Platforms' = Platforms
          /\ Identifier' = Identifier
          /\ \A platform : Runtimes(platform)' = Runtimes(platform)
  BY DEF BuildOptions, Platforms, Selectors, StepsFit, StepsPerHour, DatesExist,
         RunPeriodDays, Identifier, ModelNamed, Runtimes

LEMMA CollectedUnchanged ==
    ASSUME UNCHANGED <<request, resources, model>>
    PROVE Collected' = Collected
  BY DEF Collected

LEMMA TimedUnchanged ==
    ASSUME UNCHANGED <<request, timing>>
    PROVE Timed' = Timed
  BY RequestUnchanged DEF Timed

\* Collisions are those of the request and of what has been prepared.
LEMMA CollisionsUnchanged ==
    ASSUME UNCHANGED <<request, prepared>>
    PROVE Collisions' = Collisions
  BY RequestUnchanged DEF prepared, Collisions, Taken, Base, Description, Payload

LEMMA TransformKeepsFiles ==
    ASSUME NEW source, NEW resolved
    PROVE TransformModel(source, resolved).files = source.files
  BY DEF TransformModel

LEMMA InitPrepared == Init => Prepared
  <1> SUFFICES ASSUME Init PROVE Prepared
    OBVIOUS
  <1>1. command \in CommandNames
    BY CommandsGiven DEF Init, command
  <1>2. \/ stage = "energyplus" /\ command = "doctor"
        \/ stage \in {"options", "inspect"}
    BY <1>1, FirstStageOf DEF Init, CommandNames
  <1>3. QED
    BY <1>2 DEF Prepared, PastOptions, PastResources, PastTiming, BuildStages

LEMMA RaisePrepared ==
    ASSUME NEW error, Raise(error)
    PROVE Prepared'
  BY DEF Raise, Prepared, PastOptions, PastResources, PastTiming, BuildStages

LEMMA ExitPrepared ==
    ASSUME Control, Exit
    PROVE Prepared'
  BY NextCommand DEF Prepared, PastOptions, PastResources, PastTiming, BuildStages

\* Stages that leave what has been prepared as it is.
LEMMA PassPrepared ==
    ASSUME Prepared, UNCHANGED <<prepared, todo>>,
           NEW from, NEW to, Advance(from, to),
           from = "options" /\ command = "build" => BuildOptions,
           from \in PastOptions \cup {"options"} \/ to \notin PastOptions,
           to # "resources",
           to \in PastResources => from \in PastResources,
           to \in PastTiming => from \in PastTiming,
           to = "open" => ~Collisions,
           to = "write" => from = "open"
    PROVE Prepared'
  <1>1. UNCHANGED <<request, resources, model, timing>> /\ command' = command
        /\ stage = from /\ stage' = to
    BY DEF Advance, prepared, command
  <1>2. /\ BuildOptions' = BuildOptions /\ Collected' = Collected
        /\ Timed' = Timed /\ Collisions' = Collisions
    BY <1>1, RequestUnchanged, CollectedUnchanged, TimedUnchanged, CollisionsUnchanged
  <1>3. QED
    BY <1>1, <1>2 DEF Prepared, PastOptions, PastResources, PastTiming, BuildStages

LEMMA CollectPrepared ==
    ASSUME Prepared, CollectResources, stage' # "failed"
    PROVE Prepared'
  <1>1. /\ stage = "resources" /\ stage' = "version" /\ ~ResourcesClash
        /\ UNCHANGED <<request, todo>> /\ model = request.source
    BY DEF CollectResources, Advance, Refuse, Raise, Prepared
  <1> DEFINE references == request.source.references
             files == [i \in DOMAIN references |-> references[i].name]
  <1>2. /\ resources' = [name \in {f.name : f \in ToSet(references)} |->
                             CHOOSE f \in ToSet(references) : f.name = name]
        /\ model' = [files |-> files] ++ model
    BY <1>1 DEF CollectResources, Refuse, Raise
  <1>3. model'.files = files
    <2> HIDE DEF files
    <2>1. QED
      BY <1>2 DEF ++
  <1>4. \A one, other \in ToSet(references) : one.name = other.name => one = other
    BY <1>1 DEF ResourcesClash
  <1>5. Collected'
    BY <1>1, <1>2, <1>3, <1>4 DEF Collected
  <1>6. command = "build" => BuildOptions
    BY <1>1 DEF Prepared, PastOptions
  <1>7. QED
    BY <1>1, <1>5, <1>6, RequestUnchanged
    DEF Prepared, PastTiming, BuildStages, command

LEMMA TransformPrepared ==
    ASSUME Prepared, Transform
    PROVE Prepared'
  <1>1. /\ stage = "transform" /\ stage' = "timing"
        /\ UNCHANGED <<request, todo, resources>>
        /\ model' = TransformModel(model, config)
    BY DEF Transform, Advance
  <1>2. model'.files = model.files
    BY <1>1, TransformKeepsFiles
  <1>3. Collected
    BY <1>1 DEF Prepared, PastResources
  <1>4. Collected'
    BY <1>1, <1>2, <1>3 DEF Collected
  <1>5. command = "build" => BuildOptions
    BY <1>1 DEF Prepared, PastOptions, PastResources
  <1>6. QED
    BY <1>1, <1>4, <1>5, RequestUnchanged DEF Prepared, PastTiming, BuildStages, command

LEMMA TimePrepared ==
    ASSUME Prepared, Time, stage' # "failed"
    PROVE Prepared'
  <1>1. /\ stage = "timing" /\ stage' = "guid" /\ StepsFit /\ DatesExist
        /\ UNCHANGED <<request, todo, resources, model>>
        /\ timing' = [step |-> HourSeconds \div StepsPerHour,
                      stop |-> RunPeriodDays * DaySeconds]
    BY DEF Time, Advance, Refuse, Raise
  <1>2. Timed'
    BY <1>1, RequestUnchanged DEF Timed, HourSeconds, DaySeconds
  <1>3. Collected'
    BY <1>1, CollectedUnchanged DEF Prepared, PastResources
  <1>4. command = "build" => BuildOptions
    BY <1>1 DEF Prepared, PastOptions, PastResources
  <1>5. QED
    BY <1>1, <1>2, <1>3, <1>4, RequestUnchanged DEF Prepared, command

LEMMA IdentifyPrepared ==
    ASSUME Prepared, Identify
    PROVE Prepared'
  <1>1. /\ stage = "guid" /\ stage' \in {"done", "assets"}
        /\ UNCHANGED <<request, todo, resources, model, timing>>
    BY DEF Identify, Advance
  <1>2. Timed' /\ Collected'
    BY <1>1, CollectedUnchanged, TimedUnchanged DEF Prepared, PastResources, PastTiming
  <1>3. command = "build" => BuildOptions
    BY <1>1 DEF Prepared, PastOptions, PastResources, PastTiming
  <1>4. QED
    BY <1>1, <1>2, <1>3, RequestUnchanged DEF Prepared, command

\* Stages that change the configuration alone.
LEMMA ConfigPrepared ==
    ASSUME Prepared, Extract \/ Merge, stage' # "failed"
    PROVE Prepared'
  <1>1. /\ stage \in {"extract", "merge"} /\ stage' \in {"overlay", "transform"}
        /\ UNCHANGED <<request, todo, resources, model>>
    BY DEF Extract, Merge, Advance, Refuse, Raise
  <1>2. Collected'
    BY <1>1, CollectedUnchanged DEF Prepared, PastResources
  <1>3. command = "build" => BuildOptions
    BY <1>1 DEF Prepared, PastOptions, PastResources
  <1>4. QED
    BY <1>1, <1>2, <1>3, RequestUnchanged DEF Prepared, PastTiming, BuildStages, command

LEMMA LoadPrepared ==
    ASSUME Prepared, LoadModel
    PROVE Prepared'
  <1>1. /\ stage = "load" /\ stage' = "resources" /\ UNCHANGED <<request, todo>>
        /\ model' = request.source
    BY DEF LoadModel, Advance
  <1>2. command = "build" => BuildOptions
    BY <1>1 DEF Prepared, PastOptions
  <1>3. QED
    BY <1>1, <1>2, RequestUnchanged
    DEF Prepared, PastResources, PastTiming, BuildStages, command

LEMMA StagePrepared ==
    ASSUME Control, Prepared, Next, ~Exit, stage' # "failed"
    PROVE Prepared'
  <1> DEFINE Goes(from, to) ==
                /\ UNCHANGED <<prepared, todo>>
                /\ Advance(from, to)
                /\ from = "options" /\ command = "build" => BuildOptions
                /\ from \in PastOptions \cup {"options"} \/ to \notin PastOptions
                /\ to # "resources"
                /\ to \in PastResources => from \in PastResources
                /\ to \in PastTiming => from \in PastTiming
                /\ to = "open" => ~Collisions
                /\ to = "write" => from = "open"
  <1> USE DEF Pass, Refuse, Raise, Advance, PastOptions, PastResources, PastTiming, BuildStages
  <1>1. CASE CheckOptions
    <2>1. Goes("options", "weather")
      BY <1>1 DEF CheckOptions
    <2>2. QED
      BY <2>1, PassPrepared
  <1>2. CASE CheckWeather
    <2>1. Goes("weather", "energyplus")
      BY <1>2 DEF CheckWeather
    <2>2. QED
      BY <2>1, PassPrepared
  <1>3. CASE CheckLibrary
    <2>1. Goes("library", "done")
      BY <1>3 DEF CheckLibrary
    <2>2. QED
      BY <2>1, PassPrepared
  <1>4. CASE ConvertModel
    <2>1. Goes("convert", "load")
      BY <1>4 DEF ConvertModel
    <2>2. QED
      BY <2>1, PassPrepared
  <1>5. CASE CheckVersion
    <2>1. Goes("version", "extract")
      BY <1>5 DEF CheckVersion
    <2>2. QED
      BY <2>1, PassPrepared
  <1>6. CASE LoadOverlay
    <2>1. Goes("overlay", "merge")
      BY <1>6 DEF LoadOverlay
    <2>2. QED
      BY <2>1, PassPrepared
  <1>7. CASE LoadAssets
    <2>1. Goes("assets", "assemble")
      BY <1>7 DEF LoadAssets
    <2>2. QED
      BY <2>1, PassPrepared
  <1>8. CASE Assemble
    <2>1. Goes("assemble", "open")
      BY <1>8 DEF Assemble
    <2>2. QED
      BY <2>1, PassPrepared
  <1>9. CASE OpenFile
    <2>1. Goes("open", "write")
      BY <1>9 DEF OpenFile
    <2>2. QED
      BY <2>1, PassPrepared
  <1>10. CASE WriteFile
    <2>1. Goes("write", "done")
      BY <1>10 DEF WriteFile
    <2>2. QED
      BY <2>1, PassPrepared
  <1>11. CASE Inspect
    <2>1. Goes("inspect", "done")
      BY <1>11 DEF Inspect
    <2>2. QED
      BY <2>1, PassPrepared
  <1>12. CASE ResolveEnergyPlus
    <2>1. Goes("energyplus", "library") \/ Goes("energyplus", "convert")
      BY <1>12 DEF ResolveEnergyPlus
    <2>2. QED
      BY <2>1, PassPrepared
  <1>13. CASE StageFails
    BY <1>13 DEF StageFails
  <1>14. QED
    BY <1>1, <1>2, <1>3, <1>4, <1>5, <1>6, <1>7, <1>8, <1>9, <1>10, <1>11, <1>12, <1>13,
       LoadPrepared, CollectPrepared, ConfigPrepared, TransformPrepared, TimePrepared,
       IdentifyPrepared DEF Next

-----------------------------------------------------------------------------
(* The output file.                                                        *)

LEMMA ExitCodes ==
    /\ ExitCode(None) = 0
    /\ ExitCode("InvalidInputError") = 2 /\ ExitCode("BadParameter") = 2
    /\ ExitCode("EnergyPlusNotFoundError") = 3 /\ ExitCode("EnergyPlusVersionError") = 4
    /\ ExitCode("MappingError") = 5 /\ ExitCode("PackagingError") = 6
    /\ ExitCode("ValueError") = 1 /\ ExitCode("OtherError") = 1
  <1>1. /\ "InvalidInputError" # None
        /\ "BadParameter" # None
        /\ "EnergyPlusNotFoundError" # None
        /\ "EnergyPlusVersionError" # None
        /\ "MappingError" # None
        /\ "PackagingError" # None
        /\ "ValueError" # None
        /\ "OtherError" # None
    BY NoneAssumption DEF Exceptions
  <1>2. ExitCode(None) = 0
    BY <1>1, Zenon DEF ExitCode
  <1>3. ExitCode("InvalidInputError") = 2
    BY <1>1, Zenon DEF ExitCode
  <1>4. ExitCode("BadParameter") = 2
    BY <1>1, Zenon DEF ExitCode
  <1>5. ExitCode("EnergyPlusNotFoundError") = 3
    BY <1>1, Zenon DEF ExitCode
  <1>6. ExitCode("EnergyPlusVersionError") = 4
    BY <1>1, Zenon DEF ExitCode
  <1>7. ExitCode("MappingError") = 5
    BY <1>1, Zenon DEF ExitCode
  <1>8. ExitCode("PackagingError") = 6
    BY <1>1, Zenon DEF ExitCode
  <1>9. ExitCode("ValueError") = 1
    BY <1>1, Zenon DEF ExitCode
  <1>10. ExitCode("OtherError") = 1
    BY <1>1, Zenon DEF ExitCode
  <1>11. QED
    BY <1>2, <1>3, <1>4, <1>5, <1>6, <1>7, <1>8, <1>9, <1>10

LEMMA ExitCodeOf ==
    /\ ExitCode(None) = 0
    /\ \A error \in Exceptions : ExitCode(error) \in 1..6
    /\ \A error \in Exceptions : ExitCode(error) = 6 <=> error = "PackagingError"
  BY ExitCodes DEF Exceptions

LEMMA InitFiled == Init => Filed
  <1> SUFFICES ASSUME Init PROVE Filed
    OBVIOUS
  <1>1. todo \in Seq(CommandNames) /\ todo # <<>> /\ IsInjective(todo)
    BY CommandsGiven DEF Init
  <1>2. exits = [name \in CommandNames |-> None] /\ file = Untouched
    BY DEF Init
  <1>3. todo # <<>> /\ command \in CommandNames
    BY <1>1 DEF command
  <1>4. stage \in {"energyplus", "options", "inspect"}
    BY <1>3, FirstStageOf DEF Init, CommandNames
  <1>5. QED
    BY <1>1, <1>2, <1>4 DEF Filed, FileAsReported, CommandNames

\* Nothing has become of the file before its stages.
LEMMA UntouchedBefore ==
    ASSUME Control, Filed, stage \in Stages, command = "build", stage # "write"
    PROVE file = Untouched
  <1>1. todo # <<>> /\ todo[1] = "build"
    BY DEF Control, command, Stages
  <1>2. exits["build"] = None
    BY <1>1 DEF Filed, Control
  <1>3. QED
    BY <1>2 DEF Filed, Writing, Stages

LEMMA ReportUnchanged ==
    ASSUME UNCHANGED <<request, exits, file>>
    PROVE /\ FileAsReported' = FileAsReported
          /\ Untouched' = Untouched
          /\ Built' = Built
  BY DEF FileAsReported, Untouched, Built

LEMMA RaiseFiled ==
    ASSUME Control, Filed, NEW error, Raise(error), stage \in Stages,
           stage = "write" => error = "PackagingError"
    PROVE Filed'
  <1>1. /\ UNCHANGED <<request, todo, exits, file>> /\ command' = command
        /\ stage' = "failed" /\ exception' = error
    BY DEF Raise, product, command
  <1>2. command = "build" =>
            \/ file = Untouched
            \/ error = "PackagingError" /\ file.state = "truncated"
    BY UntouchedBefore DEF Filed
  <1>3. exits["build"] = None /\ command # "build" => file = Untouched
    BY DEF Filed, Writing, Control, Stages, BuildStages
  <1>4. QED
    BY <1>1, <1>2, <1>3, ReportUnchanged DEF Filed, Writing

\* A stage that leaves the file alone.
LEMMA AdvanceFiled ==
    ASSUME Control, Filed, UNCHANGED file, NEW from \in Stages, NEW to, Advance(from, to),
           from # "write", to \notin {"write", "failed"},
           to = "done" => command # "build"
    PROVE Filed'
  <1>1. /\ UNCHANGED <<request, todo, exits, file>> /\ command' = command
        /\ stage = from /\ stage' = to
    BY DEF Advance, command
  <1>2. exits["build"] = None => file = Untouched
    BY <1>1 DEF Filed, Writing, Stages
  <1>3. QED
    BY <1>1, <1>2, ReportUnchanged DEF Filed, Writing

LEMMA OpenFiled ==
    ASSUME Control, Filed, OpenFile
    PROVE Filed'
  <1>1. /\ UNCHANGED <<todo, exits>> /\ stage = "open" /\ stage' = "write"
        /\ file'.state = "truncated"
    BY DEF OpenFile, Advance
  <1>2. todo # <<>> /\ todo[1] = "build"
    BY <1>1 DEF Control, command, BuildStages, Stages
  <1>3. exits["build"] = None
    BY <1>2 DEF Control, Filed
  <1>4. QED
    BY <1>1, <1>3 DEF Filed, Writing, FileAsReported

LEMMA WriteFiled ==
    ASSUME Control, Filed, WriteFile
    PROVE Filed'
  <1>1. /\ UNCHANGED <<todo, exits>> /\ stage = "write" /\ stage' = "done"
        /\ file'.state = "built"
    BY DEF WriteFile, Advance
  <1>2. todo # <<>> /\ todo[1] = "build"
    BY <1>1 DEF Control, command, BuildStages, Stages
  <1>3. exits["build"] = None
    BY <1>2 DEF Control, Filed
  <1>4. QED
    BY <1>1, <1>2, <1>3 DEF Filed, Writing, FileAsReported, Built, command

LEMMA ExitFiled ==
    ASSUME Control, Filed, Exit
    PROVE Filed'
  <1>1. /\ todo # <<>> /\ todo' = Tail(todo) /\ todo \in Seq(CommandNames)
        /\ stage \in {"done", "failed"} /\ UNCHANGED <<request, file>>
    BY DEF Exit, Control, product
  <1>2. command \in CommandNames /\ command = todo[1]
    BY <1>1 DEF command
  <1> DEFINE code == IF command = "validate" THEN ValidateExitCode(exception)
                                             ELSE ExitCode(exception)
  <1>3. exits' = [exits EXCEPT ![command] = code]
    BY DEF Exit
  <1>4. code \in 0..6
    BY <1>1, ExitCodeOf DEF ValidateExitCode, Control
  <1>5. code # None
    BY <1>4, NoneAssumption
  <1>6. command = "build" =>
            \/ code = 0 /\ Built
            \/ code = 6 /\ (file = Untouched \/ file.state = "truncated")
            \/ code \notin {0, 6} /\ file = Untouched
    BY <1>1, ExitCodeOf DEF Control, Filed
  <1>7. exits["build"] = None /\ command # "build" => file = Untouched
    BY <1>1 DEF Filed, Writing
  <1> HIDE DEF code
  <1>8. exits' \in [CommandNames -> 0..6 \cup {None}]
    BY <1>2, <1>3, <1>4 DEF Filed
  <1>9. IsInjective(todo')
    BY <1>1 DEF Filed, IsInjective
  <1>10. \A i \in DOMAIN todo' : exits'[todo'[i]] = None
    BY <1>1, <1>2, <1>3 DEF Filed, IsInjective
  <1>11. FileAsReported' /\ (exits'["build"] = None => file' = Untouched')
    <2>1. Untouched' = Untouched /\ Built' = Built
      BY <1>1 DEF Untouched, Built
    <2>2. CASE command = "build"
      <3>1. exits'["build"] = code
        BY <1>3, <2>2 DEF Filed, CommandNames
      <3>2. exits'["build"] # None
        BY <1>5, <3>1
      <3>3. file' = file
        BY <1>1
      <3>4. FileAsReported'
        BY <1>6, <2>1, <2>2, <3>1, <3>3 DEF FileAsReported
      <3>5. QED
        BY <3>2, <3>4
    <2>3. CASE command # "build"
      <3>1. exits'["build"] = exits["build"]
        BY <1>3, <2>3 DEF Filed, CommandNames
      <3>2. QED
        BY <1>1, <1>7, <2>1, <2>3, <3>1 DEF Filed, FileAsReported
    <2>4. QED
      BY <2>2, <2>3
  <1>12. stage' \notin {"write", "done", "failed"}
    BY NextCommand
  <1>13. QED
    BY <1>8, <1>9, <1>10, <1>11, <1>12 DEF Filed, Writing

LEMMA StageFiled ==
    ASSUME Control, Filed, Next, ~Exit
    PROVE Filed'
  <1> DEFINE Goes(from, to) ==
                /\ UNCHANGED file
                /\ Advance(from, to)
                /\ from # "write"
                /\ to \notin {"write", "failed"}
                /\ to = "done" => command # "build"
             Stops == \E error : Raise(error) /\ stage \in Stages \ {"write"}
  <1>1. CASE Stops
    BY <1>1, RaiseFiled
  <1> USE DEF Pass, Refuse, product, Stages
  <1>2. CASE CheckOptions
    <2>1. Goes("options", "weather") \/ Stops
      BY <1>2 DEF CheckOptions
    <2>2. QED
      BY <1>1, <2>1, AdvanceFiled
  <1>3. CASE CheckWeather
    <2>1. Goes("weather", "energyplus")
      BY <1>3 DEF CheckWeather
    <2>2. QED
      BY <1>1, <2>1, AdvanceFiled
  <1>4. CASE CheckLibrary
    <2>1. Goes("library", "done") \/ Stops
      BY <1>4 DEF CheckLibrary, Control, Advance
    <2>2. QED
      BY <1>1, <2>1, AdvanceFiled
  <1>5. CASE ConvertModel
    <2>1. Goes("convert", "load")
      BY <1>5 DEF ConvertModel
    <2>2. QED
      BY <1>1, <2>1, AdvanceFiled
  <1>6. CASE LoadModel
    <2>1. Goes("load", "resources")
      BY <1>6 DEF LoadModel
    <2>2. QED
      BY <1>1, <2>1, AdvanceFiled
  <1>7. CASE CollectResources
    <2>1. Goes("resources", "version") \/ Stops
      BY <1>7 DEF CollectResources
    <2>2. QED
      BY <1>1, <2>1, AdvanceFiled
  <1>8. CASE CheckVersion
    <2>1. Goes("version", "extract") \/ Stops
      BY <1>8 DEF CheckVersion
    <2>2. QED
      BY <1>1, <2>1, AdvanceFiled
  <1>9. CASE Extract
    <2>1. Goes("extract", "overlay") \/ Stops
      BY <1>9 DEF Extract
    <2>2. QED
      BY <1>1, <2>1, AdvanceFiled
  <1>10. CASE LoadOverlay
    <2>1. Goes("overlay", "merge") \/ Stops
      BY <1>10 DEF LoadOverlay
    <2>2. QED
      BY <1>1, <2>1, AdvanceFiled
  <1>11. CASE Merge
    <2>1. Goes("merge", "transform") \/ Stops
      BY <1>11 DEF Merge
    <2>2. QED
      BY <1>1, <2>1, AdvanceFiled
  <1>12. CASE Transform
    <2>1. Goes("transform", "timing")
      BY <1>12 DEF Transform
    <2>2. QED
      BY <1>1, <2>1, AdvanceFiled
  <1>13. CASE Time
    <2>1. Goes("timing", "guid") \/ Stops
      BY <1>13 DEF Time
    <2>2. QED
      BY <1>1, <2>1, AdvanceFiled
  <1>14. CASE LoadAssets
    <2>1. Goes("assets", "assemble") \/ Stops
      BY <1>14 DEF LoadAssets
    <2>2. QED
      BY <1>1, <2>1, AdvanceFiled
  <1>15. CASE Assemble
    <2>1. Goes("assemble", "open") \/ Stops
      BY <1>15 DEF Assemble
    <2>2. QED
      BY <1>1, <2>1, AdvanceFiled
  <1>16. CASE Inspect
    <2>1. Goes("inspect", "done") \/ Stops
      BY <1>16 DEF Inspect, Control, Advance
    <2>2. QED
      BY <1>1, <2>1, AdvanceFiled
  <1>17. CASE ResolveEnergyPlus
    <2>1. Goes("energyplus", "library") \/ Goes("energyplus", "convert") \/ Stops
      BY <1>17 DEF ResolveEnergyPlus
    <2>2. QED
      BY <1>1, <2>1, AdvanceFiled
  <1>18. CASE Identify
    <2>1. Goes("guid", "done") \/ Goes("guid", "assets")
      BY <1>18 DEF Identify
    <2>2. QED
      BY <2>1, AdvanceFiled
  <1>19. CASE StageFails
    <2>1. PICK failure \in request.failing : failure[1] = stage /\ Raise(failure[2])
      BY <1>19 DEF StageFails
    <2>2. failure \in Failures
      BY RequestsAssumption DEF Control
    <2>3. stage \in Stages /\ (stage = "write" => failure[2] = "PackagingError")
      BY <2>1, <2>2, FailuresTyped
    <2>4. QED
      BY <2>1, <2>3, RaiseFiled
  <1>20. QED
    BY <1>2, <1>3, <1>4, <1>5, <1>6, <1>7, <1>8, <1>9, <1>10, <1>11, <1>12,
       <1>13, <1>14, <1>15, <1>16, <1>17, <1>18, <1>19,
       OpenFiled, WriteFiled DEF Next

LEMMA NextFiled ==
    ASSUME Control, Filed, [Next]_vars
    PROVE Filed'
  <1>1. CASE UNCHANGED vars
    BY <1>1, ReportUnchanged DEF vars, product, Filed, Writing, command
  <1>2. QED
    BY <1>1, StageFiled, ExitFiled

-----------------------------------------------------------------------------
(* The archive.                                                            *)

\* A weather file that has no other file's name; CollisionsReported is about those
\* that have.
OrdinaryWeather ==
    request.weather # None =>
        ResourcePath(request.weather.name) \notin {ConfigPath, ModelPath}

Contents ==
    /\ RuntimesMatch
    /\ OrdinaryWeather => FilesResolve /\ RunPeriodOnGrid

LEMMA OverFirst ==
    ASSUME NEW f, NEW g, NEW x \in DOMAIN f
    PROVE x \in DOMAIN (f ++ g) /\ (f ++ g)[x] = f[x]
  BY DEF ++

LEMMA OverSecond ==
    ASSUME NEW f, NEW g, NEW x \in DOMAIN g, x \notin DOMAIN f
    PROVE x \in DOMAIN (f ++ g) /\ (f ++ g)[x] = g[x]
  BY DEF ++

\* The entries of the exporter are under these names ...
LEMMA BaseOf ==
    ASSUME NEW description, NEW parsed, NEW payload, NEW weather
    PROVE LET base == BaseEntries(description, parsed, payload, weather)
          IN  /\ {DescriptionPath, ConfigPath, ModelPath} \subseteq DOMAIN base
              /\ base[DescriptionPath] = <<"description", description>>
              /\ (weather # None => ResourcePath(weather.name) \notin {ConfigPath, ModelPath}) =>
                     /\ base[ConfigPath] = <<"config", payload>>
                     /\ base[ModelPath] = <<"model", parsed>>
              /\ weather # None =>
                     /\ ResourcePath(weather.name) \in DOMAIN base
                     /\ base[ResourcePath(weather.name)] = <<"file", weather>>
  <1> DEFINE entries == [path \in {DescriptionPath, ConfigPath, ModelPath} |->
                            CASE path = DescriptionPath -> <<"description", description>>
                              [] path = ConfigPath -> <<"config", payload>>
                              [] path = ModelPath -> <<"model", parsed>>]
             replaced == [path \in {ResourcePath(weather.name)} |-> <<"file", weather>>]
  <1>1. /\ DescriptionPath # ConfigPath /\ DescriptionPath # ModelPath
        /\ ConfigPath # ModelPath /\ DescriptionPath # ResourcePath(weather.name)
    BY DEF DescriptionPath, ConfigPath, ModelPath, ResourcePath
  <1>2. /\ DOMAIN entries = {DescriptionPath, ConfigPath, ModelPath}
        /\ entries[DescriptionPath] = <<"description", description>>
        /\ entries[ConfigPath] = <<"config", payload>>
        /\ entries[ModelPath] = <<"model", parsed>>
    BY <1>1, Zenon
  <1>3. /\ DOMAIN replaced = {ResourcePath(weather.name)}
        /\ replaced[ResourcePath(weather.name)] = <<"file", weather>>
    OBVIOUS
  <1>4. BaseEntries(description, parsed, payload, weather) =
            IF weather = None THEN entries ELSE replaced ++ entries
    BY Zenon DEF BaseEntries
  <1> HIDE DEF entries, replaced
  <1>5. QED
    BY <1>1, <1>2, <1>3, <1>4 DEF ++

\* ... and each of the three kinds of entries is where the others are not.
RuntimePart ==
    [path \in UNION {DOMAIN Runtimes(platform) : platform \in ToSet(Platforms)} |->
        LET platform == CHOOSE p \in ToSet(Platforms) : path \in DOMAIN Runtimes(p)
        IN  Runtimes(platform)[path]]

LEMMA RuntimesOf ==
    ASSUME NEW platform
    PROVE LET library == LibraryPath(platform, Identifier)
              worker == WorkerPath(platform)
          IN  /\ DOMAIN Runtimes(platform) = {library, worker}
              /\ Runtimes(platform)[library] =
                     <<"library", request.bundles[platform].library>>
              /\ Runtimes(platform)[worker] = <<"worker", request.bundles[platform].worker>>
  <1>1. LibraryPath(platform, Identifier) # WorkerPath(platform)
    BY DEF LibraryPath, WorkerPath
  <1>2. QED
    BY <1>1 DEF Runtimes, RuntimeEntries

LEMMA RuntimePaths ==
    ASSUME NEW path \in DOMAIN RuntimePart
    PROVE /\ path # DescriptionPath
          /\ \A name : path # ResourcePath(name)
  <1>1. PICK platform \in ToSet(Platforms) : path \in DOMAIN Runtimes(platform)
    BY DEF RuntimePart
  <1>2. path \in {LibraryPath(platform, Identifier), WorkerPath(platform)}
    BY <1>1, RuntimesOf
  <1>3. QED
    BY <1>2 DEF LibraryPath, WorkerPath, DescriptionPath, ResourcePath

LEMMA EntriesOf ==
    ASSUME ~Collisions
    PROVE /\ \A path \in DOMAIN RuntimePart : Entries[path] = RuntimePart[path]
          /\ \A name \in DOMAIN resources :
                 /\ ResourcePath(name) \notin DOMAIN Base
                 /\ Entries[ResourcePath(name)] = <<"file", resources[name]>>
          /\ Entries[DescriptionPath] = Base[DescriptionPath]
          /\ \A name : ResourcePath(name) \in DOMAIN Base =>
                 Entries[ResourcePath(name)] = Base[ResourcePath(name)]
  <1> DEFINE kept == ResourceEntries(resources)
  <1>1. Entries = (RuntimePart ++ kept) ++ Base
    BY DEF Entries, RuntimePart
  <1>2. /\ DOMAIN kept = {ResourcePath(name) : name \in DOMAIN resources}
        /\ \A name \in DOMAIN resources : kept[ResourcePath(name)] = <<"file", resources[name]>>
    BY DEF ResourceEntries, ResourcePath
  <1>3. \A path \in DOMAIN kept : path \notin DOMAIN Base
    BY DEF Collisions, Taken
  <1>4. DescriptionPath \in DOMAIN Base /\ DescriptionPath \notin DOMAIN kept
    <2>1. DescriptionPath \in DOMAIN Base
      BY BaseOf DEF Base
    <2>2. QED
      BY <1>3, <2>1
  <1> HIDE DEF kept
  <1>5. \A path \in DOMAIN RuntimePart : Entries[path] = RuntimePart[path]
    BY <1>1, OverFirst
  <1>6. ASSUME NEW name \in DOMAIN resources
        PROVE /\ ResourcePath(name) \notin DOMAIN Base
              /\ Entries[ResourcePath(name)] = <<"file", resources[name]>>
    <2>1. ResourcePath(name) \in DOMAIN kept /\ ResourcePath(name) \notin DOMAIN RuntimePart
      BY <1>2, RuntimePaths
    <2>2. /\ ResourcePath(name) \in DOMAIN (RuntimePart ++ kept)
          /\ (RuntimePart ++ kept)[ResourcePath(name)] = kept[ResourcePath(name)]
      BY <2>1, OverSecond
    <2>3. Entries[ResourcePath(name)] = kept[ResourcePath(name)]
      BY <1>1, <2>2, OverFirst
    <2>4. QED
      BY <1>2, <1>3, <2>1, <2>3
  <1>7. ASSUME NEW path \in DOMAIN Base, path \notin DOMAIN RuntimePart
        PROVE Entries[path] = Base[path]
    <2>1. path \notin DOMAIN (RuntimePart ++ kept)
      BY <1>3, <1>7 DEF ++
    <2>2. QED
      BY <1>1, <2>1, OverSecond
  <1>8. Entries[DescriptionPath] = Base[DescriptionPath]
    BY <1>4, <1>7, RuntimePaths
  <1>9. \A name : ResourcePath(name) \in DOMAIN Base =>
            Entries[ResourcePath(name)] = Base[ResourcePath(name)]
    BY <1>7, RuntimePaths
  <1>10. QED
    BY <1>5, <1>6, <1>8, <1>9

-----------------------------------------------------------------------------
(* What the exporter writes.                                               *)

LEMMA DescriptionOf ==
    Description.identifier = Identifier /\ Description.stop = SixDigits(timing.stop)
  BY DEF Description, ModelDescription, ++

LEMMA PayloadOf ==
    /\ Payload.step = timing.step
    /\ Payload.stop = timing.stop
    /\ request.weather # None => Payload.weather = request.weather.name
  BY DEF Payload, MappingPayload, ++

-----------------------------------------------------------------------------
(* The run period.                                                         *)

LEMMA DivisorOf ==
    ASSUME NEW n \in Nat, NEW s \in Nat \ {0}, n % s = 0
    PROVE n = s * (n \div s)
  OBVIOUS

LEMMA MultipleOf ==
    ASSUME NEW k \in Nat \ {0}, NEW m \in Nat
    PROVE (k * m) % k = 0
  OBVIOUS

\* A run period has a year at most.
LEMMA DaysOf ==
    ASSUME Control, DatesExist
    PROVE RunPeriodDays \in 1..365
  <1> DEFINE periods == request.source.periods
             period == Head(periods)
             dates == 1..365 \cup {None}
  <1>1. CASE periods = <<>>
    BY <1>1 DEF RunPeriodDays, YearDays
  <1>2. CASE periods # <<>>
    <2>1. periods \in Seq([begin : dates, end : dates])
      BY RequestsAssumption DEF Control
    <2> DEFINE S == [begin : dates, end : dates]
    <2> HIDE DEF S
    <2>2. periods \in Seq(S) /\ periods # <<>> => period \in S
      OBVIOUS
    <2> USE DEF S
    <2>3. period.begin \in 1..365 /\ period.end \in 1..365
      BY <1>2, <2>1, <2>2 DEF DatesExist
    <2> DEFINE first == period.begin
               last == period.end
    <2>4. RunPeriodDays = last - first + 1 + (IF last < first THEN 365 ELSE 0)
      BY <1>2 DEF RunPeriodDays, YearDays
    <2>5. first \in 1..365 /\ last \in 1..365
      BY <2>3
    <2> HIDE DEF first, last
    <2>6. QED
      BY <2>4, <2>5
  <1>3. QED
    BY <1>1, <1>2

\* Whole days have no more than six digits before their zeros.
LEMMA SixDigitsOf ==
    ASSUME NEW days \in 1..365
    PROVE SixDigits(days * DaySeconds) = days * DaySeconds
  <1> DEFINE seconds == days * DaySeconds
             Fits(s) == seconds < 1000000 * s /\ (s = 1 \/ seconds >= 100000 * s)
             scale == CHOOSE s \in {1, 10, 100, 1000} : Fits(s)
  <1>1. seconds \in Nat /\ seconds < 100000000 /\ seconds = 86400 * days
    BY SMT DEF DaySeconds
  <1>2. \E s \in {1, 10, 100, 1000} : Fits(s)
    BY SMT, <1>1
  <1>5. SixDigits(seconds) = ((seconds + scale \div 2) \div scale) * scale
    BY SMT DEF SixDigits
  <1> DEFINE scales == {1, 10, 100, 1000}
  <1> HIDE DEF Fits, scales
  <1>3. (\E s \in scales : Fits(s)) => (CHOOSE s \in scales : Fits(s)) \in scales
                                     /\ Fits(CHOOSE s \in scales : Fits(s))
    BY Zenon
  <1>4. scale \in {1, 10, 100}
    BY SMT, <1>1, <1>2, <1>3 DEF Fits, scales
  <1> HIDE DEF scale
  <1>6. CASE scale = 1
    BY SMT, <1>1, <1>5, <1>6
  <1>7. CASE scale = 10
    BY SMT, <1>1, <1>5, <1>7
  <1>8. CASE scale = 100
    BY SMT, <1>1, <1>5, <1>8
  <1>9. QED
    BY SMT, <1>4, <1>6, <1>7, <1>8

\* The zone step divides the hour, and so the days.
LEMMA GridOf ==
    ASSUME Control, StepsFit, NEW days \in 1..365
    PROVE LET step == HourSeconds \div StepsPerHour
          IN  /\ HourSeconds % step = 0
              /\ (days * DaySeconds) % step = 0
  <1> DEFINE n == StepsPerHour
             step == HourSeconds \div StepsPerHour
             hours == 24 * days
  <1>1. n \in Nat \ {0} /\ HourSeconds % n = 0
    <2>1. request.source.timestep \in Nat \cup {None}
      BY StateBefore DEF Control
    <2>. QED BY SMT, <2>1 DEF StepsFit, StepsPerHour
  <1>2. HourSeconds \in Nat /\ HourSeconds # 0
    BY SMT DEF HourSeconds
  <1>3. HourSeconds = n * step
    BY <1>1, <1>2, DivisorOf
  <1>4. step \in Nat
    BY SMT, <1>1, <1>2
  <1>5. hours \in Nat /\ days * DaySeconds = HourSeconds * hours
    BY SMT DEF HourSeconds, DaySeconds
  <1> HIDE DEF n, step, hours
  <1>6. step # 0
    <2>1. n * 0 = 0
      BY <1>1
    <2>2. QED
      BY <1>2, <1>3, <2>1
  <1>7. HourSeconds = step * n
    BY <1>1, <1>3, <1>4
  <1>8. HourSeconds % step = 0
    <2>1. (step * n) % step = 0
      BY <1>1, <1>4, <1>6, MultipleOf
    <2>2. QED
      BY <1>7, <2>1
  <1>9. (days * DaySeconds) % step = 0
    <2>1. (step * n) * hours = step * (n * hours) /\ n * hours \in Nat
      BY SMT, <1>1, <1>4, <1>5
    <2>2. days * DaySeconds = step * (n * hours)
      BY <1>5, <1>7, <2>1
    <2>3. (step * (n * hours)) % step = 0
      BY <1>4, <1>6, <2>1, MultipleOf
    <2>4. QED
      BY <2>2, <2>3
  <1>10. QED
    BY <1>8, <1>9 DEF step

-----------------------------------------------------------------------------
(* The step that writes the archive.                                       *)

\* The three entries of the exporter, as the archive has them.
LEMMA OwnEntries ==
    ASSUME ~Collisions
    PROVE /\ Entries[DescriptionPath][2] = Description
          /\ OrdinaryWeather =>
                 /\ Entries[ConfigPath][2] = Payload
                 /\ Entries[ModelPath][2] = model
          /\ request.weather # None =>
                 Entries[ResourcePath(request.weather.name)] = <<"file", request.weather>>
  <1>1. /\ Base[DescriptionPath] = <<"description", Description>>
        /\ OrdinaryWeather => /\ Base[ConfigPath] = <<"config", Payload>>
                              /\ Base[ModelPath] = <<"model", model>>
        /\ {ConfigPath, ModelPath} \subseteq DOMAIN Base
        /\ request.weather # None =>
               /\ ResourcePath(request.weather.name) \in DOMAIN Base
               /\ Base[ResourcePath(request.weather.name)] = <<"file", request.weather>>
    BY BaseOf DEF Base, OrdinaryWeather
  <1>2. Entries[DescriptionPath] = Base[DescriptionPath]
    BY EntriesOf
  <1>3. /\ Entries[ConfigPath] = Base[ConfigPath]
        /\ Entries[ModelPath] = Base[ModelPath]
    BY <1>1, EntriesOf DEF ConfigPath, ModelPath
  <1>4. request.weather # None =>
            Entries[ResourcePath(request.weather.name)] = Base[ResourcePath(request.weather.name)]
    BY <1>1, EntriesOf
  <1>5. QED
    BY <1>1, <1>2, <1>3, <1>4

\* Each platform finds its runtime among those that agree.
LEMMA RuntimeEntriesOf ==
    ASSUME ~Collisions, NEW platform \in ToSet(Platforms)
    PROVE /\ Entries[LibraryPath(platform, Identifier)] =
                 <<"library", request.bundles[platform].library>>
          /\ Entries[WorkerPath(platform)] = <<"worker", request.bundles[platform].worker>>
  <1>1. ASSUME NEW path \in DOMAIN Runtimes(platform)
        PROVE Entries[path] = Runtimes(platform)[path]
    <2> DEFINE chosen == CHOOSE p \in ToSet(Platforms) : path \in DOMAIN Runtimes(p)
    <2>1. path \in DOMAIN RuntimePart /\ RuntimePart[path] = Runtimes(chosen)[path]
      BY <1>1 DEF RuntimePart
    <2>2. chosen \in ToSet(Platforms) /\ path \in DOMAIN Runtimes(chosen)
      BY <1>1
    <2> HIDE DEF chosen
    <2>3. Agree(Runtimes(chosen), Runtimes(platform))
      BY <2>2 DEF Collisions
    <2>4. Runtimes(chosen)[path] = Runtimes(platform)[path]
      BY <1>1, <2>2, <2>3 DEF Agree
    <2>5. QED
      BY <2>1, <2>4, EntriesOf
  <1>2. QED
    BY <1>1, RuntimesOf

\* The system of a platform looks where the exporter has put its runtime.
LEMMA SystemPaths ==
    ASSUME NEW platform \in ToSet(AllPlatforms)
    PROVE /\ PlatformDirectory(SystemOf(platform)) = FmiPlatformDirectory(platform)
          /\ WorkerFilename(SystemOf(platform)) = WorkerName(platform)
  <1>1. platform \in {"linux64", "win64", "darwin64", "darwinarm64"}
    BY DEF ToSet, AllPlatforms
  <1>2. /\ SystemOf("linux64") = "linux" /\ SystemOf("win64") = "windows"
        /\ SystemOf("darwin64") = "macos" /\ SystemOf("darwinarm64") = "macos"
    BY Zenon DEF SystemOf
  <1>3. /\ PlatformDirectory("linux") = "linux64" /\ PlatformDirectory("windows") = "win64"
        /\ PlatformDirectory("macos") = "darwin64"
    BY Zenon DEF PlatformDirectory
  <1>4. QED
    BY <1>1, <1>2, <1>3 DEF FmiPlatformDirectory, WorkerFilename, WorkerName

LEMMA WriteContents ==
    ASSUME Control, Prepared, WriteFile
    PROVE Contents'
  <1>1. /\ UNCHANGED <<request, todo>> /\ stage = "write" /\ file'.entries = Entries
        /\ command = "build"
    BY DEF WriteFile, Advance, Control, BuildStages
  <1>2. /\ BuildOptions /\ Collected /\ Timed /\ ~Collisions
    BY <1>1 DEF Prepared, PastOptions, PastResources, PastTiming, BuildStages
  <1>3. Platforms' = Platforms /\ OrdinaryWeather' = OrdinaryWeather
    BY <1>1, RequestUnchanged DEF OrdinaryWeather
  <1>4. WrittenDescription' = Description
    BY <1>1, <1>2, OwnEntries DEF WrittenDescription
  <1>5. OrdinaryWeather => WrittenPayload' = Payload /\ WrittenModel' = model
    BY <1>1, <1>2, OwnEntries DEF WrittenPayload, WrittenModel
  <1>6. RuntimesMatch'
    <2> SUFFICES ASSUME NEW platform \in ToSet(Platforms)
                 PROVE LET system == SystemOf(platform)
                           library == <<"binaries", PlatformDirectory(system),
                                        Identifier, Suffix(platform)>>
                           bundle == request.bundles[platform]
                       IN  /\ Entries[library] = <<"library", bundle.library>>
                           /\ Entries[SpawnedFrom(system)] = <<"worker", bundle.worker>>
      BY <1>1, <1>3, <1>4, DescriptionOf DEF RuntimesMatch
    <2>1. platform \in ToSet(AllPlatforms)
      BY <1>2 DEF BuildOptions
    <2>2. <<"binaries", PlatformDirectory(SystemOf(platform)), Identifier, Suffix(platform)>> =
              LibraryPath(platform, Identifier)
      BY <2>1, SystemPaths DEF LibraryPath
    <2>3. SpawnedFrom(SystemOf(platform)) = WorkerPath(platform)
      BY <2>1, SystemPaths DEF SpawnedFrom, WorkerPath
    <2>4. QED
      BY <1>2, <2>2, <2>3, RuntimeEntriesOf
  <1>7. ASSUME OrdinaryWeather PROVE FilesResolve'
    <2> DEFINE references == request.source.references
    <2>1. ASSUME NEW i \in DOMAIN references
          PROVE Entries[ResourcePath(model.files[i])] = <<"file", references[i]>>
      <3>1. model.files[i] = references[i].name /\ references[i] \in ToSet(references)
        BY <1>2 DEF Collected, ToSet
      <3>2. /\ references[i].name \in DOMAIN resources
            /\ resources[references[i].name] = references[i]
        BY <1>2, <3>1 DEF Collected
      <3>3. QED
        BY <1>2, <3>1, <3>2, EntriesOf
    <2>2. Entries[ResourcePath(Payload.weather)] = <<"file", request.weather>>
      BY <1>2, OwnEntries, PayloadOf DEF BuildOptions
    <2>3. QED
      BY <1>1, <1>5, <1>7, <2>1, <2>2 DEF FilesResolve
  <1>8. ASSUME OrdinaryWeather PROVE RunPeriodOnGrid'
    <2> DEFINE days == RunPeriodDays
               step == HourSeconds \div StepsPerHour
    <2>1. days \in 1..365
      BY <1>2, DaysOf DEF Timed
    <2>2. timing.stop = days * DaySeconds /\ timing.step = step
      BY <1>2 DEF Timed
    <2>3. HourSeconds % step = 0 /\ (days * DaySeconds) % step = 0
      BY <1>2, <2>1, GridOf DEF Timed
    <2>4. SixDigits(days * DaySeconds) = days * DaySeconds
      BY <2>1, SixDigitsOf
    <2> HIDE DEF days, step
    <2>5. days * DaySeconds > 0
      BY SMT, <2>1 DEF DaySeconds
    <2>6. /\ WrittenPayload'.stop = days * DaySeconds /\ WrittenPayload'.step = step
          /\ WrittenDescription'.stop = SixDigits(days * DaySeconds)
      BY <1>4, <1>5, <1>8, <2>2, PayloadOf, DescriptionOf
    <2>7. QED
      BY <2>3, <2>4, <2>5, <2>6 DEF RunPeriodOnGrid
  <1>9. QED
    BY <1>3, <1>6, <1>7, <1>8 DEF Contents

\* Nothing else touches the file.
LEMMA FileKept ==
    ASSUME [Next]_vars, ~OpenFile, ~WriteFile
    PROVE UNCHANGED <<request, file>>
  <1> USE DEF Pass, Advance, Refuse, Raise, product
  <1>1. CASE UNCHANGED vars
    BY <1>1 DEF vars
  <1>2. CASE CheckOptions \/ CheckWeather \/ ResolveEnergyPlus \/ CheckLibrary \/ ConvertModel
    BY <1>2 DEF CheckOptions, CheckWeather, ResolveEnergyPlus, CheckLibrary, ConvertModel
  <1>3. CASE LoadModel \/ CollectResources \/ CheckVersion \/ Extract \/ LoadOverlay
    BY <1>3 DEF LoadModel, CollectResources, CheckVersion, Extract, LoadOverlay
  <1>4. CASE Merge \/ Transform \/ Time \/ Identify
    BY <1>4 DEF Merge, Transform, Time, Identify
  <1>5. CASE LoadAssets \/ Assemble \/ Inspect \/ StageFails \/ Exit
    BY <1>5 DEF LoadAssets, Assemble, Inspect, StageFails, Exit
  <1>6. QED
    BY <1>1, <1>2, <1>3, <1>4, <1>5 DEF Next

\* Nothing else makes an archive, or changes one.
LEMMA NextContents ==
    ASSUME Control, Prepared, Contents, [Next]_vars
    PROVE Contents'
  <1>1. CASE UNCHANGED <<request, file>>
    BY <1>1, RequestUnchanged
    DEF Contents, OrdinaryWeather, FilesResolve, RuntimesMatch, RunPeriodOnGrid, Built,
        WrittenDescription, WrittenPayload, WrittenModel
  <1>2. CASE OpenFile
    BY <1>2 DEF OpenFile, Contents, FilesResolve, RuntimesMatch, RunPeriodOnGrid, Built
  <1>3. CASE WriteFile
    BY <1>3, WriteContents
  <1>4. CASE ~OpenFile /\ ~WriteFile
    <2>1. UNCHANGED <<request, file>>
      BY <1>4, FileKept
    <2>2. QED
      BY <1>1, <2>1
  <1>5. QED
    BY <1>2, <1>3, <1>4

-----------------------------------------------------------------------------

LEMMA NextPrepared ==
    ASSUME Control, Prepared, [Next]_vars
    PROVE Prepared'
  <1>1. CASE UNCHANGED vars
    BY <1>1, RequestUnchanged, CollectedUnchanged, TimedUnchanged, CollisionsUnchanged
    DEF vars, prepared, Prepared, command
  <1>2. CASE stage' = "failed"
    BY <1>2 DEF Prepared, PastOptions, PastResources, PastTiming, BuildStages
  <1>3. QED
    BY <1>1, <1>2, ExitPrepared, StagePrepared

\* The inductive invariant: which command is at which stage, what the stages before
\* have established, what has become of the file, and what is in it.
THEOREM SpecSession == Spec => [](Control /\ Prepared /\ Filed /\ Contents)
  <1>1. Init => Contents
    BY StateBefore DEF Init, Untouched, Contents, FilesResolve, RuntimesMatch, RunPeriodOnGrid, Built
  <1>2. ASSUME Control, Prepared, Filed, Contents, [Next]_vars
        PROVE Control' /\ Prepared' /\ Filed' /\ Contents'
    BY <1>2, NextControl, NextPrepared, NextFiled, NextContents
  <1>3. QED
    BY <1>1, <1>2, InitControl, InitPrepared, InitFiled, PTL DEF Spec

\* The exit code of build tells what has become of the output file, whatever the
\* session and whatever fails (packaging.py:99-108, cli.py).
THEOREM SpecFileAsReported == Spec => []FileAsReported
  <1>1. Filed => FileAsReported
    BY DEF Filed
  <1>2. QED
    BY <1>1, SpecSession, PTL

\* Library and worker of every platform are where its system looks for them.
THEOREM SpecRuntimesMatch == Spec => []RuntimesMatch
  <1>1. Contents => RuntimesMatch
    BY DEF Contents
  <1>2. QED
    BY <1>1, SpecSession, PTL

\* The files of any model are found, unless the weather file has the name of an
\* entry of the exporter.
THEOREM SpecFilesResolve == Spec => [](OrdinaryWeather => FilesResolve)
  <1>1. Contents => (OrdinaryWeather => FilesResolve)
    BY DEF Contents
  <1>2. QED
    BY <1>1, SpecSession, PTL

\* Any run period ends on the grid of the zone steps.
THEOREM SpecRunPeriodOnGrid == Spec => [](OrdinaryWeather => RunPeriodOnGrid)
  <1>1. Contents => (OrdinaryWeather => RunPeriodOnGrid)
    BY DEF Contents
  <1>2. QED
    BY <1>1, SpecSession, PTL
=============================================================================
