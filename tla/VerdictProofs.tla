----------------------------- MODULE VerdictProofs -----------------------------
(***************************************************************************)
(* What the commands of any session say of a request: that nothing is      *)
(* refused that is in order, and that validate and build, and doctor and   *)
(* the two, come to the same verdict.                                      *)
(***************************************************************************)
EXTENDS ContentProofs

-----------------------------------------------------------------------------
(* Why a stage refuses.                                                    *)

\* What RefusedForAReason accepts as a reason.
Reasons ==
    LET files == ToSet(request.source.references) \cup ({request.weather} \ {None})
        mappings == request.source.objects \o Overlaid
        Repeats(sequence) == Cardinality(NamesIn(sequence)) # Len(sequence)
    IN  \/ request.failing # {}
        \/ request.energyplus # "supported"
        \/ request.source.version \notin {"26.1", "26.1.0"}
        \/ command = "inspect" /\ ~Built
        \/ command = "build" /\ ~BuildOptions
        \/ \E mapping \in ToSet(mappings) : ~WellFormed(mapping)
        \/ Repeats(request.source.objects) \/ Repeats(Overlaid) \/ mappings = <<>>
        \/ StepsPerHour \notin 1..HourSeconds \/ HourSeconds % StepsPerHour # 0
        \/ ~DatesExist
        \/ \E one, other \in files : one # other /\ one.name = other.name
        \/ request.weather \in ToSet(request.source.references)
        \/ \E one \in files : ResourcePath(one.name) \in {ConfigPath, ModelPath}
        \/ \E platform \in ToSet(Platforms) : request.bundles[platform] = None
        \/ {"darwin64", "darwinarm64"} \subseteq ToSet(Platforms)
              /\ request.bundles["darwin64"] # request.bundles["darwinarm64"]

LEMMA ReasonsKept ==
    ASSUME UNCHANGED <<request, todo, file>>
    PROVE  Reasons' = Reasons
  <1>1. /\ BuildOptions' = BuildOptions /\ DatesExist' = DatesExist
        /\ StepsPerHour' = StepsPerHour /\ Platforms' = Platforms
    BY RequestUnchanged
  <1>2. Overlaid' = Overlaid /\ command' = command /\ Built' = Built
    BY DEF Overlaid, command, Built
  <1>. QED BY <1>1, <1>2 DEF Reasons

\* The mappings of the request as sequences.
LEMMA MappingsGiven ==
    ASSUME request \in Requests
    PROVE  /\ request.source.objects \in Seq(Mappings)
           /\ Overlaid \in Seq(Mappings)
           /\ ToSet(request.source.objects \o Overlaid) =
                  ToSet(request.source.objects) \cup ToSet(Overlaid)
  <1>1. request.source.objects \in Seq(Mappings)
    <2>1. request.source.objects \in Seq({mapping \in Mappings : mapping.kind # "meter"})
      BY RequestsAssumption
    <2>. QED BY <2>1
  <1>2. Overlaid \in Seq(Mappings)
    <2>1. CASE request.overlay = None
      BY <2>1 DEF Overlaid
    <2>2. CASE request.overlay # None
      <3>1. IsOverlay(request.overlay)
        BY <2>2, OverlayTyped
      <3>2. request.overlay.inputs \in Seq(Mappings) /\ request.overlay.outputs \in Seq(Mappings)
        BY <3>1 DEF IsOverlay
      <3>3. Overlaid = request.overlay.inputs \o request.overlay.outputs
        BY <2>2 DEF Overlaid
      <3>. QED BY <3>2, <3>3
    <2>. QED BY <2>1, <2>2
  <1>. QED BY <1>1, <1>2, DistinctConcat

LEMMA IncompleteReason ==
    ASSUME request \in Requests, ~Complete
    PROVE  Reasons
  <1>1. PICK mapping \in ToSet(request.source.objects) : ~WellFormed(mapping)
    BY DEF Complete
  <1>2. mapping \in ToSet(request.source.objects \o Overlaid)
    BY <1>1, MappingsGiven
  <1>. QED BY <1>1, <1>2, Zenon DEF Reasons

LEMMA RepeatedReason ==
    ASSUME request \in Requests, ~UniqueNames(Legacy)
    PROVE  Reasons
  <1>1. ~Distinct(request.source.objects)
    BY LegacyOf
  <1>2. Cardinality(NamesIn(request.source.objects)) # Len(request.source.objects)
    BY <1>1, MappingsGiven, CountedNames
  <1>. QED BY <1>2, Zenon DEF Reasons

LEMMA OverlayReason ==
    ASSUME request \in Requests, ~OverlayFits
    PROVE  Reasons
  <1> DEFINE overlay == request.overlay
  <1>1. /\ Overlaid = overlay.inputs \o overlay.outputs
        /\ IsOverlay(overlay)
    BY OverlayTyped DEF OverlayFits, Overlaid
  <1>2. CASE \E mapping \in ToSet(Overlaid) : ~WellFormed(mapping)
    <2>1. PICK mapping \in ToSet(Overlaid) : ~WellFormed(mapping)
      BY <1>2
    <2>2. mapping \in ToSet(request.source.objects \o Overlaid)
      BY <2>1, MappingsGiven
    <2>. QED BY <2>1, <2>2, Zenon DEF Reasons
  <1>3. CASE ~UniqueNames(overlay)
    <2>1. overlay.inputs \in Seq(Mappings) /\ overlay.outputs \in Seq(Mappings)
      BY <1>1 DEF IsOverlay
    <2>2. ~Distinct(Overlaid)
      BY <1>1, <1>3, <2>1, UniqueNamesAre, DistinctConcat
    <2>3. Cardinality(NamesIn(Overlaid)) # Len(Overlaid)
      BY <2>2, MappingsGiven, CountedNames
    <2>. QED BY <2>3, Zenon DEF Reasons
  <1>. QED BY <1>1, <1>2, <1>3 DEF OverlayFits

\* There is no variable only if there is no mapping.
LEMMA EmptyReason ==
    ASSUME request \in Requests, UniqueNames(Legacy), OverlayFits, NamesOf(Resolved) = {}
    PROVE  Reasons
  <1>1. NamesIn(request.source.objects) = {} /\ NamesIn(Overlaid) = {}
    BY IntendedIs DEF IntendedNames
  <1>2. \A mappings \in Seq(Mappings) : NamesIn(mappings) = {} => mappings = <<>>
    <2> SUFFICES ASSUME NEW mappings \in Seq(Mappings), mappings # <<>>
                 PROVE  NamesIn(mappings) # {}
      OBVIOUS
    <2>1. mappings[1] \in ToSet(mappings)
      BY DEF ToSet
    <2>. QED BY <2>1 DEF NamesIn
  <1>3. request.source.objects = <<>> /\ Overlaid = <<>>
    BY <1>1, <1>2, MappingsGiven
  <1>4. request.source.objects \o Overlaid = <<>>
    BY <1>3
  <1>. QED BY <1>4, Zenon DEF Reasons

LEMMA TimingReason ==
    ASSUME request \in Requests, ~(StepsFit /\ DatesExist)
    PROVE  Reasons
  <1>1. StepsFit \/ StepsPerHour \notin 1..HourSeconds \/ HourSeconds % StepsPerHour # 0
    BY DEF StepsFit
  <1>. QED BY <1>1, Zenon DEF Reasons

LEMMA AssembleReason ==
    ASSUME Collected, Collisions
    PROVE  Reasons
  <1> DEFINE references == ToSet(request.source.references)
             weather == request.weather
             files == references \cup ({weather} \ {None})
  <1>1. CASE \E path \in DOMAIN ResourceEntries(resources) : Taken(path)
    <2>1. PICK path \in DOMAIN ResourceEntries(resources) : path \in DOMAIN Base
      BY <1>1 DEF Taken
    <2>2. DOMAIN ResourceEntries(resources) = {ResourcePath(name) : name \in DOMAIN resources}
      BY DEF ResourceEntries
    <2>3. PICK name \in DOMAIN resources : path = ResourcePath(name)
      BY <2>1, <2>2
    <2>4. DOMAIN resources = {f.name : f \in references}
      BY DEF Collected
    <2>5. PICK f \in references : f.name = name
      BY <2>3, <2>4
    <2>6. path \in {DescriptionPath, ConfigPath, ModelPath}
              \cup (IF weather = None THEN {} ELSE {ResourcePath(weather.name)})
      BY <2>1, BasePaths
    <2>7. ResourcePath(name) # DescriptionPath
      BY DEF ResourcePath, DescriptionPath
    <2>8. CASE ResourcePath(f.name) \in {ConfigPath, ModelPath}
      <3>1. \E one \in files : ResourcePath(one.name) \in {ConfigPath, ModelPath}
        BY <2>5, <2>8
      <3>. QED BY <3>1, Zenon DEF Reasons
    <2>9. CASE weather # None /\ ResourcePath(f.name) = ResourcePath(weather.name)
      <3>1. f.name = weather.name
        BY <2>9 DEF ResourcePath
      <3>2. weather \in references \/ \E one, other \in files : one # other /\ one.name = other.name
        BY <2>5, <2>9, <3>1
      <3>. QED BY <3>2, Zenon DEF Reasons
    <2>. QED BY <2>3, <2>5, <2>6, <2>7, <2>8, <2>9
  <1>2. CASE \E one, other \in ToSet(Platforms) : ~Agree(Runtimes(one), Runtimes(other))
    <2>1. PICK one \in ToSet(Platforms), other \in ToSet(Platforms) :
              ~Agree(Runtimes(one), Runtimes(other))
      BY <1>2
    <2>2. PICK path \in DOMAIN Runtimes(one) \cap DOMAIN Runtimes(other) :
              Runtimes(one)[path] # Runtimes(other)[path]
      BY <2>1 DEF Agree
    <2>3. request.bundles[one] # request.bundles[other]
      <3>1. LibraryPath(one, Identifier) # WorkerPath(other)
            /\ LibraryPath(other, Identifier) # WorkerPath(one)
        BY DEF LibraryPath, WorkerPath
      <3>. QED BY <2>2, <3>1, RuntimesOf
    <2>4. FmiPlatformDirectory(one) = FmiPlatformDirectory(other)
      <3>1. path \in {LibraryPath(one, Identifier), WorkerPath(one)}
            /\ path \in {LibraryPath(other, Identifier), WorkerPath(other)}
        BY <2>2, RuntimesOf
      <3>2. \A platform : /\ LibraryPath(platform, Identifier)[2] = FmiPlatformDirectory(platform)
                          /\ LibraryPath(platform, Identifier)[1] = "binaries"
                          /\ WorkerPath(platform)[3] = FmiPlatformDirectory(platform)
                          /\ WorkerPath(platform)[1] = "resources"
        BY DEF LibraryPath, WorkerPath
      <3>3. CASE path = LibraryPath(one, Identifier)
        BY <3>1, <3>2, <3>3
      <3>4. CASE path = WorkerPath(one)
        BY <3>1, <3>2, <3>4
      <3>. QED BY <3>1, <3>3, <3>4
    <2>5. one # other /\ {one, other} = {"darwin64", "darwinarm64"}
      BY <2>3, <2>4 DEF FmiPlatformDirectory
    <2>6. {"darwin64", "darwinarm64"} \subseteq ToSet(Platforms)
          /\ request.bundles["darwin64"] # request.bundles["darwinarm64"]
      BY <2>1, <2>3, <2>5
    <2>. QED BY <2>6, Zenon DEF Reasons
  <1>. QED BY <1>1, <1>2 DEF Collisions

\* An archive that cannot be inspected is one whose configuration a weather file has
\* replaced.
LEMMA InspectReason ==
    ASSUME Told, command = "inspect", ~Inspectable
    PROVE  Reasons
  <1> DEFINE weather == request.weather
             files == ToSet(request.source.references) \cup ({weather} \ {None})
  <1>1. CASE ~Built
    BY <1>1, Zenon DEF Reasons
  <1>2. CASE Built
    <2>1. ~OrdinaryWeather
      BY <1>2 DEF Told, Inspectable, Built
    <2>2. weather \in files /\ ResourcePath(weather.name) \in {ConfigPath, ModelPath}
      BY <2>1 DEF OrdinaryWeather
    <2>. QED BY <2>2, Zenon DEF Reasons
  <1>. QED BY <1>1, <1>2

\* Whatever is raised has a reason.
LEMMA RaisedForAReason ==
    ASSUME Control, Prepared, Derived, Told, Next, NEW error, Raise(error)
    PROVE  Reasons
  <1>0. request \in Requests /\ stage' = "failed"
    BY DEF Control, Raise
  <1> USE DEF Pass, Advance, Refuse, Raise
  <1>1. CASE CheckOptions
    <2>1. command = "build" /\ ~BuildOptions
      BY <1>0, <1>1 DEF CheckOptions
    <2>. QED BY <2>1, Zenon DEF Reasons
  <1>2. CASE ResolveEnergyPlus \/ CheckLibrary
    <2>1. request.energyplus # "supported"
      BY <1>0, <1>2 DEF ResolveEnergyPlus, CheckLibrary
    <2>. QED BY <2>1, Zenon DEF Reasons
  <1>3. CASE CollectResources
    <2>1. model = request.source /\ ResourcesClash
      BY <1>0, <1>3 DEF CollectResources, Prepared
    <2> DEFINE references == ToSet(request.source.references)
               files == references \cup ({request.weather} \ {None})
    <2>2. \E one, other \in references : one # other /\ one.name = other.name
      BY <2>1 DEF ResourcesClash
    <2>3. \E one, other \in files : one # other /\ one.name = other.name
      BY <2>2
    <2>. QED BY <2>3, Zenon DEF Reasons
  <1>4. CASE CheckVersion
    <2>1. stage = "version" /\ model.version \notin {"26.1", "26.1.0"}
      BY <1>0, <1>4 DEF CheckVersion
    <2>2. request.source.version \notin {"26.1", "26.1.0"}
      BY <1>0, <2>1, PackedOf DEF Derived
    <2>. QED BY <2>2, Zenon DEF Reasons
  <1>5. CASE Extract
    <2> DEFINE legacy == ExtractLegacy(model.objects)
               complete == \A object \in ToSet(model.objects) : WellFormed(object)
    <2>1. stage = "extract" /\ (~complete \/ ~UniqueNames(legacy))
      BY <1>0, <1>5 DEF Extract
    <2>2. model.objects = request.source.objects
      BY <1>0, <2>1, PackedOf DEF Derived
    <2>3. complete = Complete /\ legacy = Legacy
      BY <2>2 DEF Complete, Legacy
    <2> HIDE DEF complete, legacy
    <2>. QED BY <1>0, <2>1, <2>3, IncompleteReason, RepeatedReason
  <1>6. CASE LoadOverlay
    <2>1. ~OverlayFits
      BY <1>0, <1>6 DEF LoadOverlay, OverlayFits
    <2>. QED BY <1>0, <2>1, OverlayReason
  <1>7. CASE Merge
    <2> DEFINE merged == MergeConfigs(config, request.overlay)
    <2>1. stage = "merge" /\ (UniqueNames(merged) => NamesOf(merged) = {})
      BY <1>0, <1>7 DEF Merge
    <2>2. config = Legacy /\ UniqueNames(Legacy) /\ OverlayFits
      BY <2>1 DEF Derived, PastExtract
    <2>3. merged = Resolved
      BY <2>2 DEF Resolved
    <2>4. UniqueNames(Resolved)
      BY <1>0, <2>2, ResolvedOf
    <2> HIDE DEF merged
    <2>. QED BY <1>0, <2>1, <2>2, <2>3, <2>4, EmptyReason
  <1>8. CASE Time
    <2>1. ~(StepsFit /\ DatesExist)
      BY <1>0, <1>8 DEF Time
    <2>. QED BY <1>0, <2>1, TimingReason
  <1>9. CASE LoadAssets
    <2>1. \E platform \in ToSet(Platforms) : request.bundles[platform] = None
      BY <1>0, <1>9 DEF LoadAssets
    <2>. QED BY <2>1, Zenon DEF Reasons
  <1>10. CASE Assemble
    <2>1. Collisions /\ stage = "assemble"
      BY <1>0, <1>10 DEF Assemble
    <2>2. Collected
      BY <2>1 DEF Prepared, PastResources, PastTiming, BuildStages
    <2>. QED BY <2>1, <2>2, AssembleReason
  <1>11. CASE Inspect
    <2>1. ~Inspectable /\ command = "inspect"
      BY <1>0, <1>11 DEF Inspect, Control
    <2>. QED BY <2>1, InspectReason
  <1>12. CASE StageFails
    <2>1. request.failing # {}
      BY <1>12 DEF StageFails
    <2>. QED BY <2>1, Zenon DEF Reasons
  <1>13. CASE CheckWeather \/ ConvertModel \/ LoadModel \/ Transform \/ Identify
    BY <1>0, <1>13 DEF CheckWeather, ConvertModel, LoadModel, Transform, Identify
  <1>14. CASE OpenFile \/ WriteFile
    BY <1>0, <1>14 DEF OpenFile, WriteFile
  <1>15. CASE Exit
    BY <1>0, <1>15, NextCommand
  <1>. QED BY <1>1, <1>2, <1>3, <1>4, <1>5, <1>6, <1>7, <1>8, <1>9, <1>10, <1>11, <1>12,
              <1>13, <1>14, <1>15 DEF Next

LEMMA FailedRaises ==
    ASSUME Control, Next, stage' = "failed"
    PROVE  \E error : Raise(error)
  <1> USE DEF Pass, Advance, Refuse
  <1>1. CASE CheckOptions \/ CheckWeather \/ ResolveEnergyPlus \/ CheckLibrary \/ ConvertModel
    BY <1>1 DEF CheckOptions, CheckWeather, ResolveEnergyPlus, CheckLibrary, ConvertModel
  <1>2. CASE LoadModel \/ CollectResources \/ CheckVersion \/ Extract \/ LoadOverlay
    BY <1>2 DEF LoadModel, CollectResources, CheckVersion, Extract, LoadOverlay
  <1>3. CASE Merge \/ Transform \/ Time \/ Identify
    BY <1>3 DEF Merge, Transform, Time, Identify
  <1>4. CASE LoadAssets \/ Assemble \/ OpenFile \/ WriteFile \/ Inspect \/ StageFails
    BY <1>4 DEF LoadAssets, Assemble, OpenFile, WriteFile, Inspect, StageFails
  <1>5. CASE Exit
    BY <1>5, NextCommand
  <1>. QED BY <1>1, <1>2, <1>3, <1>4, <1>5 DEF Next

LEMMA NextRefused ==
    ASSUME Control, Prepared, Derived, Told, RefusedForAReason, [Next]_vars
    PROVE  RefusedForAReason'
  <1>1. RefusedForAReason <=> (exception # None => Reasons)
    BY Zenon DEF RefusedForAReason, Reasons
  <1>2. RefusedForAReason' <=> (exception' # None => Reasons')
    BY Zenon DEF RefusedForAReason, Reasons
  <1> SUFFICES ASSUME exception' # None PROVE Reasons'
    BY <1>2
  <1>3. CASE UNCHANGED vars
    <2>1. UNCHANGED <<request, todo, file, exception>>
      BY <1>3 DEF vars, product
    <2>. QED BY <1>1, <2>1, ReasonsKept
  <1>4. CASE Next
    <2>1. stage' = "failed"
      BY NextControl DEF Control
    <2>2. PICK error : Raise(error)
      BY <1>4, <2>1, FailedRaises
    <2>3. UNCHANGED <<request, todo, file>>
      BY <2>2 DEF Raise, product
    <2>. QED BY <1>4, <2>2, <2>3, RaisedForAReason, ReasonsKept
  <1>. QED BY <1>3, <1>4

-----------------------------------------------------------------------------
(* What validate and build go through.                                     *)

\* The stages they share, in their order.
Order == <<"options", "weather", "energyplus", "convert", "load", "resources", "version",
           "extract", "overlay", "merge", "transform", "timing", "guid">>
Shared == 1..13

\* What a stage raises by itself, of a request whose options are in order ...
Refuses(at, error) ==
    \/ /\ at = "energyplus"
       /\ \/ request.energyplus = "missing" /\ error = "EnergyPlusNotFoundError"
          \/ request.energyplus = "unsupported" /\ error = "EnergyPlusVersionError"
    \/ /\ at = "resources" /\ error = "InvalidInputError"
       /\ \E one, other \in ToSet(request.source.references) :
              one # other /\ one.name = other.name
    \/ /\ at = "version" /\ error = "InvalidInputError"
       /\ request.source.version \notin {"26.1", "26.1.0"}
    \/ /\ at = "extract"
       /\ \/ ~Complete /\ error = "MappingError"
          \/ Complete /\ ~UniqueNames(Legacy) /\ error = "ValueError"
    \/ at = "overlay" /\ error = "InvalidInputError" /\ ~OverlayFits
    \/ at = "merge" /\ error = "InvalidInputError" /\ NamesOf(Resolved) = {}
    \/ at = "timing" /\ error = "ValueError" /\ ~(StepsFit /\ DatesExist)

\* ... and what it ends in, with the environment.
FailsAt(at) == \E failure \in request.failing : failure[1] = at
Ends(at, error) ==
    \/ \E failure \in request.failing : failure[1] = at /\ failure[2] = error
    \/ ~FailsAt(at) /\ Refuses(at, error)
Goes(at) == \A error : ~Ends(at, error)

\* The stages before the n-th go on; one stage is the first that does not.
Reached(n) == \A i \in Shared : i < n => Goes(Order[i])
Verdict(error) == \E i \in Shared : Reached(i) /\ Ends(Order[i], error)

\* What a build can end in after them.
BuildErrors == {"PackagingError", "ValueError", "OtherError"}

\* What a command that goes through them ends in; build may fail later.
Outcome(name, error) ==
    \/ Verdict(error)
    \/ Reached(14) /\ error = None
    \/ Reached(14) /\ name = "build" /\ error \in BuildErrors

LEMMA OrderIs ==
    /\ Order[1] = "options" /\ Order[2] = "weather" /\ Order[3] = "energyplus"
    /\ Order[4] = "convert" /\ Order[5] = "load" /\ Order[6] = "resources"
    /\ Order[7] = "version" /\ Order[8] = "extract" /\ Order[9] = "overlay"
    /\ Order[10] = "merge" /\ Order[11] = "transform" /\ Order[12] = "timing"
    /\ Order[13] = "guid"
  BY DEF Order

\* In an environment that stays as it is there is one verdict, and none on a request
\* that gets through.
LEMMA OneEnd ==
    ASSUME Steady, NEW at, NEW one, Ends(at, one), NEW other, Ends(at, other)
    PROVE  one = other
  <1>1. CASE FailsAt(at)
    BY <1>1 DEF Ends, Steady
  <1>2. CASE ~FailsAt(at)
    <2>1. Refuses(at, one) /\ Refuses(at, other)
      BY <1>2 DEF Ends, FailsAt
    <2>. QED BY <2>1 DEF Refuses
  <1>. QED BY <1>1, <1>2

LEMMA OneVerdict ==
    ASSUME Steady
    PROVE  /\ \A one, other : Verdict(one) /\ Verdict(other) => one = other
           /\ \A error : ~(Verdict(error) /\ Reached(14))
  <1>1. ASSUME NEW one, NEW other, Verdict(one), Verdict(other) PROVE one = other
    <2>1. PICK i \in Shared : Reached(i) /\ Ends(Order[i], one)
      BY <1>1 DEF Verdict
    <2>2. PICK j \in Shared : Reached(j) /\ Ends(Order[j], other)
      BY <1>1 DEF Verdict
    <2>3. ~(i < j) /\ ~(j < i)
      BY <2>1, <2>2 DEF Reached, Goes
    <2>4. i = j
      BY <2>3 DEF Shared
    <2>. QED BY <2>1, <2>2, <2>4, OneEnd
  <1>2. ASSUME NEW error, Verdict(error), Reached(14) PROVE FALSE
    <2>1. PICK i \in Shared : Ends(Order[i], error)
      BY <1>2 DEF Verdict
    <2>2. i < 14
      BY DEF Shared
    <2>. QED BY <1>2, <2>1, <2>2 DEF Reached, Goes
  <1>. QED BY <1>1, <1>2

Follows(from, to) == \E i \in 1..12 : from = Order[i] /\ to = Order[i + 1]

LEMMA FollowsIs ==
    /\ Follows("options", "weather") /\ Follows("weather", "energyplus")
    /\ Follows("energyplus", "convert") /\ Follows("convert", "load")
    /\ Follows("load", "resources") /\ Follows("resources", "version")
    /\ Follows("version", "extract") /\ Follows("extract", "overlay")
    /\ Follows("overlay", "merge") /\ Follows("merge", "transform")
    /\ Follows("transform", "timing") /\ Follows("timing", "guid")
  <1> HIDE DEF Order
  <1>1. \A i \in 1..12 : Follows(Order[i], Order[i + 1])
    BY DEF Follows
  <1>2. /\ 1 \in 1..12 /\ 2 \in 1..12 /\ 3 \in 1..12 /\ 4 \in 1..12 /\ 5 \in 1..12 /\ 6 \in 1..12
        /\ 7 \in 1..12 /\ 8 \in 1..12 /\ 9 \in 1..12 /\ 10 \in 1..12 /\ 11 \in 1..12
        /\ 12 \in 1..12
    OBVIOUS
  <1>3. /\ Follows(Order[1], Order[2]) /\ Follows(Order[2], Order[3])
        /\ Follows(Order[3], Order[4]) /\ Follows(Order[4], Order[5])
        /\ Follows(Order[5], Order[6]) /\ Follows(Order[6], Order[7])
        /\ Follows(Order[7], Order[8]) /\ Follows(Order[8], Order[9])
        /\ Follows(Order[9], Order[10]) /\ Follows(Order[10], Order[11])
        /\ Follows(Order[11], Order[12]) /\ Follows(Order[12], Order[13])
    BY <1>1, <1>2
  <1>. QED BY <1>3, OrderIs

LEMMA OrderInjective == \A i, j \in Shared : Order[i] = Order[j] => i = j
  <1> HIDE DEF Order
  <1>1. \A i \in Shared : \/ i = 1 \/ i = 2 \/ i = 3 \/ i = 4 \/ i = 5 \/ i = 6 \/ i = 7 \/ i = 8
                          \/ i = 9 \/ i = 10 \/ i = 11 \/ i = 12 \/ i = 13
    BY DEF Shared
  <1>. QED BY <1>1, OrderIs

LEMMA OrderFirst == Reached(1) /\ \A i \in Shared : Order[i] = "options" => i = 1
  <1>1. \A i \in Shared : \/ i = 1 \/ i = 2 \/ i = 3 \/ i = 4 \/ i = 5 \/ i = 6 \/ i = 7 \/ i = 8
                          \/ i = 9 \/ i = 10 \/ i = 11 \/ i = 12 \/ i = 13
    BY DEF Shared
  <1>2. \A i \in Shared : Order[i] = "options" => i = 1
    <2> HIDE DEF Order
    <2>. QED BY <1>1, OrderIs
  <1>3. Reached(1)
    BY DEF Reached, Shared
  <1>. QED BY <1>2, <1>3

LEMMA ReachedNext ==
    ASSUME NEW n \in Shared, Reached(n), Goes(Order[n])
    PROVE  Reached(n + 1)
  <1>1. \A i \in Shared : i < n + 1 => i < n \/ i = n
    BY DEF Shared
  <1>. QED BY <1>1 DEF Reached

LEMMA VerdictKept ==
    ASSUME UNCHANGED request
    PROVE  /\ \A n : Reached(n)' = Reached(n)
           /\ \A error : Verdict(error)' = Verdict(error)
           /\ \A name, error : Outcome(name, error)' = Outcome(name, error)
  <1>1. /\ Complete' = Complete /\ UniqueNames(Legacy)' = UniqueNames(Legacy)
        /\ OverlayFits' = OverlayFits /\ NamesOf(Resolved)' = NamesOf(Resolved)
    BY DerivedFrom
  <1>2. StepsFit' = StepsFit /\ DatesExist' = DatesExist
    BY RequestUnchanged
  <1>3. \A at, error : Refuses(at, error)' = Refuses(at, error)
    BY <1>1, <1>2 DEF Refuses
  <1>4. \A at, error : Ends(at, error)' = Ends(at, error)
    BY <1>3 DEF Ends, FailsAt
  <1>5. \A at : Goes(at)' = Goes(at)
    BY <1>4 DEF Goes
  <1>6. \A n : Reached(n)' = Reached(n)
    BY <1>5 DEF Reached
  <1>7. \A error : Verdict(error)' = Verdict(error)
    BY <1>4, <1>6 DEF Verdict
  <1>. QED BY <1>6, <1>7 DEF Outcome

\* validate and build at one of the shared stages.
Checking == stage \in SharedStages \cup {"energyplus"} /\ command \in {"validate", "build"}

LEMMA GoesIf ==
    ASSUME NEW at, ~FailsAt(at), \A error : ~Refuses(at, error)
    PROVE  Goes(at)
  BY DEF Goes, Ends, FailsAt

\* A stage that goes on had no reason not to.
LEMMA StageGoes ==
    ASSUME Control, Prepared, Derived, BuildOptions, Checking, Next, stage' # "failed"
    PROVE  /\ UNCHANGED <<request, todo, exits>> /\ exception' = None
           /\ Goes(stage)
           /\ \/ Follows(stage, stage')
              \/ stage = "guid" /\ stage' = IF command = "validate" THEN "done" ELSE "assets"
  <1> DEFINE Quiet == UNCHANGED <<request, todo, exits>> /\ exception' = None /\ ~FailsAt(stage)
             Through(from, to) == stage = from /\ stage' = to /\ Quiet
  <1>0. request \in Requests
    BY DEF Control
  <1> USE DEF Pass, Advance, Refuse, Raise, Failing, FailsAt, Control, Checking, SharedStages
  <1>1. CASE CheckOptions
    <2>1. Through("options", "weather")
      BY <1>1 DEF CheckOptions
    <2>. QED BY <2>1, GoesIf, FollowsIs DEF Refuses
  <1>2. CASE CheckWeather
    <2>1. Through("weather", "energyplus")
      BY <1>2 DEF CheckWeather
    <2>. QED BY <2>1, GoesIf, FollowsIs DEF Refuses
  <1>3. CASE ResolveEnergyPlus
    <2>1. Through("energyplus", "convert") /\ request.energyplus \in {"supported", "no library"}
      BY <1>3 DEF ResolveEnergyPlus
    <2>2. \A error : ~Refuses("energyplus", error)
      BY <2>1 DEF Refuses
    <2>. QED BY <2>1, <2>2, GoesIf, FollowsIs
  <1>4. CASE ConvertModel
    <2>1. Through("convert", "load")
      BY <1>4 DEF ConvertModel
    <2>. QED BY <2>1, GoesIf, FollowsIs DEF Refuses
  <1>5. CASE LoadModel
    <2>1. Through("load", "resources")
      BY <1>5 DEF LoadModel
    <2>. QED BY <2>1, GoesIf, FollowsIs DEF Refuses
  <1>6. CASE CollectResources
    <2>1. Through("resources", "version") /\ ~ResourcesClash /\ model = request.source
      BY <1>6 DEF CollectResources, Prepared
    <2>2. \A error : ~Refuses("resources", error)
      BY <2>1 DEF Refuses, ResourcesClash
    <2>. QED BY <2>1, <2>2, GoesIf, FollowsIs
  <1>7. CASE CheckVersion
    <2>1. Through("version", "extract") /\ model.version \in {"26.1", "26.1.0"}
      BY <1>7 DEF CheckVersion
    <2>2. request.source.version \in {"26.1", "26.1.0"}
      BY <1>0, <2>1, PackedOf DEF Derived
    <2>3. \A error : ~Refuses("version", error)
      BY <2>2 DEF Refuses
    <2>. QED BY <2>1, <2>3, GoesIf, FollowsIs
  <1>8. CASE Extract
    <2> DEFINE legacy == ExtractLegacy(model.objects)
               complete == \A object \in ToSet(model.objects) : WellFormed(object)
    <2>1. Through("extract", "overlay") /\ complete /\ UniqueNames(legacy)
      BY <1>8 DEF Extract
    <2>2. model.objects = request.source.objects
      BY <1>0, <2>1, PackedOf DEF Derived
    <2>3. Complete /\ UniqueNames(Legacy)
      BY <2>1, <2>2 DEF Complete, Legacy
    <2>4. \A error : ~Refuses("extract", error)
      BY <2>3 DEF Refuses
    <2> HIDE DEF legacy, complete
    <2>. QED BY <2>1, <2>4, GoesIf, FollowsIs
  <1>9. CASE LoadOverlay
    <2>1. Through("overlay", "merge") /\ OverlayFits
      BY <1>9 DEF LoadOverlay, OverlayFits
    <2>2. \A error : ~Refuses("overlay", error)
      BY <2>1 DEF Refuses
    <2>. QED BY <2>1, <2>2, GoesIf, FollowsIs
  <1>10. CASE Merge
    <2> DEFINE merged == MergeConfigs(config, request.overlay)
    <2>1. Through("merge", "transform") /\ NamesOf(merged) # {}
      BY <1>10 DEF Merge
    <2>2. config = Legacy
      BY <2>1 DEF Derived
    <2>3. NamesOf(Resolved) # {}
      BY <2>1, <2>2 DEF Resolved
    <2>4. \A error : ~Refuses("merge", error)
      BY <2>3 DEF Refuses
    <2> HIDE DEF merged
    <2>. QED BY <2>1, <2>4, GoesIf, FollowsIs
  <1>11. CASE Transform
    <2>1. Through("transform", "timing")
      BY <1>11 DEF Transform
    <2>. QED BY <2>1, GoesIf, FollowsIs DEF Refuses
  <1>12. CASE Time
    <2>1. Through("timing", "guid") /\ StepsFit /\ DatesExist
      BY <1>12 DEF Time
    <2>2. \A error : ~Refuses("timing", error)
      BY <2>1 DEF Refuses
    <2>. QED BY <2>1, <2>2, GoesIf, FollowsIs
  <1>13. CASE Identify
    <2>1. Through("guid", IF command = "validate" THEN "done" ELSE "assets")
      BY <1>13 DEF Identify
    <2>. QED BY <2>1, GoesIf DEF Refuses
  <1>14. CASE CheckLibrary \/ LoadAssets \/ Assemble \/ OpenFile \/ WriteFile \/ Inspect \/ Exit
    BY <1>14 DEF CheckLibrary, LoadAssets, Assemble, OpenFile, WriteFile, Inspect, Exit
  <1>15. CASE StageFails
    BY <1>15 DEF StageFails
  <1>. QED BY <1>1, <1>2, <1>3, <1>4, <1>5, <1>6, <1>7, <1>8, <1>9, <1>10, <1>11, <1>12,
              <1>13, <1>14, <1>15 DEF Next

\* A stage that raises something ends in it.
LEMMA StageEnds ==
    ASSUME Control, Prepared, Derived, BuildOptions, Checking, Next, NEW error, Raise(error)
    PROVE  Ends(stage, error)
  <1> DEFINE Stops(from) == stage = from /\ ~FailsAt(stage)
  <1>0. request \in Requests /\ stage' = "failed"
    BY DEF Control, Raise
  <1> USE DEF Pass, Advance, Refuse, Failing, FailsAt, Checking, SharedStages
  <1>1. CASE CheckOptions
    BY <1>0, <1>1 DEF CheckOptions
  <1>2. CASE ResolveEnergyPlus
    <2>1. /\ Stops("energyplus")
          /\ \/ request.energyplus = "missing" /\ exception' = "EnergyPlusNotFoundError"
             \/ request.energyplus = "unsupported" /\ exception' = "EnergyPlusVersionError"
      BY <1>0, <1>2 DEF ResolveEnergyPlus, Raise
    <2>2. exception' = error
      BY DEF Raise
    <2>. QED BY <2>1, <2>2 DEF Ends, Refuses
  <1>3. CASE CollectResources
    <2>1. Stops("resources") /\ ResourcesClash /\ model = request.source
          /\ exception' = "InvalidInputError"
      BY <1>0, <1>3 DEF CollectResources, Prepared, Raise
    <2>2. exception' = error
      BY DEF Raise
    <2>. QED BY <2>1, <2>2 DEF Ends, Refuses, ResourcesClash
  <1>4. CASE CheckVersion
    <2>1. Stops("version") /\ model.version \notin {"26.1", "26.1.0"}
          /\ exception' = "InvalidInputError"
      BY <1>0, <1>4 DEF CheckVersion, Raise
    <2>2. request.source.version \notin {"26.1", "26.1.0"}
      BY <1>0, <2>1, PackedOf DEF Derived
    <2>3. exception' = error
      BY DEF Raise
    <2>. QED BY <2>1, <2>2, <2>3 DEF Ends, Refuses
  <1>5. CASE Extract
    <2> DEFINE legacy == ExtractLegacy(model.objects)
               complete == \A object \in ToSet(model.objects) : WellFormed(object)
    <2>1. /\ Stops("extract")
          /\ \/ ~complete /\ exception' = "MappingError"
             \/ complete /\ ~UniqueNames(legacy) /\ exception' = "ValueError"
      BY <1>0, <1>5 DEF Extract, Raise
    <2>2. model.objects = request.source.objects
      BY <1>0, <2>1, PackedOf DEF Derived
    <2>3. complete = Complete /\ legacy = Legacy
      BY <2>2 DEF Complete, Legacy
    <2> HIDE DEF legacy, complete
    <2>4. exception' = error
      BY DEF Raise
    <2>. QED BY <2>1, <2>3, <2>4 DEF Ends, Refuses
  <1>6. CASE LoadOverlay
    <2>1. Stops("overlay") /\ ~OverlayFits /\ exception' = "InvalidInputError"
      BY <1>0, <1>6 DEF LoadOverlay, OverlayFits, Raise
    <2>2. exception' = error
      BY DEF Raise
    <2>. QED BY <2>1, <2>2 DEF Ends, Refuses
  <1>7. CASE Merge
    <2> DEFINE merged == MergeConfigs(config, request.overlay)
    <2>1. /\ Stops("merge") /\ (UniqueNames(merged) => NamesOf(merged) = {})
          /\ exception' = IF UniqueNames(merged) THEN "InvalidInputError" ELSE "ValueError"
      BY <1>0, <1>7 DEF Merge, Raise
    <2>2. config = Legacy /\ UniqueNames(Legacy) /\ OverlayFits
      BY <2>1 DEF Derived, PastExtract
    <2>3. merged = Resolved
      BY <2>2 DEF Resolved
    <2>4. UniqueNames(Resolved)
      BY <1>0, <2>2, ResolvedOf
    <2> HIDE DEF merged
    <2>5. exception' = error
      BY DEF Raise
    <2>. QED BY <2>1, <2>3, <2>4, <2>5 DEF Ends, Refuses
  <1>8. CASE Time
    <2>1. Stops("timing") /\ ~(StepsFit /\ DatesExist) /\ exception' = "ValueError"
      BY <1>0, <1>8 DEF Time, Raise
    <2>2. exception' = error
      BY DEF Raise
    <2>. QED BY <2>1, <2>2 DEF Ends, Refuses
  <1>9. CASE StageFails
    <2>1. PICK failure \in request.failing : failure[1] = stage /\ Raise(failure[2])
      BY <1>9 DEF StageFails
    <2>2. failure[2] = error
      BY <2>1 DEF Raise
    <2>. QED BY <2>1, <2>2 DEF Ends
  <1>10. CASE CheckWeather \/ ConvertModel \/ LoadModel \/ Transform \/ Identify
    BY <1>0, <1>10 DEF CheckWeather, ConvertModel, LoadModel, Transform, Identify
  <1>11. CASE CheckLibrary \/ LoadAssets \/ Assemble \/ OpenFile \/ WriteFile \/ Inspect \/ Exit
    BY <1>11 DEF CheckLibrary, LoadAssets, Assemble, OpenFile, WriteFile, Inspect, Exit
  <1>. QED BY <1>1, <1>2, <1>3, <1>4, <1>5, <1>6, <1>7, <1>8, <1>9, <1>10, <1>11 DEF Next

-----------------------------------------------------------------------------
(* The verdicts of a session.                                              *)

\* A code a command may end with on this request.
ValidateEnds(code) ==
    \E error \in Exceptions \cup {None} :
        Outcome("validate", error) /\ code = ValidateExitCode(error)
BuildEnds(code) ==
    \E error \in Exceptions \cup {None} : Outcome("build", error) /\ code = ExitCode(error)

Judged ==
    BuildOptions =>
        /\ Checking => \A i \in Shared : stage = Order[i] => Reached(i)
        /\ stage \in BuildStages => Reached(14)
        /\ stage \in {"done", "failed"} /\ command \in {"validate", "build"} =>
               Outcome(command, exception)
        /\ exits["validate"] # None => ValidateEnds(exits["validate"])
        /\ exits["build"] # None => BuildEnds(exits["build"])

\* What doctor has seen of EnergyPlus, and what the others have.
NotInstalled == request.energyplus \in {"missing", "unsupported"}
Installed ==
    /\ exception \in {"EnergyPlusNotFoundError", "EnergyPlusVersionError"} =>
           command = "doctor" \/ NotInstalled
    /\ stage \in {"library", "done"} /\ command = "doctor" => ~NotInstalled
    /\ exits["doctor"] = 0 => ~NotInstalled
    /\ {exits["validate"], exits["build"]} \cap {3, 4} # {} => NotInstalled

LEMMA RequestOfNext ==
    ASSUME Control, Next
    PROVE  UNCHANGED request
  <1> USE DEF Pass, Advance, Refuse, Raise
  <1>1. CASE CheckOptions \/ CheckWeather \/ ResolveEnergyPlus \/ CheckLibrary \/ ConvertModel
    BY <1>1 DEF CheckOptions, CheckWeather, ResolveEnergyPlus, CheckLibrary, ConvertModel
  <1>2. CASE LoadModel \/ CollectResources \/ CheckVersion \/ Extract \/ LoadOverlay
    BY <1>2 DEF LoadModel, CollectResources, CheckVersion, Extract, LoadOverlay
  <1>3. CASE Merge \/ Transform \/ Time \/ Identify
    BY <1>3 DEF Merge, Transform, Time, Identify
  <1>4. CASE LoadAssets \/ Assemble \/ OpenFile \/ WriteFile \/ Inspect \/ StageFails \/ Exit
    BY <1>4 DEF LoadAssets, Assemble, OpenFile, WriteFile, Inspect, StageFails, Exit
  <1>. QED BY <1>1, <1>2, <1>3, <1>4 DEF Next

LEMMA OrderShared ==
    /\ \A i \in Shared : Order[i] \in SharedStages \cup {"energyplus"}
    /\ \A at \in SharedStages \cup {"energyplus"} : \E i \in Shared : at = Order[i]
  <1> HIDE DEF Order
  <1>1. \A i \in Shared : \/ i = 1 \/ i = 2 \/ i = 3 \/ i = 4 \/ i = 5 \/ i = 6 \/ i = 7 \/ i = 8
                          \/ i = 9 \/ i = 10 \/ i = 11 \/ i = 12 \/ i = 13
    BY DEF Shared
  <1>2. \A i \in Shared : Order[i] \in SharedStages \cup {"energyplus"}
    BY <1>1, OrderIs DEF SharedStages
  <1>3. ASSUME NEW at \in SharedStages \cup {"energyplus"} PROVE \E i \in Shared : at = Order[i]
    <2>1. /\ 1 \in Shared /\ 2 \in Shared /\ 3 \in Shared /\ 4 \in Shared /\ 5 \in Shared
          /\ 6 \in Shared /\ 7 \in Shared /\ 8 \in Shared /\ 9 \in Shared /\ 10 \in Shared
          /\ 11 \in Shared /\ 12 \in Shared /\ 13 \in Shared
      BY DEF Shared
    <2> HIDE DEF Shared
    <2>. QED BY <2>1, OrderIs DEF SharedStages
  <1>. QED BY <1>2, <1>3

LEMMA SharedApart ==
    \A at \in SharedStages \cup {"energyplus"} : at \notin BuildStages \cup {"done", "failed"}
  BY DEF SharedStages, BuildStages

LEMMA EndsKept ==
    ASSUME UNCHANGED request
    PROVE  /\ \A code : ValidateEnds(code)' = ValidateEnds(code)
           /\ \A code : BuildEnds(code)' = BuildEnds(code)
  <1>1. \A name, error : Outcome(name, error)' = Outcome(name, error)
    BY VerdictKept
  <1>. QED BY <1>1 DEF ValidateEnds, BuildEnds

\* The shared stages.
LEMMA CheckJudged ==
    ASSUME Control, Prepared, Derived, Judged, Checking, Next
    PROVE  Judged'
  <1>1. CASE ~BuildOptions
    <2>1. UNCHANGED request
      BY <1>1, RequestOfNext
    <2>. QED BY <1>1, <2>1, RequestUnchanged DEF Judged
  <1>2. CASE BuildOptions /\ stage' = "failed"
    <2>1. PICK error : Raise(error)
      BY <1>2, FailedRaises
    <2>2. Ends(stage, error)
      BY <1>2, <2>1, StageEnds
    <2>3. PICK i \in Shared : stage = Order[i]
      BY OrderShared DEF Checking
    <2>4. Reached(i)
      BY <1>2, <2>3 DEF Judged
    <2>5. Outcome(command, error)
      BY <2>2, <2>3, <2>4 DEF Outcome, Verdict
    <2>6. UNCHANGED <<request, todo, exits>> /\ exception' = error /\ command' = command
      BY <2>1 DEF Raise, command
    <2>7. Outcome(command, exception)'
      BY <2>5, <2>6, VerdictKept
    <2>8. /\ exits["validate"] # None => ValidateEnds(exits["validate"])'
          /\ exits["build"] # None => BuildEnds(exits["build"])'
      BY <1>2, <2>6, EndsKept DEF Judged
    <2>. QED BY <1>2, <2>6, <2>7, <2>8 DEF Judged, Checking, SharedStages, BuildStages
  <1>3. CASE BuildOptions /\ stage' # "failed"
    <2>1. /\ UNCHANGED <<request, todo, exits>> /\ exception' = None
          /\ Goes(stage)
          /\ \/ Follows(stage, stage')
             \/ stage = "guid" /\ stage' = IF command = "validate" THEN "done" ELSE "assets"
      BY <1>3, StageGoes
    <2>2. command' = command
      BY <2>1 DEF command
    <2>3. /\ exits["validate"] # None => ValidateEnds(exits["validate"])'
          /\ exits["build"] # None => BuildEnds(exits["build"])'
      BY <1>3, <2>1, EndsKept DEF Judged
    <2>4. CASE Follows(stage, stage')
      <3>1. PICK i \in 1..12 : stage = Order[i] /\ stage' = Order[i + 1]
        BY <2>4 DEF Follows
      <3>2. i \in Shared /\ i + 1 \in Shared
        BY DEF Shared
      <3>3. Reached(i) /\ Goes(Order[i])
        BY <1>3, <2>1, <3>1, <3>2 DEF Judged
      <3>4. Reached(i + 1)
        BY <3>2, <3>3, ReachedNext
      <3>5. \A j \in Shared : stage' = Order[j] => Reached(j)
        BY <3>1, <3>2, <3>4, OrderInjective
      <3>6. \A j \in Shared : stage' = Order[j] => Reached(j)'
        BY <2>1, <3>5, VerdictKept
      <3>7. stage' \notin BuildStages \cup {"done", "failed"}
        BY <3>1, <3>2, OrderShared, SharedApart
      <3>. QED BY <2>1, <2>3, <3>6, <3>7 DEF Judged
    <2>5. CASE stage = "guid"
      <3>1. 13 \in Shared /\ stage = Order[13]
        BY <2>5, OrderIs DEF Shared
      <3>2. Reached(13) /\ Goes(Order[13])
        BY <1>3, <2>1, <3>1 DEF Judged
      <3>3. Reached(13 + 1)
        BY <3>1, <3>2, ReachedNext
      <3>4. Reached(14)
        BY <3>3
      <3>5. Reached(14)' /\ Outcome(command, exception)'
        BY <2>1, <3>4, VerdictKept DEF Outcome
      <3>6. CASE stage' \in {"done", "assets"}
        BY <2>1, <2>3, <3>5, <3>6 DEF Judged, Checking, SharedStages
      <3>7. CASE Follows(stage, stage')
        BY <2>4, <3>7
      <3>. QED BY <2>1, <3>6, <3>7
    <2>. QED BY <2>1, <2>4, <2>5
  <1>. QED BY <1>1, <1>2, <1>3

\* The stages of build alone.
LEMMA BuildJudged ==
    ASSUME Control, Judged, stage \in BuildStages, Next
    PROVE  Judged'
  <1>1. UNCHANGED <<request, todo, exits>>
    BY DEF Next, Pass, Advance, Refuse, Raise, BuildStages,
           CheckOptions, CheckWeather, ResolveEnergyPlus, CheckLibrary, ConvertModel,
           LoadModel, CollectResources, CheckVersion, Extract, LoadOverlay, Merge, Transform,
           Time, Identify, LoadAssets, Assemble, OpenFile, WriteFile, Inspect, StageFails, Exit
  <1>2. command = "build" /\ command' = command /\ exception = None
    BY <1>1 DEF Control, command, BuildStages
  <1>3. \/ stage' \in BuildStages \cup {"done"} /\ exception' = None
        \/ stage' = "failed" /\ exception' \in BuildErrors
    <2> USE DEF Pass, Advance, Refuse, Raise, BuildStages, BuildErrors
    <2>1. CASE LoadAssets \/ Assemble \/ OpenFile \/ WriteFile
      BY <1>2, <2>1 DEF LoadAssets, Assemble, OpenFile, WriteFile
    <2>2. CASE StageFails
      <3>1. PICK failure \in request.failing : failure[1] = stage /\ Raise(failure[2])
        BY <2>2 DEF StageFails
      <3>2. failure \in Failures
        BY RequestsAssumption DEF Control
      <3>3. \A f \in Failures : f[1] \in BuildStages => f[2] \in BuildErrors
        BY FailuresTyped
      <3>. QED BY <3>1, <3>2, <3>3
    <2>3. CASE CheckOptions \/ CheckWeather \/ ResolveEnergyPlus \/ CheckLibrary \/ ConvertModel
      BY <2>3 DEF CheckOptions, CheckWeather, ResolveEnergyPlus, CheckLibrary, ConvertModel
    <2>4. CASE LoadModel \/ CollectResources \/ CheckVersion \/ Extract \/ LoadOverlay
      BY <2>4 DEF LoadModel, CollectResources, CheckVersion, Extract, LoadOverlay
    <2>5. CASE Merge \/ Transform \/ Time \/ Identify \/ Inspect \/ Exit
      BY <2>5 DEF Merge, Transform, Time, Identify, Inspect, Exit
    <2>. QED BY <2>1, <2>2, <2>3, <2>4, <2>5 DEF Next
  <1>4. BuildOptions' = BuildOptions
    BY <1>1, RequestUnchanged
  <1> SUFFICES ASSUME BuildOptions PROVE Judged'
    BY <1>4 DEF Judged
  <1>5. Reached(14)' /\ Reached(14)
    BY <1>1, VerdictKept DEF Judged
  <1>6. Outcome(command, exception)' \/ stage' \in BuildStages
    BY <1>2, <1>3, <1>5 DEF Outcome
  <1>7. /\ exits["validate"] # None => ValidateEnds(exits["validate"])'
        /\ exits["build"] # None => BuildEnds(exits["build"])'
    BY <1>1, EndsKept DEF Judged
  <1>8. ~Checking'
    BY <1>3 DEF Checking, SharedStages, BuildStages
  <1>9. stage' \in {"done", "failed"} => stage' \notin BuildStages
    BY DEF BuildStages
  <1>. QED BY <1>1, <1>5, <1>6, <1>7, <1>8, <1>9 DEF Judged

\* doctor and inspect.
LEMMA OtherJudged ==
    ASSUME Control, Judged, Next, stage \in {"energyplus", "library", "inspect"},
           command \notin {"validate", "build"}
    PROVE  Judged'
  <1> USE DEF Pass, Advance, Refuse, Raise
  <1>1. UNCHANGED <<request, todo, exits>> /\ stage' \in {"library", "convert", "done", "failed"}
    <2>1. CASE ResolveEnergyPlus
      BY <2>1 DEF ResolveEnergyPlus
    <2>2. CASE CheckOptions \/ CheckWeather \/ CheckLibrary \/ ConvertModel \/ LoadModel
      BY <2>2 DEF CheckOptions, CheckWeather, CheckLibrary, ConvertModel, LoadModel
    <2>3. CASE \/ CollectResources \/ CheckVersion \/ Extract \/ LoadOverlay
               \/ Merge \/ Transform \/ Time \/ Identify
      BY <2>3 DEF CollectResources, CheckVersion, Extract, LoadOverlay,
                  Merge, Transform, Time, Identify
    <2>4. CASE LoadAssets \/ Assemble \/ OpenFile \/ WriteFile \/ Inspect \/ StageFails \/ Exit
      BY <2>4 DEF LoadAssets, Assemble, OpenFile, WriteFile, Inspect, StageFails, Exit
    <2>. QED BY <2>1, <2>2, <2>3, <2>4 DEF Next
  <1>2. command' = command /\ BuildOptions' = BuildOptions
    BY <1>1, RequestUnchanged DEF command
  <1>3. BuildOptions =>
          /\ exits["validate"] # None => ValidateEnds(exits["validate"])'
          /\ exits["build"] # None => BuildEnds(exits["build"])'
    BY <1>1, EndsKept DEF Judged
  <1>4. ~Checking'
    BY <1>2 DEF Checking
  <1>5. stage' \notin BuildStages
    BY <1>1 DEF BuildStages
  <1>. QED BY <1>1, <1>2, <1>3, <1>4, <1>5 DEF Judged

LEMMA ExitJudged ==
    ASSUME Control, Filed, Judged, Exit
    PROVE  Judged'
  <1> DEFINE code == IF command = "validate" THEN ValidateExitCode(exception)
                                             ELSE ExitCode(exception)
  <1>1. /\ UNCHANGED request /\ stage \in {"done", "failed"}
        /\ exits' = [exits EXCEPT ![command] = code]
        /\ todo # <<>> /\ todo \in Seq(CommandNames)
    BY DEF Exit, Control
  <1>2. command \in CommandNames
    BY <1>1 DEF command
  <1>3. BuildOptions' = BuildOptions
    BY <1>1, RequestUnchanged
  <1> SUFFICES ASSUME BuildOptions PROVE Judged'
    BY <1>3 DEF Judged
  <1>4. exception \in Exceptions \cup {None}
    BY DEF Control
  <1>5. command \in {"validate", "build"} => Outcome(command, exception)
    BY <1>1 DEF Judged
  <1>6. /\ command = "validate" => ValidateEnds(code)
        /\ command = "build" => BuildEnds(code)
    BY <1>4, <1>5 DEF ValidateEnds, BuildEnds
  <1> HIDE DEF code
  <1>7. /\ exits'["validate"] = IF command = "validate" THEN code ELSE exits["validate"]
        /\ exits'["build"] = IF command = "build" THEN code ELSE exits["build"]
    BY <1>1, <1>2 DEF Filed, CommandNames
  <1>8. /\ exits'["validate"] # None => ValidateEnds(exits'["validate"])
        /\ exits'["build"] # None => BuildEnds(exits'["build"])
    BY <1>6, <1>7 DEF Judged
  <1>9. /\ (exits["validate"] # None => ValidateEnds(exits["validate"]))'
        /\ (exits["build"] # None => BuildEnds(exits["build"]))'
    BY <1>1, <1>8, EndsKept
  <1>10. stage' \in {"over", "energyplus", "options", "inspect"}
         /\ (stage' = "energyplus" => command' = "doctor")
    BY NextCommand
  <1>11. ASSUME Checking', NEW i \in Shared, stage' = Order[i] PROVE Reached(i)'
    <2>1. stage' = "options"
      BY <1>10, <1>11 DEF Checking, SharedStages
    <2>2. i = 1
      BY <1>11, <2>1, OrderFirst
    <2>. QED BY <1>1, <2>2, OrderFirst, VerdictKept
  <1>. QED BY <1>9, <1>10, <1>11 DEF Judged, BuildStages

LEMMA InitJudged == Init => Judged
  <1> SUFFICES ASSUME Init PROVE Judged
    OBVIOUS
  <1>1. command \in CommandNames
    <2>1. todo \in Seq(CommandNames) /\ todo # <<>>
      BY RequestsAssumption DEF Init
    <2>. QED BY <2>1 DEF command
  <1>2. stage \in {"energyplus", "options", "inspect"} /\ (stage = "energyplus" => command = "doctor")
    BY <1>1, FirstStageOf DEF Init, CommandNames
  <1>3. exits["validate"] = None /\ exits["build"] = None
    BY DEF Init, CommandNames
  <1>4. ASSUME Checking, NEW i \in Shared, stage = Order[i] PROVE Reached(i)
    <2>1. stage = "options"
      BY <1>2, <1>4 DEF Checking, SharedStages
    <2>2. i = 1
      BY <1>4, <2>1, OrderFirst
    <2>. QED BY <2>2, OrderFirst
  <1>. QED BY <1>2, <1>3, <1>4 DEF Judged, BuildStages

\* Only its exit follows the end of a command.
LEMMA StageEndsCommand ==
    ASSUME Control, Next, stage \in {"done", "failed", "over"}
    PROVE  Exit
  <1> USE DEF Pass, Advance, Refuse
  <1>1. ~StageFails
    <2>1. \A failure \in Failures : failure[1] \notin {"done", "failed", "over"}
      BY FailuresTyped DEF Stages
    <2>2. request.failing \subseteq Failures
      BY RequestsAssumption DEF Control
    <2>. QED BY <2>1, <2>2 DEF StageFails
  <1>2. /\ ~CheckOptions /\ ~CheckWeather /\ ~CheckLibrary /\ ~ConvertModel
        /\ ~ResolveEnergyPlus
    <2>1. ~CheckOptions /\ ~CheckWeather /\ ~CheckLibrary /\ ~ConvertModel
      BY DEF CheckOptions, CheckWeather, CheckLibrary, ConvertModel
    <2>2. ~ResolveEnergyPlus
      BY DEF ResolveEnergyPlus
    <2>. QED BY <2>1, <2>2
  <1>3. ~(LoadModel \/ CollectResources \/ CheckVersion \/ Extract \/ LoadOverlay)
    BY DEF LoadModel, CollectResources, CheckVersion, Extract, LoadOverlay
  <1>4. ~(Merge \/ Transform \/ Time \/ Identify \/ LoadAssets)
    BY DEF Merge, Transform, Time, Identify, LoadAssets
  <1>5. ~(Assemble \/ OpenFile \/ WriteFile \/ Inspect)
    BY DEF Assemble, OpenFile, WriteFile, Inspect
  <1>. QED BY <1>1, <1>2, <1>3, <1>4, <1>5 DEF Next

LEMMA NextJudged ==
    ASSUME Control, Prepared, Filed, Derived, Judged, [Next]_vars
    PROVE  Judged'
  <1>1. CASE UNCHANGED vars
    <2>1. UNCHANGED <<request, todo, stage, exception, exits>>
      BY <1>1 DEF vars
    <2>2. command' = command /\ BuildOptions' = BuildOptions /\ Checking' = Checking
      BY <2>1, RequestUnchanged DEF command, Checking
    <2>3. Reached(14)' = Reached(14) /\ \A i : Reached(i)' = Reached(i)
      BY <2>1, VerdictKept
    <2>4. Outcome(command, exception)' = Outcome(command, exception)
      BY <2>1, <2>2, VerdictKept
    <2>5. /\ ValidateEnds(exits["validate"])' = ValidateEnds(exits["validate"])
          /\ BuildEnds(exits["build"])' = BuildEnds(exits["build"])
      BY <2>1, EndsKept
    <2>. QED BY <2>1, <2>2, <2>3, <2>4, <2>5 DEF Judged
  <1>2. CASE Next /\ Checking
    BY <1>2, CheckJudged
  <1>3. CASE Next /\ stage \in BuildStages
    BY <1>3, BuildJudged
  <1>4. CASE Next /\ stage \in {"energyplus", "library", "inspect"}
             /\ command \notin {"validate", "build"}
    BY <1>4, OtherJudged
  <1>5. CASE Next /\ stage \in {"done", "failed", "over"}
    <2>1. Exit
      BY <1>5, StageEndsCommand
    <2>. QED BY <2>1, ExitJudged
  <1>6. Next => \/ Checking \/ stage \in BuildStages \/ stage \in {"done", "failed", "over"}
                \/ stage \in {"energyplus", "library", "inspect"}
                      /\ command \notin {"validate", "build"}
    BY DEF Control, Checking, Stages, SharedStages, BuildStages
  <1>. QED BY <1>1, <1>2, <1>3, <1>4, <1>5, <1>6

-----------------------------------------------------------------------------
(* EnergyPlus as the commands find it.                                     *)

\* The codes of both tables, apart from those of ValueError.
LEMMA CodesOf ==
    ASSUME NEW error \in Exceptions \cup {None}
    PROVE  /\ ExitCode(error) = 0 <=> error = None
           /\ ExitCode(error) \in {3, 4} =>
                  error \in {"EnergyPlusNotFoundError", "EnergyPlusVersionError"}
           /\ ValidateExitCode(error) = IF error = "ValueError" THEN 2 ELSE ExitCode(error)
           /\ ValidateExitCode(error) \in 0..6
           /\ ExitCode(error) \in 0..6
           /\ error = "ValueError" => ExitCode(error) = 1
           /\ error \in BuildErrors => ExitCode(error) \in {1, 6}
  <1>1. error = None => error # "ValueError"
    BY NoneAssumption DEF Exceptions
  <1>2. \/ error = None \/ error = "InvalidInputError" \/ error = "BadParameter"
        \/ error = "EnergyPlusNotFoundError" \/ error = "EnergyPlusVersionError"
        \/ error = "MappingError" \/ error = "PackagingError"
        \/ error = "ValueError" \/ error = "OtherError"
    BY DEF Exceptions
  <1>3. None \notin Exceptions
    BY NoneAssumption
  <1>4. /\ ExitCode(error) = 0 <=> error = None
        /\ ExitCode(error) \in {3, 4} =>
               error \in {"EnergyPlusNotFoundError", "EnergyPlusVersionError"}
        /\ ExitCode(error) \in 0..6
        /\ error = "ValueError" => ExitCode(error) = 1
        /\ error \in BuildErrors => ExitCode(error) \in {1, 6}
    BY <1>2, <1>3, ExitCodes DEF Exceptions, BuildErrors
  <1>5. ValidateExitCode(error) = IF error = "ValueError" THEN 2 ELSE ExitCode(error)
    BY DEF ValidateExitCode
  <1>. QED BY <1>4, <1>5

LEMMA InitInstalled == Init => Installed
  <1> SUFFICES ASSUME Init PROVE Installed
    OBVIOUS
  <1>1. exception = None /\ None \notin Exceptions
    BY NoneAssumption DEF Init
  <1>2. stage \in {"energyplus", "options", "inspect"}
    <2>1. todo \in Seq(CommandNames) /\ todo # <<>>
      BY RequestsAssumption DEF Init
    <2>2. command \in CommandNames
      BY <2>1 DEF command
    <2>. QED BY <2>2, FirstStageOf DEF Init, CommandNames
  <1>3. /\ exits["doctor"] = None /\ exits["validate"] = None /\ exits["build"] = None
        /\ None \notin Nat
    BY NoneAssumption DEF Init, CommandNames
  <1>. QED BY <1>1, <1>2, <1>3 DEF Installed, Exceptions

\* What a stage, or the environment, says of EnergyPlus.
LEMMA StageInstalled ==
    ASSUME Control, Installed, Next, ~Exit
    PROVE  Installed'
  <1>0. None \notin Exceptions
    BY NoneAssumption
  <1>1. UNCHANGED <<request, todo, exits>>
    <2> USE DEF Pass, Advance, Refuse, Raise
    <2>1. CASE ResolveEnergyPlus
      BY <2>1 DEF ResolveEnergyPlus
    <2>2. CASE CheckOptions \/ CheckWeather \/ CheckLibrary \/ ConvertModel \/ LoadModel
      BY <2>2 DEF CheckOptions, CheckWeather, CheckLibrary, ConvertModel, LoadModel
    <2>3. CASE \/ CollectResources \/ CheckVersion \/ Extract \/ LoadOverlay
               \/ Merge \/ Transform \/ Time \/ Identify
      BY <2>3 DEF CollectResources, CheckVersion, Extract, LoadOverlay,
                  Merge, Transform, Time, Identify
    <2>4. CASE LoadAssets \/ Assemble \/ OpenFile \/ WriteFile \/ Inspect \/ StageFails
      BY <2>4 DEF LoadAssets, Assemble, OpenFile, WriteFile, Inspect, StageFails
    <2>. QED BY <2>1, <2>2, <2>3, <2>4 DEF Next
  <1>2. command' = command /\ NotInstalled' = NotInstalled
    BY <1>1 DEF command, NotInstalled
  <1> USE DEF Pass, Advance, Refuse, Raise
  <1>3. /\ exception' \in {"EnergyPlusNotFoundError", "EnergyPlusVersionError"} =>
               command = "doctor" \/ NotInstalled
        /\ stage' \in {"library", "done"} /\ command = "doctor" => ~NotInstalled
    <2>1. CASE ResolveEnergyPlus
      BY <1>0, <2>1 DEF ResolveEnergyPlus, NotInstalled, Control, Exceptions
    <2>2. CASE CheckLibrary
      BY <1>0, <2>2 DEF CheckLibrary, NotInstalled, Control, Installed, Exceptions
    <2>3. CASE CheckOptions \/ CheckWeather \/ ConvertModel \/ LoadModel \/ CollectResources
      BY <1>0, <2>3 DEF CheckOptions, CheckWeather, ConvertModel, LoadModel, CollectResources,
                        Control, Exceptions, SharedStages
    <2>4. CASE CheckVersion \/ Extract \/ LoadOverlay \/ Merge \/ Transform \/ Time \/ Identify
      BY <1>0, <2>4 DEF CheckVersion, Extract, LoadOverlay, Merge, Transform, Time, Identify,
                        Control, Exceptions, SharedStages
    <2>5. CASE LoadAssets \/ Assemble \/ OpenFile \/ WriteFile \/ Inspect
      BY <1>0, <2>5 DEF LoadAssets, Assemble, OpenFile, WriteFile, Inspect,
                        Control, Exceptions, BuildStages
    <2>6. CASE StageFails
      <3>1. PICK failure \in request.failing : failure[1] = stage /\ Raise(failure[2])
        BY <2>6 DEF StageFails
      <3>2. failure \in Failures
        BY RequestsAssumption DEF Control
      <3>3. \A f \in Failures : f[2] \notin {"EnergyPlusNotFoundError", "EnergyPlusVersionError"}
        BY FailuresTyped
      <3>. QED BY <3>1, <3>2, <3>3
    <2>. QED BY <2>1, <2>2, <2>3, <2>4, <2>5, <2>6 DEF Next
  <1>. QED BY <1>1, <1>2, <1>3 DEF Installed

LEMMA ExitInstalled ==
    ASSUME Control, Filed, Installed, Exit
    PROVE  Installed'
  <1> DEFINE code == IF command = "validate" THEN ValidateExitCode(exception)
                                             ELSE ExitCode(exception)
  <1>1. /\ UNCHANGED request /\ stage \in {"done", "failed"} /\ exception' = None
        /\ exits' = [exits EXCEPT ![command] = code]
        /\ todo # <<>> /\ todo \in Seq(CommandNames)
    BY DEF Exit, Control
  <1>2. command \in CommandNames
    BY <1>1 DEF command
  <1>3. exception \in Exceptions \cup {None} /\ (exception = None => stage = "done")
    BY <1>1, NoneAssumption DEF Control
  <1>4. command = "doctor" /\ code = 0 => ~NotInstalled
    BY <1>1, <1>3, CodesOf DEF Installed
  <1>5. command \in {"validate", "build"} /\ code \in {3, 4} => NotInstalled
    BY <1>3, CodesOf DEF Installed
  <1> HIDE DEF code
  <1>6. /\ exits'["doctor"] = IF command = "doctor" THEN code ELSE exits["doctor"]
        /\ exits'["validate"] = IF command = "validate" THEN code ELSE exits["validate"]
        /\ exits'["build"] = IF command = "build" THEN code ELSE exits["build"]
    BY <1>1, <1>2 DEF Filed, CommandNames
  <1>7. stage' \in {"over", "energyplus", "options", "inspect"}
    BY NextCommand
  <1>8. exception' \notin {"EnergyPlusNotFoundError", "EnergyPlusVersionError"}
    BY <1>1, NoneAssumption DEF Exceptions
  <1>9. NotInstalled' = NotInstalled
    BY <1>1 DEF NotInstalled
  <1>10. exits'["doctor"] = 0 => ~NotInstalled
    BY <1>4, <1>6 DEF Installed
  <1>11. {exits'["validate"], exits'["build"]} \cap {3, 4} # {} => NotInstalled
    <2>1. exits'["validate"] \in {3, 4} => NotInstalled
      BY <1>5, <1>6 DEF Installed
    <2>2. exits'["build"] \in {3, 4} => NotInstalled
      BY <1>5, <1>6 DEF Installed
    <2>. QED BY <2>1, <2>2
  <1>. QED BY <1>7, <1>8, <1>9, <1>10, <1>11 DEF Installed

LEMMA NextInstalled ==
    ASSUME Control, Filed, Installed, [Next]_vars
    PROVE  Installed'
  <1>1. CASE UNCHANGED vars
    BY <1>1 DEF vars, Installed, NotInstalled, command
  <1>. QED BY <1>1, StageInstalled, ExitInstalled

-----------------------------------------------------------------------------
(* The theorems.                                                           *)

\* A code of validate and one of build on the same request.
LEMMA EndsAgree ==
    ASSUME Steady, NEW one, ValidateEnds(one), NEW other, BuildEnds(other)
    PROVE  \/ other = one
           \/ one = 0 /\ other \in {1, 6}
           \/ one = 2 /\ other = 1
  <1>1. PICK said \in Exceptions \cup {None} :
            Outcome("validate", said) /\ one = ValidateExitCode(said)
    BY DEF ValidateEnds
  <1>2. PICK done \in Exceptions \cup {None} : Outcome("build", done) /\ other = ExitCode(done)
    BY DEF BuildEnds
  <1>3. CASE Reached(14)
    <2>1. ~Verdict(said) /\ ~Verdict(done)
      BY <1>3, OneVerdict
    <2>2. said = None /\ done \in {None} \cup BuildErrors
      BY <1>1, <1>2, <2>1 DEF Outcome
    <2>3. "ValueError" # None
      BY NoneAssumption DEF Exceptions
    <2>4. one = 0
      BY <1>1, <2>2, <2>3, CodesOf
    <2>. QED BY <1>2, <2>2, <2>4, CodesOf
  <1>4. CASE ~Reached(14)
    <2>1. Verdict(said) /\ Verdict(done)
      BY <1>1, <1>2, <1>4 DEF Outcome
    <2>2. said = done
      BY <2>1, OneVerdict
    <2>. QED BY <1>1, <1>2, <2>2, CodesOf
  <1>. QED BY <1>3, <1>4

\* No command refuses a request that is in order in an environment that does not fail
\* (api.py, config.py, packaging.py).
THEOREM SpecRefusedForAReason == Spec => []RefusedForAReason
  <1>1. ASSUME Init PROVE RefusedForAReason
    BY <1>1 DEF Init, RefusedForAReason
  <1>2. QED
    BY <1>1, NextRefused, SpecSession, SpecContents, PTL DEF Spec

\* validate foretells the exit code of build, and doctor that neither minds EnergyPlus
\* (cli.py, api.py).
THEOREM SpecVerdictsAgree == Spec => []VerdictsAgree
  <1>1. Spec => [](Judged /\ Installed)
    <2>1. ASSUME Control, Prepared, Filed, Derived, Judged, Installed, [Next]_vars
          PROVE  Judged' /\ Installed'
      BY <2>1, NextJudged, NextInstalled
    <2>. QED BY <2>1, InitJudged, InitInstalled, SpecSession, SpecContents, PTL DEF Spec
  <1>2. ASSUME Judged, Installed PROVE VerdictsAgree
    <2>1. ASSUME exits["validate"] # None, exits["build"] # None, BuildOptions, Steady
          PROVE  \/ exits["build"] = exits["validate"]
                 \/ exits["validate"] = 0 /\ exits["build"] \in {1, 6}
                 \/ exits["validate"] = 2 /\ exits["build"] = 1
      <3>1. ValidateEnds(exits["validate"]) /\ BuildEnds(exits["build"])
        BY <1>2, <2>1 DEF Judged
      <3>. QED BY <2>1, <3>1, EndsAgree
    <2>2. exits["doctor"] = 0 => {exits["validate"], exits["build"]} \cap {3, 4} = {}
      BY <1>2 DEF Installed
    <2>. QED BY <2>1, <2>2 DEF VerdictsAgree
  <1>3. QED
    BY <1>1, <1>2, PTL
=============================================================================
