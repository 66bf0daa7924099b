----------------------------- MODULE ContentProofs -----------------------------
(***************************************************************************)
(* What the archive of any build says of the mappings: that its two        *)
(* descriptions of them agree, with each other and with what the user      *)
(* asked for, that the model beside them has what they address, and that   *)
(* inspect reports it.                                                     *)
(***************************************************************************)
EXTENDS ExportProofs, MappingProofs

\* What the stages make of the request, by themselves.
Legacy == ExtractLegacy(request.source.objects)
Resolved == MergeConfigs(Legacy, request.overlay)
Packed ==
    [files |-> [i \in DOMAIN request.source.references |-> request.source.references[i].name]]
        ++ request.source

\* What extract and overlay ask of the mappings.
Complete == \A object \in ToSet(request.source.objects) : WellFormed(object)
OverlayFits ==
    request.overlay # None =>
        /\ \A mapping \in ToSet(request.overlay.inputs \o request.overlay.outputs) :
               WellFormed(mapping)
        /\ UniqueNames(request.overlay)

PastTransform == {"timing"} \cup PastTiming
PastMerge == {"transform"} \cup PastTransform
PastExtract == {"overlay", "merge"} \cup PastMerge

\* The configuration and the model at each stage.
Derived ==
    /\ config \in Configs
    /\ UniqueNames(config)
    /\ stage \in {"version", "extract", "overlay", "merge", "transform"} => model = Packed
    /\ stage \in PastExtract => Complete /\ UniqueNames(Legacy)
    /\ stage \in {"overlay", "merge"} => config = Legacy
    /\ stage \in {"merge"} \cup PastMerge => OverlayFits
    /\ stage \in PastMerge => config = Resolved /\ NamesOf(config) # {}
    /\ stage \in PastTransform => model = TransformModel(Packed, config)

-----------------------------------------------------------------------------
(* The configuration.                                                      *)

LEMMA OverlayTyped ==
    ASSUME request \in Requests, request.overlay # None
    PROVE  IsOverlay(request.overlay)
  BY RequestsAssumption DEF IsOverlay

\* The model that is packed has the objects and the version of the source.
LEMMA PackedOf ==
    ASSUME request \in Requests
    PROVE  /\ Packed.objects = request.source.objects
           /\ Packed.version = request.source.version
  <1>1. {"objects", "version"} \subseteq DOMAIN request.source
    BY RequestsAssumption
  <1>. QED BY <1>1 DEF Packed, ++

LEMMA LegacyOf ==
    ASSUME request \in Requests
    PROVE  /\ Legacy \in Configs
           /\ ToSet(Legacy.inputs) =
                  {object \in ToSet(request.source.objects) : object.kind \in InputKinds}
           /\ ToSet(Legacy.outputs) =
                  {object \in ToSet(request.source.objects) : object.kind \in OutputKinds}
           /\ ToSet(request.source.objects) = ToSet(Legacy.inputs) \cup ToSet(Legacy.outputs)
           /\ Distinct(request.source.objects) => UniqueNames(Legacy)
  <1>1. request.source.objects \in Seq({mapping \in Mappings : mapping.kind # "meter"})
    BY RequestsAssumption
  <1>. QED BY <1>1, ExtractLegacyIs DEF Legacy

\* The mappings of the resolved configuration: those of the overlay, and the legacy
\* objects it does not name.
LEMMA ResolvedOf ==
    ASSUME request \in Requests, UniqueNames(Legacy), OverlayFits
    PROVE  /\ Resolved \in Configs
           /\ UniqueNames(Resolved)
           /\ \A mapping \in ToSet(Resolved.inputs) : mapping.kind \in InputKinds
           /\ \A mapping \in ToSet(Resolved.outputs) : mapping.kind \in OutputKinds
           /\ \A x : x \in ToSet(Resolved.inputs) \cup ToSet(Resolved.outputs) <=>
                         \/ x \in ToSet(Overlaid)
                         \/ x \in ToSet(request.source.objects) /\ x.name \notin NamesIn(Overlaid)
  <1> DEFINE objects == ToSet(request.source.objects)
             overlay == request.overlay
  <1>1. /\ Legacy \in Configs
        /\ \A mapping \in ToSet(Legacy.inputs) : mapping.kind \in InputKinds
        /\ \A mapping \in ToSet(Legacy.outputs) : mapping.kind \in OutputKinds
        /\ objects = ToSet(Legacy.inputs) \cup ToSet(Legacy.outputs)
    BY LegacyOf
  <1> HIDE DEF objects
  <1>2. CASE overlay = None
    <2>1. Resolved = Legacy
      BY <1>2 DEF Resolved, MergeConfigs
    <2>2. ToSet(Overlaid) = {} /\ NamesIn(Overlaid) = {}
      BY <1>2 DEF Overlaid, ToSet, NamesIn
    <2>. QED BY <1>1, <2>1, <2>2 DEF objects
  <1>3. CASE overlay # None
    <2> DEFINE N == NamesOf(overlay)
    <2>1. /\ Overlaid = overlay.inputs \o overlay.outputs
          /\ UniqueNames(overlay)
      BY <1>3 DEF Overlaid, OverlayFits
    <2>2. IsOverlay(overlay)
      BY <1>3, OverlayTyped
    <2>3. /\ overlay.inputs \in Seq(Mappings) /\ overlay.outputs \in Seq(Mappings)
          /\ \A mapping \in ToSet(overlay.inputs) : mapping.kind \in InputKinds
          /\ \A mapping \in ToSet(overlay.outputs) : mapping.kind \in OutputKinds
      BY <2>2 DEF IsOverlay, ToSet
    <2>4. /\ ToSet(Overlaid) = ToSet(overlay.inputs) \cup ToSet(overlay.outputs)
          /\ NamesIn(Overlaid) = N
      BY <2>1, <2>3, DistinctConcat DEF NamesOf
    <2> DEFINE Kept(mappings) == {mapping \in ToSet(mappings) : mapping.name \notin N}
               merged == MergeConfigs(Legacy, overlay)
    <2> HIDE DEF overlay
    <2>5. merged \in Configs /\ UniqueNames(merged)
      BY <1>1, <1>3, <2>1, <2>2, MergeConfigsIs
    <2>6. /\ ToSet(merged.inputs) = Kept(Legacy.inputs) \cup ToSet(overlay.inputs)
          /\ ToSet(merged.outputs) = Kept(Legacy.outputs) \cup ToSet(overlay.outputs)
      BY <1>1, <1>3, <2>1, <2>2, MergeConfigsIs
    <2>7. Resolved = merged
      BY DEF Resolved, overlay
    <2> HIDE DEF merged, N
    <2>8. /\ \A mapping \in ToSet(merged.inputs) : mapping.kind \in InputKinds
          /\ \A mapping \in ToSet(merged.outputs) : mapping.kind \in OutputKinds
      BY <1>1, <2>3, <2>6
    <2>9. \A x : x \in ToSet(merged.inputs) \cup ToSet(merged.outputs) <=>
                     \/ x \in ToSet(Overlaid)
                     \/ x \in objects /\ x.name \notin NamesIn(Overlaid)
      BY <1>1, <2>4, <2>6
    <2>. QED BY <2>5, <2>7, <2>8, <2>9 DEF objects
  <1>. QED BY <1>2, <1>3

LEMMA UniqueMappings ==
    ASSUME NEW resolved \in Configs, UniqueNames(resolved),
           NEW one \in ToSet(resolved.inputs) \cup ToSet(resolved.outputs),
           NEW other \in ToSet(resolved.inputs) \cup ToSet(resolved.outputs),
           one.name = other.name
    PROVE  one = other
  <1>1. resolved.inputs \in Seq(Mappings) /\ resolved.outputs \in Seq(Mappings)
    BY DEF Configs
  <1>2. /\ Distinct(resolved.inputs) /\ Distinct(resolved.outputs)
        /\ Apart(resolved.inputs, resolved.outputs)
    BY <1>1, UniqueNamesAre
  <1>3. CASE one \in ToSet(resolved.inputs) /\ other \in ToSet(resolved.inputs)
    BY <1>1, <1>2, <1>3, DistinctCount
  <1>4. CASE one \in ToSet(resolved.outputs) /\ other \in ToSet(resolved.outputs)
    BY <1>1, <1>2, <1>4, DistinctCount
  <1>. QED BY <1>2, <1>3, <1>4 DEF Apart

\* A mapping of the resolved configuration is the one the user means by its name.
LEMMA IntendedIs ==
    ASSUME request \in Requests, UniqueNames(Legacy), OverlayFits
    PROVE  /\ \A mapping \in ToSet(Resolved.inputs) \cup ToSet(Resolved.outputs) :
                  Intended(mapping.name) = {Dumped(mapping)}
           /\ NamesOf(Resolved) = IntendedNames
  <1> DEFINE objects == request.source.objects
             M == ToSet(Resolved.inputs) \cup ToSet(Resolved.outputs)
             A == ToSet(Overlaid)
             B == ToSet(objects)
             N == NamesIn(Overlaid)
  <1>1. \A x : x \in M <=> x \in A \/ (x \in B /\ x.name \notin N)
    BY ResolvedOf
  <1>2. \A x, y \in M : x.name = y.name => x = y
    BY ResolvedOf, UniqueMappings
  <1>3. /\ N = {x.name : x \in A}
        /\ IntendedNames = {x.name : x \in B} \cup N
    BY DEF NamesIn, IntendedNames
  <1>4. NamesOf(Resolved) = {x.name : x \in M}
    BY DEF NamesOf, NamesIn
  <1> HIDE DEF M, N
  <1>5. ASSUME NEW mapping \in M PROVE Intended(mapping.name) = {Dumped(mapping)}
    <2> DEFINE Found(S) == {m \in S : m.name = mapping.name}
               Named(S) == {Dumped(m) : m \in Found(S)}
    <2>1. Intended(mapping.name) = IF Named(A) # {} THEN Named(A) ELSE Named(B)
      BY Zenon DEF Intended
    <2> HIDE DEF A, B
    <2>2. CASE mapping \in A
      <3>1. Found(A) = {mapping}
        BY <1>1, <1>2, <2>2
      <3> HIDE DEF Found
      <3>2. Named(A) = {Dumped(mapping)}
        BY <3>1
      <3>. QED BY <2>1, <3>2
    <2>3. CASE mapping \notin A
      <3>1. mapping \in B /\ mapping.name \notin N
        BY <1>1, <2>3
      <3>2. Found(A) = {}
        BY <1>3, <3>1
      <3>3. Found(B) = {mapping}
        BY <1>1, <1>2, <3>1
      <3> HIDE DEF Found
      <3>4. Named(A) = {} /\ Named(B) = {Dumped(mapping)}
        BY <3>2, <3>3
      <3>. QED BY <2>1, <3>4
    <2>. QED BY <2>2, <2>3
  <1>6. NamesOf(Resolved) = IntendedNames
    <2> HIDE DEF A, B
    <2>. QED BY <1>1, <1>3, <1>4
  <1>. QED BY <1>5, <1>6 DEF M

-----------------------------------------------------------------------------
(* The configuration and the model at each stage.                          *)

LEMMA NothingTyped == Nothing.config \in Configs /\ UniqueNames(Nothing.config)
  <1> DEFINE empty == [inputs |-> <<>>, outputs |-> <<>>]
  <1>1. empty \in Configs
    BY DEF Configs
  <1>2. NamesOf(empty) = {}
    BY DEF NamesOf, NamesIn, ToSet
  <1>3. UniqueNames(empty)
    BY <1>2, FS_EmptySet DEF UniqueNames
  <1>4. Nothing.config = empty
    BY DEF Nothing
  <1>. QED BY <1>1, <1>3, <1>4

LEMMA InitDerived == Init => Derived
  <1> SUFFICES ASSUME Init PROVE Derived
    OBVIOUS
  <1>1. stage \in {"energyplus", "options", "inspect"}
    <2>1. command \in CommandNames
      BY CommandsGiven DEF Init, command
    <2>. QED BY <2>1, FirstStageOf DEF Init, CommandNames
  <1>. QED BY <1>1, NothingTyped
           DEF Init, Derived, PastExtract, PastMerge, PastTransform, PastTiming, BuildStages

LEMMA DerivedFrom ==
    ASSUME UNCHANGED request
    PROVE  /\ Legacy' = Legacy /\ Resolved' = Resolved /\ Packed' = Packed
           /\ Complete' = Complete /\ OverlayFits' = OverlayFits
  BY DEF Legacy, Resolved, Packed, Complete, OverlayFits

\* Stages that leave configuration and model as they are.
LEMMA PassDerived ==
    ASSUME Derived, UNCHANGED <<request, config, model>>,
           \/ stage' \notin {"version"} \cup {"extract"} \cup PastExtract
           \/ stage = "version" /\ stage' = "extract"
           \/ stage = "overlay" /\ stage' = "merge" /\ OverlayFits
           \/ stage \in PastTransform /\ stage' \in PastTransform
    PROVE  Derived'
  <1> USE DEF PastExtract, PastMerge, PastTransform, PastTiming, BuildStages
  <1>1. CASE stage' \notin {"version"} \cup {"extract"} \cup PastExtract
    BY <1>1 DEF Derived
  <1>2. CASE stage = "version" /\ stage' = "extract"
    BY <1>2, DerivedFrom DEF Derived
  <1>3. CASE stage = "overlay" /\ stage' = "merge" /\ OverlayFits
    BY <1>3, DerivedFrom DEF Derived
  <1>4. CASE stage \in PastTransform /\ stage' \in PastTransform
    BY <1>4, DerivedFrom DEF Derived
  <1>. QED BY <1>1, <1>2, <1>3, <1>4

LEMMA CollectDerived ==
    ASSUME Prepared, Derived, CollectResources, stage' # "failed"
    PROVE  Derived'
  <1>1. /\ UNCHANGED <<request, config>> /\ stage = "resources" /\ stage' = "version"
        /\ model' = [files |-> [i \in DOMAIN model.references |->
                                  model.references[i].name]] ++ model
    BY DEF CollectResources, Advance, Refuse, Raise
  <1>2. model = request.source
    BY <1>1 DEF Prepared
  <1>3. model' = Packed'
    BY <1>1, <1>2 DEF Packed
  <1>. QED BY <1>1, <1>3 DEF Derived, PastExtract, PastMerge, PastTransform, PastTiming, BuildStages

LEMMA ExtractDerived ==
    ASSUME Control, Derived, Extract, stage' # "failed"
    PROVE  Derived'
  <1> DEFINE legacy == ExtractLegacy(model.objects)
             complete == \A object \in ToSet(model.objects) : WellFormed(object)
  <1>1. /\ UNCHANGED <<request, model>> /\ stage = "extract" /\ stage' = "overlay"
        /\ complete /\ UniqueNames(legacy) /\ config' = legacy
    BY DEF Extract, Advance, Refuse, Raise
  <1>2. request \in Requests /\ model = Packed
    BY <1>1 DEF Control, Derived
  <1>3. model.objects = request.source.objects
    BY <1>2, PackedOf
  <1>4. legacy = Legacy /\ complete = Complete
    BY <1>3 DEF Legacy, Complete
  <1>5. Legacy \in Configs
    BY <1>2, LegacyOf
  <1> HIDE DEF legacy, complete
  <1>6. /\ config' \in Configs /\ UniqueNames(config') /\ config' = Legacy'
        /\ Complete' /\ UniqueNames(Legacy)' /\ model' = Packed'
    BY <1>1, <1>2, <1>4, <1>5, DerivedFrom
  <1>. QED BY <1>1, <1>6 DEF Derived, PastMerge, PastTransform, PastTiming, BuildStages

LEMMA MergeDerived ==
    ASSUME Control, Derived, Merge, stage' # "failed"
    PROVE  Derived'
  <1> DEFINE merged == MergeConfigs(config, request.overlay)
  <1>1. /\ UNCHANGED <<request, model>> /\ stage = "merge" /\ stage' = "transform"
        /\ NamesOf(merged) # {} /\ config' = merged
    BY DEF Merge, Advance, Refuse, Raise
  <1>2. /\ request \in Requests /\ config = Legacy /\ model = Packed
        /\ Complete /\ UniqueNames(Legacy) /\ OverlayFits
    BY <1>1 DEF Control, Derived, PastExtract
  <1>3. merged = Resolved
    BY <1>2 DEF Resolved
  <1>4. Resolved \in Configs /\ UniqueNames(Resolved)
    BY <1>2, ResolvedOf
  <1> HIDE DEF merged
  <1>5. /\ config' \in Configs /\ UniqueNames(config') /\ config' = Resolved'
        /\ NamesOf(config') # {} /\ Complete' /\ UniqueNames(Legacy)' /\ OverlayFits'
        /\ model' = Packed'
    BY <1>1, <1>2, <1>3, <1>4, DerivedFrom
  <1>. QED BY <1>1, <1>5 DEF Derived, PastTransform, PastTiming, BuildStages

LEMMA TransformDerived ==
    ASSUME Derived, Transform
    PROVE  Derived'
  <1>1. /\ UNCHANGED <<request, config>> /\ stage = "transform" /\ stage' = "timing"
        /\ model' = TransformModel(model, config)
    BY DEF Transform, Advance
  <1>2. /\ config = Resolved /\ NamesOf(config) # {} /\ model = Packed
        /\ Complete /\ UniqueNames(Legacy) /\ OverlayFits
    BY <1>1 DEF Derived, PastExtract, PastMerge
  <1>3. model' = TransformModel(Packed', config')
    BY <1>1, <1>2, DerivedFrom
  <1>. QED BY <1>1, <1>2, <1>3, DerivedFrom DEF Derived

LEMMA ExitDerived ==
    ASSUME Control, Exit
    PROVE  Derived'
  <1>1. config' = Nothing.config
    BY DEF Exit
  <1>2. stage' \in {"over", "energyplus", "options", "inspect"}
    BY NextCommand
  <1>3. config' \in Configs /\ UniqueNames(config')
    BY <1>1, NothingTyped
  <1>. QED BY <1>2, <1>3
           DEF Derived, PastExtract, PastMerge, PastTransform, PastTiming, BuildStages

LEMMA NextDerived ==
    ASSUME Control, Prepared, Derived, [Next]_vars
    PROVE  Derived'
  <1> USE DEF Pass, Refuse, Raise, Advance, prepared,
              PastExtract, PastMerge, PastTransform, PastTiming, BuildStages
  <1>1. CASE UNCHANGED vars
    BY <1>1, DerivedFrom DEF vars, Derived
  <1>2. CASE CheckOptions \/ CheckWeather \/ ResolveEnergyPlus \/ CheckLibrary \/ ConvertModel
    BY <1>2, PassDerived
    DEF CheckOptions, CheckWeather, ResolveEnergyPlus, CheckLibrary, ConvertModel
  <1>3. CASE LoadModel
    BY <1>3 DEF LoadModel, Derived
  <1>4. CASE CheckVersion \/ LoadOverlay
    <2>1. LoadOverlay => OverlayFits \/ stage' = "failed"
      BY DEF LoadOverlay, OverlayFits
    <2>. QED BY <1>4, <2>1, PassDerived DEF CheckVersion, LoadOverlay
  <1>5. CASE Time \/ Identify \/ LoadAssets \/ Assemble
    BY <1>5, PassDerived DEF Time, Identify, LoadAssets, Assemble
  <1>6. CASE OpenFile \/ WriteFile \/ Inspect \/ StageFails
    BY <1>6, PassDerived DEF OpenFile, WriteFile, Inspect, StageFails
  <1>7. CASE (CollectResources \/ Extract \/ Merge) /\ stage' = "failed"
    BY <1>7, PassDerived DEF CollectResources, Extract, Merge
  <1>. QED BY <1>1, <1>2, <1>3, <1>4, <1>5, <1>6, <1>7, CollectDerived, ExtractDerived,
              MergeDerived, TransformDerived, ExitDerived DEF Next

-----------------------------------------------------------------------------
(* What the archive says.                                                  *)

\* What is written is what the stages have made of the request.
LEMMA WrittenFrom ==
    ASSUME Control, Derived, stage = "write"
    PROVE  /\ request \in Requests /\ Complete /\ UniqueNames(Legacy) /\ OverlayFits
           /\ config \in Configs /\ UniqueNames(config) /\ config = Resolved
           /\ model = TransformModel(Packed, config)
  BY DEF Control, Derived, PastExtract, PastMerge, PastTransform, PastTiming, BuildStages

\* The members of the two descriptions that come from the mappings.
LEMMA DescriptionFrom ==
    /\ Description.variables = ModelDescription(config).variables
    /\ Description.dependencies = ModelDescription(config).dependencies
    /\ Description.unknowns = ModelDescription(config).unknowns
  BY DEF Description, ModelDescription, ++

LEMMA PayloadFrom ==
    /\ Payload.inputs = SortedDump(config.inputs)
    /\ Payload.outputs = SortedDump(config.outputs)
  BY DEF Payload, MappingPayload, ++

\* The variables of the description, block by block.
LEMMA VariablesOf ==
    ASSUME config \in Configs, UniqueNames(config)
    PROVE  InBlocks(config, Description, Payload)
  <1>1. config.inputs \in Seq(Mappings) /\ config.outputs \in Seq(Mappings)
    BY DEF Configs
  <1>. QED BY <1>1, DescriptionFrom, PayloadFrom, DescribedVariables

LEMMA ShortSequences ==
    ASSUME NEW S, NEW a \in S, NEW b \in S
    PROVE  /\ <<a>> \in Seq(S) /\ Len(<<a>>) = 1 /\ <<a>>[1] = a
           /\ <<a, b>> \in Seq(S) /\ Len(<<a, b>>) = 2 /\ <<a, b>>[1] = a
  OBVIOUS

LEMMA FirstOfConcat ==
    ASSUME NEW S, NEW p \in Seq(S), NEW w \in Seq(S), Len(p) > 0
    PROVE  p \o w \in Seq(S) /\ Len(p \o w) > 0 /\ (p \o w)[1] = p[1]
  OBVIOUS

\* Whatever the name, what is left of it is a C identifier.
LEMMA SanitizedOf ==
    ASSUME NEW name \in Seq(Characters)
    PROVE  LET identifier == Sanitized(name)
           IN  /\ Len(identifier) > 0 /\ Head(identifier) # "digit"
               /\ ToSet(identifier) \subseteq {"letter", "digit", "_"}
  <1> DEFINE Word(i) == name[i] \in {"letter", "digit"}
             Joins(i) == /\ i > 1 /\ Word(i - 1)
                         /\ \E j \in DOMAIN name : j > i /\ Word(j)
             P == {i \in DOMAIN name : Word(i) \/ Joins(i)}
             kept == Ascending(P)
             n == Cardinality(P)
             word == [k \in DOMAIN kept |-> IF Word(kept[k]) THEN name[kept[k]] ELSE "_"]
             identifier == IF word = <<>> THEN <<"letter">>
                           ELSE IF Head(word) = "digit" THEN <<"letter", "_">> \o word
                           ELSE word
             letters == {"letter", "digit", "_"}
  <1>1. Sanitized(name) = identifier
    BY DEF Sanitized
  <1>2. P \in SUBSET (1..Len(name)) /\ Len(name) \in Nat
    OBVIOUS
  <1> HIDE DEF P
  <1>3. n \in Nat /\ kept \in [1..n -> P]
    BY <1>2, AscendingIs
  <1> HIDE DEF kept, n
  <1>4. word \in [1..n -> letters]
    BY <1>3
  <1> HIDE DEF word, letters
  <1>5. word \in Seq(letters)
    BY <1>3, <1>4
  <1>6. {"letter", "_"} \subseteq letters
    BY DEF letters
  <1>7. identifier \in Seq(letters) /\ Len(identifier) > 0 /\ identifier[1] # "digit"
    <2>1. CASE word = <<>>
      <3> DEFINE only == <<"letter">>
      <3>1. identifier = only
        BY <2>1
      <3>2. only \in Seq(letters) /\ Len(only) = 1 /\ only[1] = "letter"
        BY <1>6, ShortSequences
      <3> HIDE DEF only, identifier
      <3>. QED BY <3>1, <3>2
    <2>2. CASE word # <<>> /\ Head(word) = "digit"
      <3> DEFINE prefix == <<"letter", "_">>
      <3>1. prefix \in Seq(letters) /\ Len(prefix) = 2 /\ prefix[1] = "letter"
        BY <1>6, ShortSequences
      <3>2. identifier = prefix \o word
        BY <2>2
      <3> HIDE DEF prefix, identifier
      <3>3. /\ prefix \o word \in Seq(letters) /\ Len(prefix \o word) > 0
            /\ (prefix \o word)[1] = prefix[1]
        BY <1>5, <3>1, FirstOfConcat
      <3>. QED BY <3>1, <3>2, <3>3
    <2>3. CASE word # <<>> /\ Head(word) # "digit"
      <3>1. identifier = word
        BY <2>3
      <3> HIDE DEF identifier
      <3>2. Len(word) > 0 /\ word[1] # "digit"
        BY <1>5, <2>3
      <3>. QED BY <1>5, <3>1, <3>2
    <2>. QED BY <2>1, <2>2, <2>3
  <1> HIDE DEF identifier
  <1>8. Head(identifier) # "digit" /\ ToSet(identifier) \subseteq letters
    BY <1>7 DEF ToSet
  <1>. QED BY <1>1, <1>7, <1>8 DEF letters

LEMMA IdentifierOf ==
    ASSUME request \in Requests
    PROVE  /\ Len(Identifier) > 0 /\ Head(Identifier) # "digit"
           /\ ToSet(Identifier) \subseteq {"letter", "digit", "_"}
  <1> DEFINE name == IF ModelNamed THEN request.overlay.model ELSE request.source.stem
  <1>1. name \in Seq(Characters)
    BY RequestsAssumption DEF ModelNamed
  <1>2. Identifier = Sanitized(name)
    BY DEF Identifier
  <1> HIDE DEF name
  <1>. QED BY <1>1, <1>2, SanitizedOf

\* The positions of the inputs and of the outputs.
LEMMA StructureOf ==
    ASSUME config \in Configs, UniqueNames(config)
    PROVE  LET Positions(causality) ==
                   {i \in DOMAIN Description.variables :
                       Description.variables[i].causality = causality}
           IN  /\ Description.unknowns = Positions("output")
               /\ Description.dependencies = Positions("input")
  <1> DEFINE m == Len(config.inputs)
             n == Len(config.outputs)
             p == ParameterCount
             V == Description.variables
  <1>1. m \in Nat /\ n \in Nat /\ p \in Nat
    BY DEF Configs, ParameterCount
  <1>2. /\ DOMAIN V = 1..(p + m + n)
        /\ \A i \in 1..p : V[i].causality = "parameter"
        /\ \A i \in 1..m : V[p + i].causality = "input"
        /\ \A i \in 1..n : V[p + m + i].causality = "output"
        /\ Description.dependencies = (p + 1)..(p + m)
        /\ Description.unknowns = (p + 1 + m)..(p + m + n)
    BY VariablesOf DEF InBlocks
  <1> HIDE DEF m, n, p, V
  <1>3. ASSUME NEW i \in 1..(p + m + n)
        PROVE  /\ V[i].causality = "input" <=> i \in (p + 1)..(p + m)
               /\ V[i].causality = "output" <=> i \in (p + 1 + m)..(p + m + n)
    <2>1. CASE i \in 1..p
      BY <1>1, <1>2, <2>1
    <2>2. CASE i \in (p + 1)..(p + m)
      <3>1. i - p \in 1..m /\ p + (i - p) = i
        BY <1>1, <2>2
      <3>2. V[i].causality = "input"
        BY <1>2, <3>1
      <3>. QED BY <1>1, <2>2, <3>2
    <2>3. CASE i \in (p + 1 + m)..(p + m + n)
      <3>1. i - p - m \in 1..n /\ p + m + (i - p - m) = i
        BY <1>1, <2>3
      <3>2. V[i].causality = "output"
        BY <1>2, <3>1
      <3>. QED BY <1>1, <2>3, <3>2
    <2>. QED BY <1>1, <2>1, <2>2, <2>3
  <1>4. /\ \A i \in (p + 1)..(p + m) : i \in 1..(p + m + n)
        /\ \A i \in (p + 1 + m)..(p + m + n) : i \in 1..(p + m + n)
    BY <1>1
  <1>5. /\ Description.dependencies = {i \in DOMAIN V : V[i].causality = "input"}
        /\ Description.unknowns = {i \in DOMAIN V : V[i].causality = "output"}
    BY <1>2, <1>3, <1>4
  <1>. QED BY <1>5 DEF V

\* What ReferencesReachMappings asks of two descriptions of the mappings.
References(description, payload) ==
    LET Of(causality) ==
            {v \in ToSet(description.variables) : v.causality = causality}
    IN  /\ \A v \in Of("input") :
               Intended(v.name) = {AddressedInput(payload, v.reference)}
        /\ \A v \in Of("output") :
               Intended(v.name) = {AddressedOutput(payload, v.reference)}
        /\ {v.name : v \in Of("input") \cup Of("output")} = IntendedNames

\* A variable is that of a mapping, which it reaches.
LEMMA VariableOf ==
    ASSUME config \in Configs, UniqueNames(config)
    PROVE  LET V == ToSet(Description.variables)
           IN  /\ \A v \in V : v.causality = "input" =>
                      \E mapping \in ToSet(config.inputs) :
                          /\ v.name = mapping.name
                          /\ AddressedInput(Payload, v.reference) = Dumped(mapping)
               /\ \A v \in V : v.causality = "output" =>
                      \E mapping \in ToSet(config.outputs) :
                          /\ v.name = mapping.name
                          /\ AddressedOutput(Payload, v.reference) = Dumped(mapping)
               /\ \A mapping \in ToSet(config.inputs) :
                      \E v \in V : v.causality = "input" /\ v.name = mapping.name
               /\ \A mapping \in ToSet(config.outputs) :
                      \E v \in V : v.causality = "output" /\ v.name = mapping.name
  <1> DEFINE m == Len(config.inputs)
             n == Len(config.outputs)
             p == ParameterCount
             inputs == SortedByName(ToSet(config.inputs))
             outputs == SortedByName(ToSet(config.outputs))
             V == Description.variables
  <1>1. m \in Nat /\ n \in Nat /\ p \in Nat
    BY DEF Configs, ParameterCount
  <1>2. /\ DOMAIN V = 1..(p + m + n)
        /\ \A i \in 1..m :
               /\ V[p + i].causality = "input"
               /\ V[p + i].name = inputs[i].name
               /\ AddressedInput(Payload, V[p + i].reference) = Dumped(inputs[i])
        /\ \A i \in 1..n :
               /\ V[p + m + i].causality = "output"
               /\ V[p + m + i].name = outputs[i].name
               /\ AddressedOutput(Payload, V[p + m + i].reference) = Dumped(outputs[i])
        /\ Description.dependencies = (p + 1)..(p + m)
        /\ Description.unknowns = (p + 1 + m)..(p + m + n)
    BY VariablesOf DEF InBlocks
  <1>3. /\ Description.dependencies = {i \in DOMAIN V : V[i].causality = "input"}
        /\ Description.unknowns = {i \in DOMAIN V : V[i].causality = "output"}
    BY StructureOf
  <1>4. /\ config.inputs \in Seq(Mappings) /\ config.outputs \in Seq(Mappings)
        /\ Distinct(config.inputs) /\ Distinct(config.outputs)
    BY UniqueNamesAre DEF Configs
  <1>5. /\ DOMAIN inputs = 1..m /\ ToSet(inputs) = ToSet(config.inputs)
        /\ DOMAIN outputs = 1..n /\ ToSet(outputs) = ToSet(config.outputs)
    BY <1>4, SortedDumpIs
  <1> HIDE DEF m, n, p, inputs, outputs, V
  <1>6. ASSUME NEW v \in ToSet(V), v.causality = "input"
        PROVE  \E mapping \in ToSet(config.inputs) :
                   /\ v.name = mapping.name
                   /\ AddressedInput(Payload, v.reference) = Dumped(mapping)
    <2>1. PICK i \in DOMAIN V : v = V[i]
      BY DEF ToSet
    <2>2. i \in (p + 1)..(p + m)
      BY <1>2, <1>3, <1>6, <2>1
    <2>3. i - p \in 1..m /\ p + (i - p) = i
      BY <1>1, <2>2
    <2>4. inputs[i - p] \in ToSet(config.inputs)
      BY <1>5, <2>3 DEF ToSet
    <2>. QED BY <1>2, <2>1, <2>3, <2>4
  <1>7. ASSUME NEW v \in ToSet(V), v.causality = "output"
        PROVE  \E mapping \in ToSet(config.outputs) :
                   /\ v.name = mapping.name
                   /\ AddressedOutput(Payload, v.reference) = Dumped(mapping)
    <2>1. PICK i \in DOMAIN V : v = V[i]
      BY DEF ToSet
    <2>2. i \in (p + 1 + m)..(p + m + n)
      BY <1>2, <1>3, <1>7, <2>1
    <2>3. i - p - m \in 1..n /\ p + m + (i - p - m) = i
      BY <1>1, <2>2
    <2>4. outputs[i - p - m] \in ToSet(config.outputs)
      BY <1>5, <2>3 DEF ToSet
    <2>. QED BY <1>2, <2>1, <2>3, <2>4
  <1>8. ASSUME NEW mapping \in ToSet(config.inputs)
        PROVE  \E v \in ToSet(V) : v.causality = "input" /\ v.name = mapping.name
    <2>1. PICK i \in 1..m : mapping = inputs[i]
      BY <1>5 DEF ToSet
    <2>2. p + i \in DOMAIN V
      BY <1>1, <1>2
    <2>. QED BY <1>2, <2>1, <2>2 DEF ToSet
  <1>9. ASSUME NEW mapping \in ToSet(config.outputs)
        PROVE  \E v \in ToSet(V) : v.causality = "output" /\ v.name = mapping.name
    <2>1. PICK i \in 1..n : mapping = outputs[i]
      BY <1>5 DEF ToSet
    <2>2. p + m + i \in DOMAIN V
      BY <1>1, <1>2
    <2>. QED BY <1>2, <2>1, <2>2 DEF ToSet
  <1>. QED BY <1>6, <1>7, <1>8, <1>9 DEF V

LEMMA ReferencesOf ==
    ASSUME request \in Requests, UniqueNames(Legacy), OverlayFits,
           config \in Configs, UniqueNames(config), config = Resolved
    PROVE  References(Description, Payload)
  <1> DEFINE V == ToSet(Description.variables)
             I == ToSet(config.inputs)
             O == ToSet(config.outputs)
  <1>1. /\ \A mapping \in I \cup O : Intended(mapping.name) = {Dumped(mapping)}
        /\ NamesOf(config) = IntendedNames
    BY IntendedIs
  <1>2. NamesOf(config) = {mapping.name : mapping \in I} \cup {mapping.name : mapping \in O}
    BY DEF NamesOf, NamesIn
  <1>3. /\ \A v \in V : v.causality = "input" =>
               \E mapping \in I :
                   /\ v.name = mapping.name
                   /\ AddressedInput(Payload, v.reference) = Dumped(mapping)
        /\ \A v \in V : v.causality = "output" =>
               \E mapping \in O :
                   /\ v.name = mapping.name
                   /\ AddressedOutput(Payload, v.reference) = Dumped(mapping)
        /\ \A mapping \in I : \E v \in V : v.causality = "input" /\ v.name = mapping.name
        /\ \A mapping \in O : \E v \in V : v.causality = "output" /\ v.name = mapping.name
    BY VariableOf
  <1> DEFINE Of(causality) == {v \in V : v.causality = causality}
  <1> HIDE DEF V, I, O
  <1>4. ASSUME NEW v \in V, v.causality = "input"
        PROVE  Intended(v.name) = {AddressedInput(Payload, v.reference)}
    <2>1. PICK mapping \in I : /\ v.name = mapping.name
                               /\ AddressedInput(Payload, v.reference) = Dumped(mapping)
      BY <1>3, <1>4
    <2>2. Intended(mapping.name) = {Dumped(mapping)}
      BY <1>1
    <2>3. Intended(v.name) = Intended(mapping.name)
      BY <2>1, Zenon
    <2>. QED BY <2>1, <2>2, <2>3
  <1>5. ASSUME NEW v \in V, v.causality = "output"
        PROVE  Intended(v.name) = {AddressedOutput(Payload, v.reference)}
    <2>1. PICK mapping \in O : /\ v.name = mapping.name
                               /\ AddressedOutput(Payload, v.reference) = Dumped(mapping)
      BY <1>3, <1>5
    <2>2. Intended(mapping.name) = {Dumped(mapping)}
      BY <1>1
    <2>3. Intended(v.name) = Intended(mapping.name)
      BY <2>1, Zenon
    <2>. QED BY <2>1, <2>2, <2>3
  <1>6. {v.name : v \in Of("input") \cup Of("output")} = IntendedNames
    BY <1>1, <1>2, <1>3
  <1>7. /\ \A v \in Of("input") : Intended(v.name) = {AddressedInput(Payload, v.reference)}
        /\ \A v \in Of("output") : Intended(v.name) = {AddressedOutput(Payload, v.reference)}
    BY <1>4, <1>5, Zenon
  <1>. QED BY <1>6, <1>7, Zenon DEF References, V

LEMMA HandlesOf ==
    ASSUME NEW kind \in InputKinds \cup OutputKinds
    PROVE  HandleFields(kind) \subseteq FieldsOf(kind)
  <1>1. CASE kind = "actuator"
    <2>1. HandleFields("actuator") = {"key", "component_type", "control_type"}
      BY Zenon DEF HandleFields
    <2>2. FieldsOf("actuator") = {"key", "component_type", "control_type"}
      BY Zenon DEF FieldsOf
    <2>. QED BY <1>1, <2>1, <2>2
  <1>2. CASE kind = "schedule"
    <2>1. HandleFields("schedule") = {"key"}
      BY Zenon DEF HandleFields
    <2>2. FieldsOf("schedule") = {"key", "schedule_type_limits"}
      BY Zenon DEF FieldsOf
    <2>. QED BY <1>2, <2>1, <2>2
  <1>3. CASE kind = "ems_global"
    <2>1. HandleFields("ems_global") = {"key"} /\ FieldsOf("ems_global") = {"key"}
      BY Zenon DEF HandleFields, FieldsOf
    <2>. QED BY <1>3, <2>1
  <1>4. CASE kind = "variable"
    <2>1. HandleFields("variable") = {"key", "variable"} /\ FieldsOf("variable") = {"key", "variable"}
      BY Zenon DEF HandleFields, FieldsOf
    <2>. QED BY <1>4, <2>1
  <1>5. CASE kind = "meter"
    <2>1. HandleFields("meter") = {"meter"} /\ FieldsOf("meter") = {"meter"}
      BY Zenon DEF HandleFields, FieldsOf
    <2>. QED BY <1>5, <2>1
  <1>. QED BY <1>1, <1>2, <1>3, <1>4, <1>5 DEF InputKinds, OutputKinds

LEMMA TransformedHas ==
    ASSUME NEW source, NEW resolved \in Configs, NEW mapping \in ToSet(resolved.inputs)
    PROVE  LET transformed == TransformModel(source, resolved)
           IN  /\ mapping.kind = "schedule" => mapping.key \in DOMAIN transformed.schedules
               /\ mapping.kind = "ems_global" => mapping.key \in transformed.globals
  <1> DEFINE Scheduled(key) == {i \in DOMAIN resolved.inputs :
                 resolved.inputs[i].kind = "schedule" /\ resolved.inputs[i].key = key}
             scheduledKeys == {key \in Keys : Scheduled(key) # {}}
             transformed == TransformModel(source, resolved)
  <1>1. PICK i \in DOMAIN resolved.inputs : mapping = resolved.inputs[i]
    BY DEF ToSet
  <1>2. mapping.key \in Keys
    <2>1. resolved.inputs \in Seq(Mappings)
      BY DEF Configs
    <2>2. mapping \in Mappings
      BY <1>1, <2>1
    <2>. QED BY <2>2 DEF Mappings
  <1>3. DOMAIN transformed.schedules = source.schedules \cup scheduledKeys
    BY DEF TransformModel
  <1>4. mapping.kind = "schedule" => mapping.key \in scheduledKeys
    BY <1>1, <1>2
  <1>5. mapping.kind = "ems_global" => mapping.key \in transformed.globals
    BY DEF TransformModel
  <1>. QED BY <1>3, <1>4, <1>5

\* What TargetsExist asks of the configuration and the model.
Targets(payload, transformed) ==
    \A mapping \in ToSet(payload.inputs \o payload.outputs) :
        /\ HandleFields(mapping.kind) \subseteq mapping.fields
        /\ mapping.kind = "schedule" => mapping.key \in DOMAIN transformed.schedules
        /\ mapping.kind = "ems_global" => mapping.key \in transformed.globals

LEMMA TargetsOf ==
    ASSUME request \in Requests, Complete, UniqueNames(Legacy), OverlayFits,
           config \in Configs, UniqueNames(config), config = Resolved,
           model = TransformModel(Packed, config)
    PROVE  Targets(Payload, model)
  <1> DEFINE I == ToSet(config.inputs)
             O == ToSet(config.outputs)
  <1>1. config.inputs \in Seq(Mappings) /\ config.outputs \in Seq(Mappings)
    BY DEF Configs
  <1>2. /\ Payload.inputs \in Seq(Mappings) /\ Payload.outputs \in Seq(Mappings)
        /\ \A x \in ToSet(Payload.inputs) : \E mapping \in I : x = Dumped(mapping)
        /\ \A x \in ToSet(Payload.outputs) : \E mapping \in O : x = Dumped(mapping)
    <2>1. Distinct(config.inputs) /\ Distinct(config.outputs)
      BY <1>1, UniqueNamesAre
    <2>2. /\ SortedDump(config.inputs) \in Seq(Mappings)
          /\ \A x \in ToSet(SortedDump(config.inputs)) :
                 \E mapping \in ToSet(config.inputs) : x = Dumped(mapping)
      BY <1>1, <2>1, DumpedFrom
    <2>3. /\ SortedDump(config.outputs) \in Seq(Mappings)
          /\ \A x \in ToSet(SortedDump(config.outputs)) :
                 \E mapping \in ToSet(config.outputs) : x = Dumped(mapping)
      BY <1>1, <2>1, DumpedFrom
    <2>. QED BY <2>2, <2>3, PayloadFrom
  <1>3. ToSet(Payload.inputs \o Payload.outputs) = ToSet(Payload.inputs) \cup ToSet(Payload.outputs)
    BY <1>2, DistinctConcat
  <1>4. /\ \A mapping \in O : mapping.kind \in OutputKinds
        /\ \A x : x \in I \cup O <=>
                      \/ x \in ToSet(Overlaid)
                      \/ x \in ToSet(request.source.objects) /\ x.name \notin NamesIn(Overlaid)
    BY ResolvedOf
  <1>5. I \subseteq Mappings /\ O \subseteq Mappings
    BY <1>1 DEF ToSet
  <1>6. \A mapping \in I \cup O : WellFormed(mapping)
    <2>1. \A mapping \in ToSet(Overlaid) : WellFormed(mapping)
      <3>1. CASE request.overlay = None
        <4>1. ToSet(Overlaid) = {}
          BY <3>1 DEF Overlaid, ToSet
        <4>. QED BY <4>1
      <3>2. CASE request.overlay # None
        BY <3>2 DEF OverlayFits, Overlaid
      <3>. QED BY <3>1, <3>2
    <2> HIDE DEF I, O
    <2>. QED BY <1>4, <2>1 DEF Complete
  <1>7. \A mapping \in I : /\ mapping.kind = "schedule" => mapping.key \in DOMAIN model.schedules
                           /\ mapping.kind = "ems_global" => mapping.key \in model.globals
    BY TransformedHas
  <1> HIDE DEF I, O
  <1>8. ASSUME NEW x \in ToSet(Payload.inputs \o Payload.outputs)
        PROVE  /\ HandleFields(x.kind) \subseteq x.fields
               /\ x.kind = "schedule" => x.key \in DOMAIN model.schedules
               /\ x.kind = "ems_global" => x.key \in model.globals
    <2>1. PICK mapping \in I \cup O : x = Dumped(mapping)
      BY <1>2, <1>3
    <2>2. mapping \in Mappings /\ WellFormed(mapping)
      BY <1>5, <1>6
    <2>3. x.kind = mapping.kind /\ x.fields = mapping.fields /\ x.key = mapping.key
      BY <2>1, <2>2 DEF Dumped, Mappings
    <2>4. mapping.kind \in InputKinds \cup OutputKinds
      BY <2>2 DEF Mappings
    <2>5. HandleFields(x.kind) \subseteq x.fields
      BY <2>2, <2>3, <2>4, HandlesOf DEF WellFormed
    <2>6. x.kind \in {"schedule", "ems_global"} => mapping \in I
      BY <1>4, <2>1, <2>3 DEF OutputKinds
    <2>. QED BY <1>7, <2>3, <2>5, <2>6
  <1>. QED BY <1>8 DEF Targets

-----------------------------------------------------------------------------
(* What inspect reports.                                                   *)

LEMMA PathsOf ==
    /\ \A platform :
           LET path == LibraryPath(platform, Identifier)
           IN  path[1] = "binaries" /\ path[2] = FmiPlatformDirectory(platform) /\ Len(path) = 4
    /\ \A platform : WorkerPath(platform)[1] = "resources"
    /\ \A name : ResourcePath(name)[1] = "resources"
    /\ DescriptionPath[1] = "modelDescription.xml"
  BY DEF LibraryPath, WorkerPath, ResourcePath, DescriptionPath

\* The paths of the exporter's own entries.
LEMMA BasePaths ==
    DOMAIN Base = {DescriptionPath, ConfigPath, ModelPath}
                      \cup (IF request.weather = None THEN {}
                            ELSE {ResourcePath(request.weather.name)})
  <1> DEFINE weather == request.weather
             replaced == [path \in {ResourcePath(weather.name)} |-> <<"file", weather>>]
             entries == [path \in {DescriptionPath, ConfigPath, ModelPath} |->
                            CASE path = DescriptionPath -> <<"description", Description>>
                              [] path = ConfigPath -> <<"config", Payload>>
                              [] path = ModelPath -> <<"model", model>>]
  <1>1. Base = IF weather = None THEN entries ELSE replaced ++ entries
    BY Zenon DEF Base, BaseEntries
  <1>2. DOMAIN entries = {DescriptionPath, ConfigPath, ModelPath}
        /\ DOMAIN replaced = {ResourcePath(weather.name)}
    OBVIOUS
  <1> HIDE DEF entries, replaced
  <1>. QED BY <1>1, <1>2 DEF ++

\* No file but a runtime is below "binaries".
LEMMA EntryPaths ==
    /\ DOMAIN Entries = DOMAIN RuntimePart \cup DOMAIN ResourceEntries(resources) \cup DOMAIN Base
    /\ \A path \in DOMAIN ResourceEntries(resources) \cup DOMAIN Base : path[1] # "binaries"
  <1> DEFINE kept == ResourceEntries(resources)
  <1>1. Entries = (RuntimePart ++ kept) ++ Base
    BY DEF Entries, RuntimePart
  <1>2. \A path \in DOMAIN kept : path[1] = "resources"
    BY PathsOf DEF ResourceEntries
  <1>3. \A path \in DOMAIN Base : path[1] # "binaries"
    BY BasePaths, PathsOf DEF ConfigPath, ModelPath
  <1> HIDE DEF kept
  <1>4. DOMAIN Entries = DOMAIN RuntimePart \cup DOMAIN kept \cup DOMAIN Base
    BY <1>1 DEF ++
  <1>. QED BY <1>2, <1>3, <1>4 DEF kept

LEMMA PlatformsOf ==
    ASSUME BuildOptions
    PROVE  {path[2] : path \in {p \in DOMAIN Entries : p[1] = "binaries" /\ Len(p) >= 3}} =
               {PlatformDirectory(SystemOf(p)) : p \in ToSet(Platforms)}
  <1> DEFINE found == {p \in DOMAIN Entries : p[1] = "binaries" /\ Len(p) >= 3}
  <1>1. ASSUME NEW path
        PROVE  path \in found <=> \E p \in ToSet(Platforms) : path = LibraryPath(p, Identifier)
    <2>1. path \in DOMAIN RuntimePart <=>
              \E p \in ToSet(Platforms) : path \in DOMAIN Runtimes(p)
      BY DEF RuntimePart
    <2>2. \A p : DOMAIN Runtimes(p) = {LibraryPath(p, Identifier), WorkerPath(p)}
      BY RuntimesOf
    <2>3. path \in found <=> path \in DOMAIN RuntimePart /\ path[1] = "binaries" /\ Len(path) >= 3
      <3>1. path \in DOMAIN Entries /\ path[1] = "binaries" <=>
                path \in DOMAIN RuntimePart /\ path[1] = "binaries"
        BY EntryPaths
      <3>. QED BY <3>1
    <2>4. \A p : path = LibraryPath(p, Identifier) => path[1] = "binaries" /\ Len(path) >= 3
      BY PathsOf
    <2>5. \A p : path = WorkerPath(p) => path[1] # "binaries"
      BY PathsOf
    <2> HIDE DEF found
    <2>. QED BY <2>1, <2>2, <2>3, <2>4, <2>5, Zenon
  <1>2. \A p \in ToSet(Platforms) :
            LibraryPath(p, Identifier)[2] = PlatformDirectory(SystemOf(p))
    BY PathsOf, SystemPaths DEF BuildOptions
  <1> HIDE DEF found
  <1>3. {path[2] : path \in found} = {PlatformDirectory(SystemOf(p)) : p \in ToSet(Platforms)}
    BY <1>1, <1>2
  <1>. QED BY <1>3 DEF found

\* What is read as the configuration is the configuration.
LEMMA ConfigRead ==
    ASSUME ~Collisions, Entries[ConfigPath][1] = "config"
    PROVE  Entries[ConfigPath][2] = Payload
  <1> DEFINE weather == request.weather
             replaced == [path \in {ResourcePath(weather.name)} |-> <<"file", weather>>]
             entries == [path \in {DescriptionPath, ConfigPath, ModelPath} |->
                            CASE path = DescriptionPath -> <<"description", Description>>
                              [] path = ConfigPath -> <<"config", Payload>>
                              [] path = ModelPath -> <<"model", model>>]
  <1>1. ConfigPath \in DOMAIN Base
    BY BaseOf DEF Base
  <1>2. Entries[ConfigPath] = Base[ConfigPath]
    BY <1>1, EntriesOf DEF ConfigPath
  <1>3. Base = IF weather = None THEN entries ELSE replaced ++ entries
    BY Zenon DEF Base, BaseEntries
  <1>4. /\ ConfigPath \in DOMAIN entries
        /\ entries[ConfigPath] = <<"config", Payload>>
    <2>1. DescriptionPath # ConfigPath /\ ConfigPath # ModelPath
      BY DEF DescriptionPath, ConfigPath, ModelPath, ResourcePath
    <2>2. DOMAIN entries = {DescriptionPath, ConfigPath, ModelPath}
      BY Zenon
    <2>3. entries[ConfigPath] = <<"config", Payload>>
      BY <2>1, Zenon
    <2>. QED BY <2>2, <2>3
  <1>5. \A path \in DOMAIN replaced : replaced[path] = <<"file", weather>>
    OBVIOUS
  <1> HIDE DEF entries, replaced
  <1>6. Base[ConfigPath] \in {<<"config", Payload>>, <<"file", weather>>}
    BY <1>3, <1>4, <1>5 DEF ++
  <1>. QED BY <1>2, <1>6

LEMMA ReadableOf ==
    ASSUME ~Collisions, OrdinaryWeather
    PROVE  Readable(Entries)
  <1>1. /\ {DescriptionPath, ConfigPath} \subseteq DOMAIN Base
        /\ Base[DescriptionPath] = <<"description", Description>>
        /\ Base[ConfigPath] = <<"config", Payload>>
    BY BaseOf DEF Base, OrdinaryWeather
  <1>2. Entries[DescriptionPath] = Base[DescriptionPath] /\ Entries[ConfigPath] = Base[ConfigPath]
    BY <1>1, EntriesOf DEF ConfigPath
  <1>. QED BY <1>1, <1>2 DEF Readable

\* What InspectionTruthful asks of a report.
Truthful(said) ==
    /\ said.platforms = {PlatformDirectory(SystemOf(p)) : p \in ToSet(Platforms)}
    /\ said.inputs + said.outputs = Cardinality(IntendedNames)
    /\ said.variables = ParameterCount + Cardinality(IntendedNames)
    /\ said.stop = RunPeriodDays * DaySeconds

LEMMA ReportOf ==
    ASSUME BuildOptions, ~Collisions, Timed,
           request \in Requests, UniqueNames(Legacy), OverlayFits,
           config \in Configs, UniqueNames(config), config = Resolved,
           Entries[ConfigPath][1] = "config"
    PROVE  Truthful(Report(Entries))
  <1> DEFINE m == Len(config.inputs)
             n == Len(config.outputs)
             said == Report(Entries)
  <1>1. Entries[DescriptionPath][2] = Description /\ Entries[ConfigPath][2] = Payload
    BY OwnEntries, ConfigRead
  <1>2. /\ said.platforms = {path[2] : path \in
               {p \in DOMAIN Entries : p[1] = "binaries" /\ Len(p) >= 3}}
        /\ said.variables = Len(Description.variables)
        /\ said.inputs = Len(Payload.inputs)
        /\ said.outputs = Len(Payload.outputs)
        /\ said.stop = Payload.stop
    BY <1>1 DEF Report, CountedVariables
  <1>3. /\ config.inputs \in Seq(Mappings) /\ config.outputs \in Seq(Mappings)
        /\ Distinct(config.inputs) /\ Distinct(config.outputs)
    BY UniqueNamesAre DEF Configs
  <1>4. Len(Payload.inputs) = m /\ Len(Payload.outputs) = n
    BY <1>3, DumpedFrom, PayloadFrom
  <1>5. Len(Description.variables) = ParameterCount + m + n
    BY VariablesOf DEF InBlocks
  <1>6. Cardinality(IntendedNames) = m + n
    BY IntendedIs DEF UniqueNames
  <1>7. m \in Nat /\ n \in Nat /\ ParameterCount \in Nat
    BY <1>3 DEF ParameterCount
  <1>8. said.platforms = {PlatformDirectory(SystemOf(p)) : p \in ToSet(Platforms)}
    BY <1>2, PlatformsOf
  <1>9. said.stop = RunPeriodDays * DaySeconds
    BY <1>2, PayloadOf DEF Timed
  <1> HIDE DEF m, n, said
  <1>10. /\ said.inputs + said.outputs = Cardinality(IntendedNames)
         /\ said.variables = ParameterCount + Cardinality(IntendedNames)
    BY <1>2, <1>4, <1>5, <1>6, <1>7
  <1>. QED BY <1>8, <1>9, <1>10 DEF Truthful, said

-----------------------------------------------------------------------------
(* From one state to the next.                                             *)

\* What the archive says of the mappings.
Told ==
    /\ StructureNamesVariables
    /\ IdentifierIsC
    /\ OrdinaryWeather => ReferencesReachMappings /\ TargetsExist
    /\ Built /\ OrdinaryWeather => Readable(file.entries)
    /\ Built /\ Readable(file.entries) => Truthful(Report(file.entries))

LEMMA RequestKept ==
    ASSUME UNCHANGED request
    PROVE  /\ OrdinaryWeather' = OrdinaryWeather
           /\ InspectsResult' = InspectsResult
           /\ IntendedNames' = IntendedNames
           /\ \A name : Intended(name)' = Intended(name)
  <1>1. Overlaid' = Overlaid
    BY DEF Overlaid
  <1>2. IntendedNames' = IntendedNames
    BY <1>1 DEF IntendedNames
  <1>. QED BY <1>1, <1>2 DEF OrdinaryWeather, InspectsResult, Intended

LEMMA WriteTold ==
    ASSUME Control, Prepared, Derived, WriteFile
    PROVE  Told'
  <1>1. /\ UNCHANGED <<request, config, model, timing, guid, resources>>
        /\ stage = "write" /\ file'.entries = Entries /\ command = "build"
    BY DEF WriteFile, Advance, Control, BuildStages, prepared
  <1>2. /\ BuildOptions /\ Timed /\ ~Collisions
    BY <1>1 DEF Prepared, PastOptions, PastResources, PastTiming, BuildStages
  <1>3. /\ request \in Requests /\ Complete /\ UniqueNames(Legacy) /\ OverlayFits
        /\ config \in Configs /\ UniqueNames(config) /\ config = Resolved
        /\ model = TransformModel(Packed, config)
    BY <1>1, WrittenFrom
  <1>4. WrittenDescription' = Description
    BY <1>1, <1>2, OwnEntries DEF WrittenDescription
  <1>5. OrdinaryWeather => WrittenPayload' = Payload /\ WrittenModel' = model
    BY <1>1, <1>2, OwnEntries DEF WrittenPayload, WrittenModel
  <1>6. StructureNamesVariables'
    BY <1>3, <1>4, StructureOf DEF StructureNamesVariables
  <1>7. IdentifierIsC'
    BY <1>3, <1>4, IdentifierOf, DescriptionOf DEF IdentifierIsC
  <1>8. ASSUME OrdinaryWeather PROVE ReferencesReachMappings'
    <2>1. References(Description, Payload)
      BY <1>3, ReferencesOf
    <2>2. /\ IntendedNames' = IntendedNames
          /\ \A name : Intended(name)' = Intended(name)
      BY <1>1, RequestKept
    <2>. QED BY <1>4, <1>5, <1>8, <2>1, <2>2 DEF ReferencesReachMappings, References
  <1>9. ASSUME OrdinaryWeather PROVE TargetsExist'
    <2>1. Targets(Payload, model)
      BY <1>3, TargetsOf
    <2>. QED BY <1>5, <1>9, <2>1 DEF TargetsExist, Targets
  <1>10. (Readable(file.entries) => Truthful(Report(file.entries)))'
    <2>1. Readable(Entries) => Truthful(Report(Entries))
      BY <1>2, <1>3, ReportOf DEF Readable
    <2>2. Platforms' = Platforms /\ RunPeriodDays' = RunPeriodDays
      BY <1>1, RequestUnchanged
    <2>3. IntendedNames' = IntendedNames
      BY <1>1, RequestKept
    <2>. QED BY <1>1, <2>1, <2>2, <2>3 DEF Truthful
  <1>11. OrdinaryWeather' = OrdinaryWeather
    BY <1>1, RequestKept
  <1>12. OrdinaryWeather => Readable(file.entries)'
    <2>1. OrdinaryWeather => Readable(Entries)
      BY <1>2, ReadableOf
    <2>. QED BY <1>1, <2>1 DEF Readable
  <1>. QED BY <1>6, <1>7, <1>8, <1>9, <1>10, <1>11, <1>12 DEF Told

LEMMA NextTold ==
    ASSUME Control, Prepared, Derived, Told, [Next]_vars
    PROVE  Told'
  <1> USE DEF WrittenDescription, WrittenPayload, WrittenModel, Built
  <1>1. CASE WriteFile
    BY <1>1, WriteTold
  <1>2. CASE OpenFile
    BY <1>2 DEF OpenFile, Told, StructureNamesVariables, IdentifierIsC,
                ReferencesReachMappings, TargetsExist
  <1>3. CASE ~OpenFile /\ ~WriteFile
    <2>1. UNCHANGED <<request, file>>
      BY <1>3, FileKept
    <2>2. OrdinaryWeather' = OrdinaryWeather
      BY <2>1, RequestKept
    <2>3. /\ StructureNamesVariables' = StructureNamesVariables
          /\ IdentifierIsC' = IdentifierIsC
          /\ TargetsExist' = TargetsExist
      BY <2>1 DEF StructureNamesVariables, IdentifierIsC, TargetsExist
    <2>4. ReferencesReachMappings' = ReferencesReachMappings
      BY <2>1, RequestKept DEF ReferencesReachMappings
    <2>5. /\ Readable(file.entries)' = Readable(file.entries)
          /\ Truthful(Report(file.entries))' = Truthful(Report(file.entries))
      <3>1. /\ Platforms' = Platforms /\ RunPeriodDays' = RunPeriodDays
            /\ IntendedNames' = IntendedNames
        BY <2>1, RequestUnchanged, RequestKept
      <3>. QED BY <2>1, <3>1 DEF Readable, Truthful
    <2>. QED BY <2>1, <2>2, <2>3, <2>4, <2>5 DEF Told
  <1>. QED BY <1>1, <1>2, <1>3

-----------------------------------------------------------------------------
(* What inspect has printed.                                               *)

\* The report is that of the file, and inspect has read it.
Agreed ==
    /\ file.state \in {"older", "built"}
    /\ Built => Readable(file.entries) /\ report = Report(file.entries)

Inspected ==
    /\ InspectsResult =>
           /\ \A i, j \in DOMAIN todo : todo[i] = "build" /\ todo[j] = "inspect" => i < j
           /\ exits["inspect"] # None => \A i \in DOMAIN todo : todo[i] # "build"
           /\ exits["inspect"] = 0 => Agreed
    /\ stage = "done" /\ command = "inspect" => Agreed

LEMMA InitInspected == Init => Inspected
  <1> SUFFICES ASSUME Init PROVE Inspected
    OBVIOUS
  <1>1. todo = request.commands /\ exits = [name \in CommandNames |-> None]
    BY DEF Init
  <1>2. exits["inspect"] = None /\ exits["inspect"] # 0
    BY <1>1, NoneAssumption DEF CommandNames
  <1>3. command \in CommandNames
    BY <1>1, CommandsGiven DEF Init, command
  <1>4. stage # "done"
    BY <1>3, FirstStageOf DEF Init, CommandNames
  <1>5. InspectsResult => \A i, j \in DOMAIN todo :
            todo[i] = "build" /\ todo[j] = "inspect" => i < j
    BY <1>1 DEF InspectsResult
  <1>. QED BY <1>2, <1>4, <1>5 DEF Inspected

\* The other actions leave alone what it is about.
LEMMA OthersKeep ==
    ASSUME Control, Next, ~Exit, ~OpenFile, ~WriteFile, ~Inspect
    PROVE  /\ UNCHANGED <<request, todo, exits, file, report>>
           /\ stage' # "done" \/ command # "inspect"
  <1> USE DEF Pass, Advance, Refuse, Raise, product, Control, SharedStages
  <1>1. CASE CheckOptions \/ CheckWeather \/ ResolveEnergyPlus \/ CheckLibrary \/ ConvertModel
    BY <1>1 DEF CheckOptions, CheckWeather, ResolveEnergyPlus, CheckLibrary, ConvertModel
  <1>2. CASE LoadModel \/ CollectResources \/ CheckVersion \/ Extract \/ LoadOverlay
    BY <1>2 DEF LoadModel, CollectResources, CheckVersion, Extract, LoadOverlay
  <1>3. CASE Merge \/ Transform \/ Time \/ Identify
    BY <1>3 DEF Merge, Transform, Time, Identify
  <1>4. CASE LoadAssets \/ Assemble \/ StageFails
    BY <1>4 DEF LoadAssets, Assemble, StageFails
  <1>. QED BY <1>1, <1>2, <1>3, <1>4 DEF Next

LEMMA InspectInspected ==
    ASSUME Inspected, Inspect
    PROVE  Inspected'
  <1>1. UNCHANGED <<request, todo, exits, file>>
    BY DEF Inspect, Advance, Refuse, Raise, product
  <1>2. InspectsResult' = InspectsResult
    BY <1>1, RequestKept
  <1>3. CASE stage' = "done"
    <2>1. Inspectable /\ report' = IF file.state = "built" THEN Report(file.entries) ELSE None
      BY <1>3 DEF Inspect, Refuse, Raise
    <2>2. Agreed'
      BY <1>1, <2>1 DEF Agreed, Inspectable, Built
    <2>. QED BY <1>1, <1>2, <2>2 DEF Inspected
  <1>4. CASE stage' # "done"
    <2>1. UNCHANGED report
      BY <1>4 DEF Inspect, Advance, Refuse, Raise, product
    <2>2. Agreed' = Agreed
      BY <1>1, <2>1 DEF Agreed, Built
    <2>. QED BY <1>1, <1>2, <1>4, <2>2 DEF Inspected
  <1>. QED BY <1>3, <1>4

\* Once there has been an inspection no build follows.
LEMMA BuildInspected ==
    ASSUME Control, Filed, Inspected, OpenFile \/ WriteFile
    PROVE  Inspected'
  <1>1. /\ UNCHANGED <<request, todo, exits>>
        /\ todo # <<>> /\ todo \in Seq(CommandNames) /\ command = "build"
    BY DEF OpenFile, WriteFile, Advance, Control, BuildStages
  <1>2. 1 \in DOMAIN todo /\ todo[1] = "build" /\ command' = "build"
    BY <1>1 DEF command
  <1>3. InspectsResult' = InspectsResult
    BY <1>1, RequestKept
  <1>4. InspectsResult => exits["inspect"] = None
    BY <1>2 DEF Inspected
  <1>5. None # 0
    BY NoneAssumption
  <1>. QED BY <1>1, <1>2, <1>3, <1>4, <1>5 DEF Inspected

LEMMA ExitInspected ==
    ASSUME Control, Filed, Inspected, Exit
    PROVE  Inspected'
  <1> DEFINE code == IF command = "validate" THEN ValidateExitCode(exception)
                                             ELSE ExitCode(exception)
  <1>1. /\ UNCHANGED <<request, file, report>>
        /\ todo # <<>> /\ todo \in Seq(CommandNames) /\ todo' = Tail(todo)
        /\ stage \in {"done", "failed"} /\ exits' = [exits EXCEPT ![command] = code]
    BY DEF Exit, Control, product
  <1>2. command \in CommandNames /\ command = todo[1] /\ 1 \in DOMAIN todo
    BY <1>1 DEF command
  <1>3. InspectsResult' = InspectsResult /\ Agreed' = Agreed
    BY <1>1, RequestKept DEF Agreed, Built
  <1>4. stage' # "done"
    BY NextCommand
  <1>5. \A i \in DOMAIN todo' : i + 1 \in DOMAIN todo /\ todo'[i] = todo[i + 1] /\ i \in Nat \ {0}
    BY <1>1
  <1>6. command = "inspect" /\ code = 0 => Agreed
    <2>1. stage = "failed" => ExitCode(exception) \in 1..6
      BY ExitCodeOf DEF Control
    <2>. QED BY <1>1, <2>1 DEF Inspected
  <1> HIDE DEF code
  <1>7. exits'["inspect"] = IF command = "inspect" THEN code ELSE exits["inspect"]
    BY <1>1, <1>2 DEF Filed, CommandNames
  <1>8. ASSUME InspectsResult
        PROVE  /\ \A i, j \in DOMAIN todo' : todo'[i] = "build" /\ todo'[j] = "inspect" => i < j
               /\ exits'["inspect"] # None => \A i \in DOMAIN todo' : todo'[i] # "build"
               /\ exits'["inspect"] = 0 => Agreed
    <2>1. \A i, j \in DOMAIN todo : todo[i] = "build" /\ todo[j] = "inspect" => i < j
      BY <1>8 DEF Inspected
    <2>2. \A i, j \in DOMAIN todo' : todo'[i] = "build" /\ todo'[j] = "inspect" => i < j
      <3> SUFFICES ASSUME NEW i \in DOMAIN todo', NEW j \in DOMAIN todo',
                          todo'[i] = "build", todo'[j] = "inspect"
                   PROVE  i < j
        OBVIOUS
      <3>1. i + 1 < j + 1
        BY <1>5, <2>1
      <3>. QED BY <1>5, <3>1
    <2>3. ASSUME exits'["inspect"] # None, NEW i \in DOMAIN todo' PROVE todo'[i] # "build"
      <3>1. CASE command = "inspect"
        <4>1. todo[i + 1] = "build" => i + 1 < 1
          BY <1>2, <1>5, <2>1, <3>1
        <4>. QED BY <1>5, <4>1
      <3>2. CASE command # "inspect"
        BY <1>5, <1>7, <1>8, <2>3, <3>2 DEF Inspected
      <3>. QED BY <3>1, <3>2
    <2>4. exits'["inspect"] = 0 => Agreed
      BY <1>6, <1>7, <1>8 DEF Inspected
    <2>. QED BY <2>2, <2>3, <2>4
  <1>. QED BY <1>3, <1>4, <1>8 DEF Inspected

LEMMA NextInspected ==
    ASSUME Control, Filed, Inspected, [Next]_vars
    PROVE  Inspected'
  <1>1. CASE UNCHANGED vars
    <2>1. UNCHANGED <<request, todo, stage, exits, file, report>>
      BY <1>1 DEF vars, product
    <2>2. InspectsResult' = InspectsResult /\ Agreed' = Agreed /\ command' = command
      BY <2>1, RequestKept DEF Agreed, Built, command
    <2>. QED BY <2>1, <2>2 DEF Inspected
  <1>2. CASE Next /\ ~Exit /\ ~OpenFile /\ ~WriteFile /\ ~Inspect
    <2>1. /\ UNCHANGED <<request, todo, exits, file, report>>
          /\ stage' # "done" \/ command # "inspect"
      BY <1>2, OthersKeep
    <2>2. InspectsResult' = InspectsResult /\ Agreed' = Agreed /\ command' = command
      BY <2>1, RequestKept DEF Agreed, Built, command
    <2>. QED BY <2>1, <2>2 DEF Inspected
  <1>. QED BY <1>1, <1>2, InspectInspected, BuildInspected, ExitInspected

-----------------------------------------------------------------------------
(* The theorems.                                                           *)

\* The inductive invariant, beside that of ExportProofs: what the stages have made of
\* the mappings, what the archive says of them, and what inspect has read.
THEOREM SpecContents == Spec => [](Control /\ Filed /\ Derived /\ Told /\ Inspected)
  <1>1. ASSUME Init PROVE Told
    <2>1. ~Built
      BY <1>1, StateBefore DEF Init, Untouched, Built
    <2>. QED BY <2>1 DEF Told, StructureNamesVariables, IdentifierIsC,
                         ReferencesReachMappings, TargetsExist
  <1>2. ASSUME Control, Prepared, Filed, Derived, Told, Inspected, [Next]_vars
        PROVE  Derived' /\ Told' /\ Inspected'
    BY <1>2, NextDerived, NextTold, NextInspected
  <1>3. QED
    BY <1>1, <1>2, InitDerived, InitInspected, SpecSession, PTL DEF Spec

\* The configuration is typed, and no name is in it twice, at any stage of any session.
THEOREM SpecTypeOK == Spec => []TypeOK
  <1>1. ASSUME Control, Filed, Derived PROVE TypeOK
    <2>1. file.state \in {"none", "older", "truncated", "built"}
      <3>1. request.file \in {"none", "older"}
        BY <1>1, StateBefore DEF Control
      <3>2. Untouched.state \in {"none", "older"}
        BY <3>1 DEF Untouched
      <3>3. exits["build"] # None =>
                \/ Built
                \/ file = Untouched
                \/ file.state = "truncated"
        BY <1>1 DEF Filed, FileAsReported
      <3>4. exits["build"] = None /\ ~Writing => file = Untouched
        BY <1>1 DEF Filed
      <3>5. Writing => \/ Built
                       \/ file = Untouched
                       \/ file.state = "truncated"
        BY <1>1 DEF Writing, Filed
      <3>. QED BY <3>2, <3>3, <3>4, <3>5 DEF Built
    <2>2. exception \in Exceptions \cup {None}
      BY <1>1 DEF Control
    <2>. QED BY <1>1, <2>1, <2>2 DEF TypeOK, Control, Filed, Derived
  <1>2. QED
    BY <1>1, SpecContents, PTL

\* The value reference the description gives any name reaches what the user means by
\* it, through the vectors of the configuration (metadata.py, api.py, lib.rs, main.rs).
THEOREM SpecReferencesReachMappings == Spec => [](OrdinaryWeather => ReferencesReachMappings)
  <1>1. Told => (OrdinaryWeather => ReferencesReachMappings)
    BY DEF Told
  <1>2. QED
    BY <1>1, SpecContents, PTL

\* The positions in ModelStructure are those of the variables it means.
THEOREM SpecStructureNamesVariables == Spec => []StructureNamesVariables
  <1>1. Told => StructureNamesVariables
    BY DEF Told
  <1>2. QED
    BY <1>1, SpecContents, PTL

\* The model in the archive has what the configuration beside it addresses.
THEOREM SpecTargetsExist == Spec => [](OrdinaryWeather => TargetsExist)
  <1>1. Told => (OrdinaryWeather => TargetsExist)
    BY DEF Told
  <1>2. QED
    BY <1>1, SpecContents, PTL

\* Whatever the model is called, the FMU has a C identifier.
THEOREM SpecIdentifierIsC == Spec => []IdentifierIsC
  <1>1. Told => IdentifierIsC
    BY DEF Told
  <1>2. QED
    BY <1>1, SpecContents, PTL

\* What inspect prints is what has been built.
THEOREM SpecInspectionTruthful == Spec => []InspectionTruthful
  <1>1. ASSUME Told, Inspected PROVE InspectionTruthful
    <2> SUFFICES ASSUME exits["inspect"] = 0, InspectsResult
                 PROVE  /\ file.state \in {"older", "built"}
                        /\ Built => Truthful(report)
      BY DEF InspectionTruthful, Truthful
    <2>1. Agreed
      BY <1>1 DEF Inspected
    <2>. QED BY <1>1, <2>1 DEF Agreed, Told
  <1>2. QED
    BY <1>1, SpecContents, PTL

-----------------------------------------------------------------------------
(* The GUID.                                                               *)

\* Under an overlay the order of the legacy configuration is lost.
LEMMA MergedAlike ==
    ASSUME NEW one, NEW other, NEW overlay, overlay # None,
           ToSet(one.inputs) = ToSet(other.inputs), ToSet(one.outputs) = ToSet(other.outputs)
    PROVE  MergeConfigs(one, overlay) = MergeConfigs(other, overlay)
  BY DEF MergeConfigs

LEMMA SwappedAlike ==
    ASSUME NEW S, NEW objects \in Seq(S), NEW i \in DOMAIN objects, NEW j \in DOMAIN objects
    PROVE  LET swapped == [objects EXCEPT ![i] = objects[j], ![j] = objects[i]]
           IN  swapped \in Seq(S) /\ ToSet(swapped) = ToSet(objects)
  <1> DEFINE swapped == [objects EXCEPT ![i] = objects[j], ![j] = objects[i]]
  <1>1. /\ DOMAIN swapped = DOMAIN objects
        /\ swapped[i] = objects[j] /\ swapped[j] = objects[i]
        /\ \A k \in DOMAIN objects : k # i /\ k # j => swapped[k] = objects[k]
    OBVIOUS
  <1>2. swapped \in Seq(S)
    OBVIOUS
  <1> HIDE DEF swapped
  <1>3. \A x : x \in ToSet(swapped) <=> x \in ToSet(objects)
    BY <1>1 DEF ToSet
  <1>. QED BY <1>2, <1>3 DEF swapped

\* The transformed model has the files, the schedules and the globals of its source.
LEMMA TransformedAlike ==
    ASSUME NEW one, NEW other, NEW resolved, one.files = other.files,
           one.schedules = other.schedules, one.globals = other.globals
    PROVE  TransformModel(one, resolved) = TransformModel(other, resolved)
  BY DEF TransformModel

\* What the GUID is derived from, as long as there is one.
Identified ==
    guid # None =>
        /\ stage \in BuildStages \cup {"done", "failed"}
        /\ guid = GuidOf(TransformModel(Packed, Resolved), Resolved)
        /\ model.files = Packed.files

LEMMA NextIdentified ==
    ASSUME Control, Derived, Identified, [Next]_vars
    PROVE  Identified'
  <1> USE DEF Pass, Refuse, Raise, Advance, prepared, BuildStages
  <1>1. CASE UNCHANGED vars
    BY <1>1, DerivedFrom DEF vars, Identified
  <1>2. CASE CheckOptions \/ CheckWeather \/ CheckLibrary \/ ConvertModel \/ LoadModel
    BY <1>2 DEF CheckOptions, CheckWeather, CheckLibrary, ConvertModel, LoadModel, Identified
  <1>3. CASE ResolveEnergyPlus
    BY <1>3 DEF ResolveEnergyPlus, Identified
  <1>4. CASE CollectResources \/ CheckVersion \/ Extract \/ LoadOverlay
    BY <1>4 DEF CollectResources, CheckVersion, Extract, LoadOverlay, Identified
  <1>5. CASE Merge \/ Transform \/ Time \/ Inspect
    BY <1>5 DEF Merge, Transform, Time, Inspect, Identified
  <1>6. CASE Identify
    <2>1. /\ stage = "guid" /\ stage' \in {"done", "assets"}
          /\ guid' = GuidOf(model, config) /\ UNCHANGED <<request, model, config>>
      BY <1>6 DEF Identify
    <2>2. config = Resolved /\ model = TransformModel(Packed, config)
      BY <2>1 DEF Derived, PastMerge, PastTransform, PastTiming
    <2>3. model.files = Packed.files
      BY <2>2, TransformKeepsFiles
    <2>. QED BY <2>1, <2>2, <2>3, DerivedFrom DEF Identified
  <1>7. CASE LoadAssets \/ Assemble \/ OpenFile \/ WriteFile
    BY <1>7, DerivedFrom DEF LoadAssets, Assemble, OpenFile, WriteFile, Identified
  <1>8. CASE StageFails
    BY <1>8, DerivedFrom DEF StageFails, Identified
  <1>9. CASE Exit
    BY <1>9 DEF Exit, Nothing, Identified
  <1>. QED BY <1>1, <1>2, <1>3, <1>4, <1>5, <1>6, <1>7, <1>8, <1>9 DEF Next

\* The GUID of a model whose objects stand in another order.
LEMMA SameGuid ==
    ASSUME request \in Requests, Identified, request.overlay # None
    PROVE  GuidIgnoresMemberOrder
  <1> DEFINE objects == request.source.objects
             Swapped(i, j) == [objects EXCEPT ![i] = objects[j], ![j] = objects[i]]
             Source(i, j) == [request.source EXCEPT !.objects = Swapped(i, j)]
             Other(i, j) == MergeConfigs(ExtractLegacy(Source(i, j).objects), request.overlay)
             Again(i, j) == [files |-> model.files] ++ Source(i, j)
  <1> SUFFICES ASSUME guid # None, NEW i \in DOMAIN objects, NEW j \in DOMAIN objects
               PROVE  GuidOf(TransformModel(Again(i, j), Other(i, j)), Other(i, j)) = guid
    BY DEF GuidIgnoresMemberOrder
  <1> DEFINE S == {mapping \in Mappings : mapping.kind # "meter"}
             swapped == Swapped(i, j)
             source == Source(i, j)
  <1>1. objects \in Seq(S) /\ {"objects", "schedules", "globals"} \subseteq DOMAIN request.source
    BY RequestsAssumption
  <1>2. source.objects = swapped
    BY <1>1
  <1>3. source.schedules = request.source.schedules /\ source.globals = request.source.globals
    BY <1>1
  <1>4. DOMAIN source = DOMAIN request.source
    OBVIOUS
  <1>5. Other(i, j) = Resolved
    <2>1. swapped \in Seq(S) /\ ToSet(swapped) = ToSet(objects)
      BY <1>1, SwappedAlike
    <2> HIDE DEF swapped, objects, S, source
    <2> DEFINE one == ExtractLegacy(swapped)
               other == ExtractLegacy(objects)
    <2>2. /\ ToSet(one.inputs) = {object \in ToSet(swapped) : object.kind \in InputKinds}
          /\ ToSet(one.outputs) = {object \in ToSet(swapped) : object.kind \in OutputKinds}
      BY <2>1, ExtractLegacyIs DEF S
    <2>3. /\ ToSet(other.inputs) = {object \in ToSet(objects) : object.kind \in InputKinds}
          /\ ToSet(other.outputs) = {object \in ToSet(objects) : object.kind \in OutputKinds}
      BY <1>1, ExtractLegacyIs DEF S
    <2> HIDE DEF one, other
    <2>4. ToSet(one.inputs) = ToSet(other.inputs) /\ ToSet(one.outputs) = ToSet(other.outputs)
      BY <2>1, <2>2, <2>3
    <2>5. MergeConfigs(one, request.overlay) = MergeConfigs(other, request.overlay)
      BY <2>4, MergedAlike
    <2>. QED BY <1>2, <2>5 DEF one, other, Resolved, Legacy, objects, source
  <1>6. TransformModel(Again(i, j), Resolved) = TransformModel(Packed, Resolved)
    <2> DEFINE packed == [files |-> model.files] ++ source
    <2>1. packed.files = model.files
      BY DEF ++
    <2>2. packed.schedules = request.source.schedules /\ packed.globals = request.source.globals
      BY <1>1, <1>3, <1>4 DEF ++
    <2>3. /\ Packed.schedules = request.source.schedules
          /\ Packed.globals = request.source.globals
      BY <1>1 DEF Packed, ++
    <2>4. model.files = Packed.files
      BY DEF Identified
    <2> HIDE DEF packed
    <2>5. TransformModel(packed, Resolved) = TransformModel(Packed, Resolved)
      BY <2>1, <2>2, <2>3, <2>4, TransformedAlike
    <2>. QED BY <2>5 DEF packed
  <1>. QED BY <1>5, <1>6 DEF Identified

\* With an overlay the order of the members of the model leaves the GUID as it is,
\* whatever the objects and the overlay are (config.py, metadata.py).
THEOREM SpecGuidIgnoresOrder == Spec => []GuidIgnoresOrderUnderOverlay
  <1>1. ASSUME Init PROVE Identified
    BY <1>1 DEF Init, Nothing, Identified
  <1>2. ASSUME Control, Identified PROVE GuidIgnoresOrderUnderOverlay
    BY <1>2, SameGuid DEF Control, GuidIgnoresOrderUnderOverlay
  <1>3. QED
    BY <1>1, <1>2, NextIdentified, SpecContents, PTL DEF Spec
=============================================================================
