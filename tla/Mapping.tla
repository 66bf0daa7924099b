-------------------------------- MODULE Mapping --------------------------------
(***************************************************************************)
(* The mappings of FMU variables to EnergyPlus, from the model's legacy    *)
(* objects and the YAML overlay to the places where both ends of the       *)
(* runtime look them up (src/ep2fmu/config.py, models.py, metadata.py and  *)
(* the vectors of the two Rust programs).                                  *)
(*                                                                         *)
(* A mapping has an FMU name, a kind, the fields that are set, the object  *)
(* in EnergyPlus they address and, if it comes from a legacy actuator, the *)
(* EMS alias of that actuator.  Names are naturals, whose order is that of *)
(* the strings.                                                            *)
(***************************************************************************)
EXTENDS Naturals, FiniteSets, SequencesExt

CONSTANTS
    Names,  \* the FMU variable names
    Keys,   \* the names of schedules, EMS globals, components and meters
    None    \* Python's None

ASSUME NamesAssumption == Names \subseteq Nat /\ None \notin Keys

InputKinds == {"actuator", "schedule", "ems_global"}
OutputKinds == {"variable", "meter"}
Fields == {"key", "component_type", "control_type", "schedule_type_limits",
           "variable", "meter"}
Mappings ==
    [name : Names, kind : InputKinds \cup OutputKinds, fields : SUBSET Fields,
     key : Keys, alias : Keys \cup {None}]
Configs == [inputs : Seq(Mappings), outputs : Seq(Mappings)]

\* The fields a mapping of a kind must have; it may have no others.
FieldsOf(kind) ==
    CASE kind = "actuator"   -> {"key", "component_type", "control_type"}
      [] kind = "schedule"   -> {"key", "schedule_type_limits"}
      [] kind = "ems_global" -> {"key"}
      [] kind = "variable"   -> {"key", "variable"}
      [] kind = "meter"      -> {"meter"}

WellFormed(mapping) == mapping.fields = FieldsOf(mapping.kind)

NamesIn(mappings) == {mapping.name : mapping \in ToSet(mappings)}
NamesOf(config) == NamesIn(config.inputs) \cup NamesIn(config.outputs)

\* What BuildConfig requires of the names it is given.
UniqueNames(config) ==
    Cardinality(NamesOf(config)) = Len(config.inputs) + Len(config.outputs)

\* The domain of key as a sequence in the order of its keys: SetToSortSeq, in terms
\* the provers know.
InOrderOf(key) ==
    CHOOSE s \in [1..Cardinality(DOMAIN key) -> DOMAIN key] :
        IsInjective(s) /\ \A i, j \in DOMAIN s : i < j => key[s[i]] <= key[s[j]]

\* The positions in their order.
Ascending(positions) == InOrderOf([i \in positions |-> i])

SortedByName(mappings) == InOrderOf([mapping \in mappings |-> mapping.name])

\* The objects of a kind, in the order of the source.
OfKind(objects, kind) ==
    LET found == Ascending({i \in DOMAIN objects : objects[i].kind = kind})
    IN  [k \in DOMAIN found |-> objects[found[k]]]

\* The legacy objects, container by container.
ExtractLegacy(objects) ==
    [inputs |-> OfKind(objects, "actuator") \o OfKind(objects, "schedule")
                    \o OfKind(objects, "ems_global"),
     outputs |-> OfKind(objects, "variable")]

\* A mutant of the next: an entry replaces only mappings of its own direction.
MergeWithinDirection(legacy, overlay) ==
    LET Merged(old, new) ==
            SortedByName({mapping \in ToSet(old) : mapping.name \notin NamesIn(new)}
                            \cup ToSet(new))
    IN  IF overlay = None
        THEN legacy
        ELSE [inputs |-> Merged(legacy.inputs, overlay.inputs),
              outputs |-> Merged(legacy.outputs, overlay.outputs)]

\* Another: the overlay's mappings follow those that are kept.
MergeUnsorted(legacy, overlay) ==
    LET Kept(mappings) == SelectSeq(mappings, LAMBDA m : m.name \notin NamesOf(overlay))
    IN  IF overlay = None
        THEN legacy
        ELSE [inputs |-> Kept(legacy.inputs) \o overlay.inputs,
              outputs |-> Kept(legacy.outputs) \o overlay.outputs]

\* A YAML entry replaces every legacy mapping of its name, input or output.
\* Without an overlay the legacy mappings stay in the order of the source.
MergeConfigs(legacy, overlay) ==
    LET Kept(mappings) ==
            {mapping \in ToSet(mappings) : mapping.name \notin NamesOf(overlay)}
    IN  IF overlay = None
        THEN legacy
        ELSE [inputs |-> SortedByName(Kept(legacy.inputs) \cup ToSet(overlay.inputs)),
              outputs |-> SortedByName(Kept(legacy.outputs) \cup ToSet(overlay.outputs))]

\* The runtime model: Schedule:Constant objects with the name of the mapping
\* whose start value they hold, and EMS globals.  The model's own schedules are
\* replaced, its own globals kept; legacy objects are gone, references stay.
TransformModel(source, config) ==
    LET Scheduled(key) == {i \in DOMAIN config.inputs :
                config.inputs[i].kind = "schedule" /\ config.inputs[i].key = key}
        LastOf(S) == CHOOSE i \in S : \A j \in S : j <= i
        scheduledKeys == {key \in Keys : Scheduled(key) # {}}
    IN  [schedules |->
            [key \in source.schedules \cup scheduledKeys |->
                IF key \in scheduledKeys
                THEN config.inputs[LastOf(Scheduled(key))].name
                ELSE None],
         globals |-> source.globals \cup
            {mapping.key : mapping \in
                {m \in ToSet(config.inputs) : m.kind = "ems_global"}} \cup
            {mapping.alias : mapping \in
                {m \in ToSet(config.inputs) : m.kind = "actuator" /\ m.alias # None}},
         files |-> source.files]

-----------------------------------------------------------------------------
(* What the archive says of the mappings, twice.                           *)

\* legacy_alias is for the transformation only.
Dumped(mapping) == [mapping EXCEPT !.alias = None]

\* A mutant of the next: the vectors keep the order of the configuration.
UnsortedDump(mappings) == [i \in DOMAIN mappings |-> Dumped(mappings[i])]

SortedDump(mappings) == SortedByName({Dumped(mapping) : mapping \in ToSet(mappings)})

\* ep2fmu-config.json: the vectors of the host and of the worker.
MappingPayload(config) ==
    [inputs |-> SortedDump(config.inputs), outputs |-> SortedDump(config.outputs)]

ParameterCount == 4
INPUT_VR_BASE == 1000
OUTPUT_VR_BASE == 100000

\* The fields the worker asks EnergyPlus for a handle with.
HandleFields(kind) ==
    CASE kind = "actuator"   -> {"key", "component_type", "control_type"}
      [] kind = "schedule"   -> {"key"}
      [] kind = "ems_global" -> {"key"}
      [] kind = "variable"   -> {"key", "variable"}
      [] kind = "meter"      -> {"meter"}

\* A mutant of the next: positions are counted from zero.
FirstMappedIndexFromZero == ParameterCount

\* ModelStructure counts variables from one.
FirstMappedIndex == ParameterCount + 1

\* modelDescription.xml: variables in order, and ModelStructure, which refers to
\* them by their positions in that order.
ModelDescription(config) ==
    LET inputs == SortedByName(ToSet(config.inputs))
        outputs == SortedByName(ToSet(config.outputs))
    IN  [variables |->
            [i \in 1..ParameterCount |->
                [causality |-> "parameter", reference |-> i]] \o
            [i \in DOMAIN inputs |->
                [causality |-> "input", name |-> inputs[i].name,
                 reference |-> INPUT_VR_BASE + i - 1]] \o
            [i \in DOMAIN outputs |->
                [causality |-> "output", name |-> outputs[i].name,
                 reference |-> OUTPUT_VR_BASE + i - 1]],
         dependencies |-> {FirstMappedIndex + i - 1 : i \in DOMAIN inputs},
         unknowns |-> {FirstMappedIndex + Len(inputs) + i - 1 : i \in DOMAIN outputs}]

\* The mapping a call of fmi2SetReal or fmi2GetReal reaches: the position in the
\* instance's vector is that in the worker's list of handles.
AddressedInput(payload, reference) ==
    payload.inputs[reference - INPUT_VR_BASE + 1]
AddressedOutput(payload, reference) ==
    payload.outputs[reference - OUTPUT_VR_BASE + 1]
=============================================================================
