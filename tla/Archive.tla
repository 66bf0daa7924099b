------------------------------- MODULE Archive -------------------------------
(***************************************************************************)
(* The archive: what write_fmu puts where (src/ep2fmu/packaging.py), and   *)
(* what inspect_fmu reads back (inspection.py).  An archive is a function  *)
(* from paths to contents, each a tuple that begins with its kind.         *)
(***************************************************************************)
EXTENDS Mapping, Bundles

\* Of two functions or records, the one where it is defined and else the other: @@
\* of module TLC, in terms the provers know.
one ++ other ==
    [x \in DOMAIN one \cup DOMAIN other |->
        IF x \in DOMAIN one THEN one[x] ELSE other[x]]

\* The characters of a name, as far as it matters.
Characters == {"letter", "digit", "_", "other"}

\* A mutant of the next: a name may begin with a digit.
SanitizedCharacters(name) ==
    LET kept == Ascending({i \in DOMAIN name : name[i] # "other"})
    IN  IF kept = <<>> THEN <<"letter">> ELSE [k \in DOMAIN kept |-> name[kept[k]]]

\* sanitize_identifier, of a name as a sequence of "letter", "digit", "_" and
\* "other" characters: of each run of "_" and others one "_" is left, none at
\* either end.
Sanitized(name) ==
    LET Word(i) == name[i] \in {"letter", "digit"}
        Joins(i) == /\ i > 1 /\ Word(i - 1)
                    /\ \E j \in DOMAIN name : j > i /\ Word(j)
        kept == Ascending({i \in DOMAIN name : Word(i) \/ Joins(i)})
        word == [k \in DOMAIN kept |-> IF Word(kept[k]) THEN name[kept[k]] ELSE "_"]
    IN  IF word = <<>> THEN <<"letter">>  \* "EnergyPlusModel"
        ELSE IF Head(word) = "digit" THEN <<"letter", "_">> \o word
        ELSE word

-----------------------------------------------------------------------------
(* write_fmu.                                                              *)

DescriptionPath == <<"modelDescription.xml">>
ResourcePath(name) == <<"resources", name>>
ConfigPath == ResourcePath("ep2fmu-config.json")
ModelPath == ResourcePath("model.epJSON")

\* The three entries of the exporter, and a weather file, which replaces one of
\* them if it has its name.
BaseEntries(description, model, payload, weather) ==
    LET entries == [path \in {DescriptionPath, ConfigPath, ModelPath} |->
                        CASE path = DescriptionPath -> <<"description", description>>
                          [] path = ConfigPath -> <<"config", payload>>
                          [] path = ModelPath -> <<"model", model>>]
    IN  IF weather = None THEN entries
        ELSE [path \in {ResourcePath(weather.name)} |-> <<"file", weather>>] ++ entries

\* The files the model refers to, by name.
ResourceEntries(resources) ==
    [path \in {ResourcePath(name) : name \in DOMAIN resources} |->
        <<"file", resources[path[2]]>>]

-----------------------------------------------------------------------------
(* inspect_fmu.                                                            *)

\* A mutant of the next: the parameters are no variables.
MappedVariables(description, payload) == Len(payload.inputs) + Len(payload.outputs)

CountedVariables(description, payload) == Len(description.variables)

\* The report on an archive; what replaced one of its entries cannot be read.
Readable(entries) ==
    entries[DescriptionPath][1] = "description" /\ entries[ConfigPath][1] = "config"

Report(entries) ==
    LET description == entries[DescriptionPath][2]
        payload == entries[ConfigPath][2]
    IN  [platforms |-> {path[2] : path \in
            {p \in DOMAIN entries : p[1] = "binaries" /\ Len(p) >= 3}},
         variables |-> CountedVariables(description, payload),
         inputs |-> Len(payload.inputs),
         outputs |-> Len(payload.outputs),
         step |-> payload.step,
         stop |-> payload.stop]
=============================================================================
