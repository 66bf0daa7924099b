------------------------------- MODULE MCExport -------------------------------
(***************************************************************************)
(* Instances of Export small enough for TLC.  The requests of each set vary *)
(* in one part of what a user has: the mappings, the files, the platforms,  *)
(* the times, the name, what is wrong with the overlay or the environment,  *)
(* or the order of the commands.                                            *)
(***************************************************************************)
EXTENDS Export

CONSTANTS k1, k2  \* two keys

MCNames == 1..3
MCKeys == {k1, k2}

Pair(dir, name) == [dir |-> dir, name |-> name]
Weather == Pair("w", "weather.epw")

UpTo(n, S) == UNION {[1..m -> S] : m \in 0..n}

Mapping(name, kind, key, alias) ==
    [name |-> name, kind |-> kind, fields |-> FieldsOf(kind), key |-> key, alias |-> alias]

Bundle(worker) == [library |-> "library", worker |-> worker]
\* Each platform's own runtime, those of a release, and those of a release whose
\* libraries alone are universal.
OwnBundles == [platform \in ToSet(AllPlatforms) |->
                  [library |-> platform, worker |-> platform]]
Universal == [OwnBundles EXCEPT !["darwin64"] = Bundle("both"),
                                !["darwinarm64"] = Bundle("both")]
HalfUniversal == [Universal EXCEPT !["darwinarm64"] = Bundle("arm64")]
WithoutWindows == [Universal EXCEPT !["win64"] = None]

Source == [objects |-> <<Mapping(1, "variable", k1, None)>>, schedules |-> {k1},
           globals |-> {}, references |-> <<>>, timestep |-> None, periods |-> <<>>,
           version |-> "26.1", stem |-> <<"letter">>]

Plain == [commands |-> <<"build", "inspect">>, platforms |-> <<"linux64">>,
          defaultPlatform |-> None, source |-> Source, overlay |-> None,
          weather |-> Weather, energyplus |-> "supported", bundles |-> Universal,
          file |-> "none", failing |-> {}]

-----------------------------------------------------------------------------
\* Legacy objects, of which two may have one name or one schedule.
MCObjects ==
    {Mapping(name, kind, k1, None) : name \in MCNames, kind \in {"schedule", "variable"}}
    \cup {Mapping(name, "ems_global", k1, None) : name \in 1..2}
    \cup {Mapping(name, "schedule", k2, None) : name \in 2..3}
    \cup {Mapping(name, "actuator", k1, k2) : name \in 1..2}

\* YAML entries have no alias.
MCInputs == UpTo(2, {Mapping(name, kind, k2, None) : name \in 1..2, kind \in InputKinds})
MCOutputs == UpTo(1, {Mapping(name, "variable", k2, None) : name \in 1..2})

Overlay(inputs, outputs) == [model |-> None, inputs |-> inputs, outputs |-> outputs]

\* Every mixture of two legacy objects and a short overlay, or of one and a longer one.
MappingRequests ==
    {[Plain EXCEPT !.source.objects = objects] : objects \in UpTo(2, MCObjects)} \cup
    {[Plain EXCEPT !.source.objects = objects, !.overlay = Overlay(inputs, outputs)] :
        objects \in [1..2 -> MCObjects], inputs \in {i \in MCInputs : Len(i) < 2},
        outputs \in MCOutputs} \cup
    {[Plain EXCEPT !.source.objects = objects, !.overlay = Overlay(inputs, outputs)] :
        objects \in UpTo(1, MCObjects), inputs \in MCInputs, outputs \in MCOutputs}

\* Overlays and legacy objects with every set of fields.
FieldRequests ==
    {[Plain EXCEPT !.overlay = Overlay(<<>>, <<>>),
                   !.overlay[IF kind \in InputKinds THEN "inputs" ELSE "outputs"] =
                       <<[Mapping(1, kind, k1, None) EXCEPT !.fields = fields]>>] :
        kind \in InputKinds \cup OutputKinds, fields \in SUBSET Fields}
    \cup
    {[Plain EXCEPT !.source.objects[1].fields = fields] :
        fields \in SUBSET FieldsOf("variable")}

\* Files that share names with each other, the weather and the exporter's entries.
MCFiles == {Pair(dir, name) : dir \in {"a", "b"},
                              name \in {"data.csv", "weather.epw", "model.epJSON"}}
FileRequests ==
    {[Plain EXCEPT !.source.references = references, !.weather = weather] :
        references \in UpTo(2, MCFiles),
        weather \in {None, Weather, Pair("a", "weather.epw")}}

\* Platforms as options and as a default, with runtimes that are there or not.
PlatformRequests ==
    {[Plain EXCEPT !.platforms = platforms, !.defaultPlatform = default,
                   !.bundles = bundles] :
        platforms \in UpTo(2, ToSet(AllPlatforms) \cup {"all", "atari"}),
        default \in {None, "win64", "all"},
        bundles \in {OwnBundles, Universal, HalfUniversal, WithoutWindows}}

\* Timesteps that fit and that do not; run periods of every length, over the end of
\* the year, on a leap day, and a second one.
MCPeriods ==
    {<<[begin |-> 1, end |-> end]>> : end \in 1..YearDays} \cup
    {<<[begin |-> 364, end |-> 1]>>, <<[begin |-> 59, end |-> None]>>,
     <<[begin |-> 1, end |-> 2], [begin |-> 180, end |-> 190]>>, <<>>}
TimingRequests ==
    {[Plain EXCEPT !.source.timestep = timestep, !.source.periods = periods] :
        timestep \in {None, 7}, periods \in MCPeriods}
    \cup {[Plain EXCEPT !.source.timestep = timestep] : timestep \in 0..61}

\* Names of the overlay and of the file.
NameRequests ==
    {[Plain EXCEPT !.source.stem = name] :
        name \in UpTo(4, {"letter", "digit", "_", "other"}) \ {<<>>}}
    \cup
    {[Plain EXCEPT !.overlay = [model |-> name, inputs |-> <<>>, outputs |-> <<>>]] :
        name \in UpTo(2, {"letter", "digit", "_", "other"})}

\* Everything that can fail, in the environment and in the request, seen by every
\* command.
Session == [Plain EXCEPT !.commands = <<"doctor", "validate", "build", "inspect">>]
FailureRequests ==
    {[Session EXCEPT !.file = output, !.failing = {failure}, !.energyplus = energyplus] :
        output \in {"none", "older"}, failure \in Failures,
        energyplus \in {"supported", "no library", "missing", "unsupported"}}
    \cup
    {[Session EXCEPT !.file = output, !.overlay = overlay, !.energyplus = energyplus,
                     !.source.version = version, !.source.objects = objects,
                     !.weather = weather, !.bundles = bundles] :
        output \in {"none", "older"}, overlay \in {None, Overlay(<<>>, <<>>)},
        energyplus \in {"supported", "no library", "missing", "unsupported"},
        version \in {"26.1", "25.2"},
        objects \in {<<>>, Source.objects, Source.objects \o Source.objects},
        weather \in {None, Weather},
        bundles \in {Universal, [Universal EXCEPT !["linux64"] = None]}}

\* The commands in any order, while a stage fails in one way or, each time, in one of
\* two.
SessionRequests ==
    {[Session EXCEPT !.commands = commands, !.failing = failing] :
        commands \in {order \in [1..4 -> CommandNames] : IsInjective(order)},
        failing \in {{}} \cup {{pair[1], pair[2]} :
                          pair \in {q \in Failures \X Failures : q[1][1] = q[2][1]}}}

MCRequests ==
    MappingRequests \cup FieldRequests \cup FileRequests \cup PlatformRequests
        \cup TimingRequests \cup NameRequests \cup FailureRequests \cup SessionRequests

\* A weather file may have any name.
MCWeatherRequests ==
    {[Plain EXCEPT !.weather = Pair("w", name)] :
        name \in {"weather.epw", "model.epJSON", "ep2fmu-config.json", "bin"}}
=============================================================================
