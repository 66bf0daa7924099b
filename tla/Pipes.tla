-------------------------------- MODULE Pipes --------------------------------
(***************************************************************************)
(* What the two processes of one FMU instance share: the worker's standard *)
(* input and output, which carry the length-prefixed messages of           *)
(* runtime/ep2fmu-protocol/src/lib.rs, and the operating system's view of  *)
(* the two processes.  A message is one element of a sequence: it is       *)
(* written and flushed as a whole, and a reader that sees only part of one *)
(* gets the same error as at end of file.                                  *)
(***************************************************************************)
EXTENDS Integers, Sequences, StepTiming

CONSTANTS
    Inputs,       \* the FMU inputs
    Values,       \* the values an input may be given
    Start,        \* the start value of every input in ep2fmu-config.json
    ModelOwn,     \* what the model itself drives an input with until one is set
    Zeros,        \* the outputs vector before anything has been simulated
    Points,       \* the communication points an importer may pass
    Sizes,        \* the communication step sizes an importer may pass
    OutCapacity,  \* how many messages fit in the worker's stdout pipe
    Directories,  \* the kinds of output directory an importer may ask for
    Keeps,        \* the values it may give keepOutputs
    Faults        \* what may go wrong around the protocol, see FaultKinds

\* "kill": the importing process dies.  "crash": the worker process dies.
\* "config": resources/ep2fmu-config.json is replaced under a live instance, by
\* one with another RunPeriod or other variables, or one that cannot be read.  Its
\* zone step stays the same: EnergyPlus takes its own from model.epJSON.
\* "large": a Step has more inputs than fit in the worker's stdin pipe.
FaultKinds == {"kill", "crash", "config", "large"}

ASSUME PipesAssumption ==
    /\ Start \in Values
    /\ Points \subseteq Int \cup {NaN}
    /\ Sizes \subseteq Int \cup {NaN, Infinity}
    /\ OutCapacity \in Nat \ {0}
    /\ "temporary" \in Directories /\ Directories \subseteq {"temporary", "chosen"}
    /\ FALSE \in Keeps /\ Keeps \subseteq BOOLEAN
    /\ Faults \subseteq FaultKinds
    /\ "config" \notin Faults => StopTimes = {StopTime}
    /\ ModelOwn \notin [Inputs -> Values]
    /\ Zeros \notin [at : Nat, with : [Inputs -> Values] \cup {ModelOwn}]

VARIABLES
    stdin,     \* commands written by the host and not yet read
    stdout,    \* responses written by the worker and not yet read
    proc,      \* the worker process: "none", "alive" or "exited" (unreaped)
    importer   \* the process the host library is loaded in

pipeVars == <<stdin, stdout, proc, importer>>

InputVectors == [Inputs -> Values]
StartInputs == [i \in Inputs |-> Start]

\* What EnergyPlus reports: the zone timestep it has reached and the input
\* values it simulated with.
Readings == [at : Nat, with : InputVectors \cup {ModelOwn}]

Commands ==
    [kind : {"Initialize"}, directory : Directories, keep : Keeps]
      \cup [kind : {"Shutdown"}]
      \cup [kind : {"Step"}, point : Points, size : Sizes, inputs : InputVectors]

\* Ready also carries the zone step, which is ZoneStep on both sides.
Responses ==
    [kind : {"Log", "Terminated", "Error"}]
      \cup [kind : {"Ready"}, outputs : Readings, stop : StopTimes]
      \cup [kind : {"StepComplete"}, time : Nat, outputs : Readings]

PipesTypeOK ==
    /\ stdin \in Seq(Commands)
    /\ stdout \in Seq(Responses)
    /\ proc \in {"none", "alive", "exited"}
    /\ importer \in {"alive", "killed"}

PipesInit ==
    /\ stdin = <<>>
    /\ stdout = <<>>
    /\ proc = "none"
    /\ importer = "alive"

\* The host writes a command while the worker still holds its end of the pipe.
Write(command) ==
    /\ proc = "alive"
    /\ stdin' = Append(stdin, command)
    /\ UNCHANGED <<stdout, proc, importer>>

\* The host reads the oldest response through the one BufReader it keeps.
Read(response) ==
    /\ stdout # <<>>
    /\ response = Head(stdout)
    /\ stdout' = Tail(stdout)
    /\ UNCHANGED <<stdin, proc, importer>>

\* read_message fails: the worker is gone and has left nothing to read.
AtEnd == stdout = <<>> /\ proc = "exited"

\* The worker writes a response; the write blocks while the pipe is full.
Reply(response) ==
    /\ importer = "alive"
    /\ Len(stdout) < OutCapacity
    /\ stdout' = Append(stdout, response)
    /\ UNCHANGED <<stdin, proc, importer>>

\* The worker's write fails (EPIPE) once nobody can read the pipe.
ReplyFails ==
    /\ importer = "killed"
    /\ UNCHANGED pipeVars

\* The worker's Result-ignoring sends ("let _ = context.send(...)").
ReplyIgnoringErrors(response) == Reply(response) \/ ReplyFails

\* The worker reads a command through a BufReader it makes for this one read
\* and drops afterwards: bytes buffered behind the first message are lost.
Take(command) ==
    /\ stdin # <<>>
    /\ command = Head(stdin)
    /\ stdin' = <<>>
    /\ UNCHANGED <<stdout, proc, importer>>

\* read_message fails in the worker: end of file, the importer is gone.
InputAtEnd == stdin = <<>> /\ importer = "killed"
=============================================================================
