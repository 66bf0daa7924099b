----------------------------- MODULE CoSimulation -----------------------------
(***************************************************************************)
(* What an FMU instance promises its importer, with no worker process in   *)
(* sight (README.md, "FMI runtime behavior"): FMI time starts at zero with *)
(* the outputs of the start values, each completed step moves time by a    *)
(* whole number of zone steps and returns the outputs EnergyPlus computed  *)
(* at exactly that time with exactly the inputs that were set when the     *)
(* step began, and no step ends beyond the stop time or the RunPeriod of   *)
(* the configuration the simulation was started with.  An instance that    *)
(* stops being Running answers no further step.                            *)
(***************************************************************************)
EXTENDS Integers

CONSTANTS ZoneStep, StopTime, StopTimes, NaN, None, Inputs, Values, Start, Zeros, Stops

VARIABLES state, modelStop, currentTime, experimentStop, inputs, outputs

vars == <<state, modelStop, currentTime, experimentStop, inputs, outputs>>

StartInputs == [i \in Inputs |-> Start]

\* Of the RunPeriod, as the configuration has it when it is read.
Defaults ==
    /\ modelStop' \in StopTimes
    /\ currentTime' = 0
    /\ experimentStop' = None
    /\ inputs' = StartInputs
    /\ outputs' = Zeros

Init ==
    /\ state = "Null"
    /\ modelStop = StopTime
    /\ currentTime = 0
    /\ experimentStop = None
    /\ inputs = StartInputs
    /\ outputs = Zeros

Instantiate == state = "Null" /\ state' = "Instantiated" /\ Defaults

\* Any call may turn out wrong; nothing the importer has computed is lost.
Fail ==
    /\ state # "Null"
    /\ state' = "Error"
    /\ UNCHANGED <<modelStop, currentTime, outputs, experimentStop>>
    /\ inputs' \in [Inputs -> Values]

SetupExperiment ==
    /\ state = "Instantiated"
    /\ currentTime' = 0
    /\ experimentStop' \in Stops \cup {None}
    /\ state' = IF experimentStop' \notin {None, NaN} /\ experimentStop' > modelStop
                THEN "Error"
                ELSE state
    /\ UNCHANGED <<modelStop, inputs, outputs>>

EnterInitialization ==
    /\ state = "Instantiated"
    /\ state' = "Initialization"
    /\ UNCHANGED <<modelStop, currentTime, experimentStop, inputs, outputs>>

\* The simulation runs with the configuration as it is now.  Outputs at time zero
\* are those of the start values: inputs set before the first step take effect in
\* it.
Initialized ==
    /\ state = "Initialization"
    /\ state' = "Running"
    /\ modelStop' \in StopTimes
    /\ outputs' = [at |-> 0, with |-> StartInputs]
    /\ UNCHANGED <<currentTime, experimentStop, inputs>>

SetInputs ==
    /\ state # "Null"
    /\ inputs' \in [Inputs -> Values]
    /\ UNCHANGED <<state, modelStop, currentTime, experimentStop, outputs>>

\* A defined stop time need not be a zone step: rounding by less than one.
StepCompletes ==
    /\ state = "Running"
    /\ \E n \in 1..(modelStop \div ZoneStep) :
          /\ currentTime' = currentTime + n * ZoneStep
          /\ outputs' = [at |-> currentTime' \div ZoneStep, with |-> inputs]
    /\ currentTime' <= modelStop
    /\ experimentStop \notin {None, NaN} => currentTime' < experimentStop + ZoneStep
    /\ UNCHANGED <<state, modelStop, experimentStop, inputs>>

\* Terminated by the importer in any state, or by the end of the simulation.
Terminate ==
    /\ state # "Null"
    /\ state' = "Terminated"
    /\ UNCHANGED <<modelStop, currentTime, experimentStop, inputs, outputs>>

Reset == state # "Null" /\ state' = "Instantiated" /\ Defaults

Free == state # "Null" /\ state' = "Null" /\ Defaults

Next ==
    \/ Instantiate
    \/ Fail
    \/ SetupExperiment
    \/ EnterInitialization
    \/ Initialized
    \/ SetInputs
    \/ StepCompletes
    \/ Terminate
    \/ Reset
    \/ Free

Spec == Init /\ [][Next]_vars
=============================================================================
