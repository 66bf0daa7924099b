------------------------------ MODULE EnergyPlus ------------------------------
(***************************************************************************)
(* The EnergyPlus library as the worker uses it (external: only its C API, *)
(* runtime/ep2fmu-worker/src/energyplus_api.rs, is in the repository).     *)
(*                                                                         *)
(* energyplus() simulates zone timesteps, first those of sizing and        *)
(* warm-up, then those of a run period, and calls the worker back at the   *)
(* beginning and at the end of each.  What the worker relies on and this   *)
(* module assumes:                                                         *)
(*  - API data is ready, and the first warm-up timestep with it is over,   *)
(*    before a run period begins;                                          *)
(*  - after stopSimulation the timestep in progress ends and no other one  *)
(*    begins;                                                              *)
(*  - a simulation is finite;                                              *)
(*  - messages reach the registered callback outside begin and end         *)
(*    callbacks, never under the lock those hold.                          *)
(***************************************************************************)
EXTENDS Pipes

CONSTANTS
    RunLengths,  \* after how many run-period timesteps the simulation may be over
    MaxWarmup,   \* bound: warm-up timesteps over the whole simulation
    MaxLogs      \* bound: messages over the whole simulation

ASSUME EnergyPlusAssumption ==
    /\ RunLengths \subseteq Nat
    /\ MaxWarmup \in Nat \ {0}
    /\ MaxLogs \in Nat

VARIABLES
    phase,     \* warmupFlag or kindOfSim # 3: "warmup"; otherwise "run"
    inStep,    \* a zone timestep has begun and not ended
    simStep,   \* the run-period timesteps ended so far
    applied,   \* the value of every actuator and EMS global
    stopFlag,  \* stopSimulation was called
    warm,      \* the warm-up timesteps begun so far
    logs       \* the messages emitted so far

epVars == <<phase, inStep, simStep, applied, stopFlag, warm, logs>>

EnergyPlusTypeOK ==
    /\ phase \in {"warmup", "run"}
    /\ inStep \in BOOLEAN
    /\ simStep \in Nat
    /\ applied \in InputVectors \cup {ModelOwn}
    /\ stopFlag \in BOOLEAN
    /\ warm \in 0..MaxWarmup
    /\ logs \in 0..MaxLogs

EnergyPlusInit ==
    /\ phase = "warmup"
    /\ inStep = FALSE
    /\ simStep = 0
    /\ applied = ModelOwn
    /\ stopFlag = FALSE
    /\ warm = 0
    /\ logs = 0

\* What the getters of variables and meters return now.
Outputs(steps) == [at |-> steps, with |-> applied]

\* The next zone timestep is one of sizing or warm-up.
WarmupTimestep ==
    /\ phase = "warmup"
    /\ ~inStep
    /\ ~stopFlag
    /\ warm < MaxWarmup
    /\ warm' = warm + 1
    /\ UNCHANGED <<phase, simStep, stopFlag, logs>>

\* The bound leaves no later warm-up timestep for the API data to get ready.
LastWarmup == warm + 1 = MaxWarmup

\* The next zone timestep is one of a run period.
RunTimestep ==
    /\ phase = "run"
    /\ ~inStep
    /\ ~stopFlag
    /\ \E length \in RunLengths : length > simStep

\* Warm-up is over, the run period begins.
RunPeriodBegins(dataReady) ==
    /\ phase = "warmup"
    /\ ~inStep
    /\ ~stopFlag
    /\ dataReady
    /\ phase' = "run"
    /\ UNCHANGED <<inStep, simStep, applied, stopFlag, warm, logs>>

\* A model with several run periods warms up again before each.
NextEnvironment ==
    /\ phase = "run"
    /\ ~inStep
    /\ ~stopFlag
    /\ simStep > 0
    /\ warm < MaxWarmup
    /\ warm' = warm + 1
    /\ phase' = "warmup"
    /\ UNCHANGED <<inStep, simStep, applied, stopFlag, logs>>

\* The end of the timestep in progress.
TimestepEnds ==
    /\ inStep
    /\ inStep' = FALSE
    /\ simStep' = IF phase = "run" THEN simStep + 1 ELSE simStep
    /\ UNCHANGED <<phase, applied, stopFlag, warm, logs>>

\* energyplus() returns zero, stopped or not; a length of zero is a model whose
\* SimulationControl runs no weather-file period ...
RunEnds ==
    /\ ~inStep
    /\ stopFlag \/ simStep \in RunLengths
    /\ UNCHANGED epVars

\* ... or another status, after a fatal error of its own.
RunAborts == UNCHANGED epVars
=============================================================================
