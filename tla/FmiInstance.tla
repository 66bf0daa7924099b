----------------------------- MODULE FmiInstance -----------------------------
(***************************************************************************)
(* The FMI 2.0 instance of runtime/ep2fmu-fmi2/src/lib.rs: the struct      *)
(* Instance, the fmi2* functions an importer calls on it, and the two      *)
(* procedures that talk to the worker process, spawn_worker and            *)
(* stop_worker.                                                            *)
(*                                                                         *)
(* The importer calls one function at a time.  A function that does not    *)
(* talk to the worker is one step.  One that does is a sequence of steps,  *)
(* one for each write or read of a pipe, and "call" says where it is.      *)
(*                                                                         *)
(* Left out: the logger callback and its filter (fmi2SetDebugLogging),     *)
(* energyplusHome and runReadVars, whose values only the worker's boot     *)
(* looks at, and the functions that only read the instance.                *)
(***************************************************************************)
EXTENDS Pipes

CONSTANTS
    None,   \* experiment_stop: None
    Stops   \* the stop times an importer may define

ASSUME StopsAssumption ==
    /\ Stops \subseteq Int \cup {NaN}
    /\ None \notin Int
    /\ None # NaN

VARIABLES
    state,            \* Instance.state, or "Null" while there is no instance
    call,             \* where the running fmi2 function is
    caller,           \* which function runs stop_worker
    hasWorker,        \* Instance.worker.is_some()
    request,          \* the step fmi2DoStep is waiting for
    modelStop,        \* Instance.model_stop_time
    currentTime,      \* Instance.current_time
    experimentStop,   \* Instance.experiment_stop
    inputs,           \* Instance.inputs
    outputs,          \* Instance.outputs
    outputDirectory,  \* Instance.output_directory: empty is "temporary"
    keepOutputs       \* Instance.keep_outputs

valueVars == <<modelStop, currentTime, experimentStop, inputs, outputs>>
parameterVars == <<outputDirectory, keepOutputs>>
hostVars == <<state, call, caller, hasWorker, request, valueVars, parameterVars>>

Lifecycle == {"Instantiated", "Initialization", "Running", "Terminated", "Error"}

Calls == {"idle", "sendInitialize", "awaitReady", "sendStep", "writeStep",
          "awaitStep", "sendShutdown", "drain", "wait"}

Callers == {"none", "Terminate", "Reset", "FreeInstance"}

StepRequests == [point : Points, size : Sizes]

HostTypeOK ==
    /\ state \in Lifecycle \cup {"Null"}
    /\ call \in Calls
    /\ caller \in Callers
    /\ hasWorker \in BOOLEAN
    /\ request \in StepRequests \cup {None}
    /\ modelStop \in StopTimes
    /\ currentTime \in Nat
    /\ experimentStop \in Stops \cup {None}
    /\ inputs \in InputVectors
    /\ outputs \in Readings \cup {Zeros}
    /\ outputDirectory \in Directories
    /\ keepOutputs \in Keeps

HostInit ==
    /\ state = "Null"
    /\ call = "idle"
    /\ caller = "none"
    /\ hasWorker = FALSE
    /\ request = None
    /\ modelStop = StopTime
    /\ currentTime = 0
    /\ experimentStop = None
    /\ inputs = StartInputs
    /\ outputs = Zeros
    /\ outputDirectory = "temporary"
    /\ keepOutputs = FALSE

\* The importer may call a function of this instance.
Callable == importer = "alive" /\ call = "idle" /\ state # "Null"

\* A function is running in an importer that is still alive.
Busy(where) == importer = "alive" /\ call = where

\* What a function that does not talk to the worker leaves alone.
NoExchange == UNCHANGED <<call, caller, hasWorker, request>> /\ UNCHANGED pipeVars

\* A function that talked to the worker returns.
Return ==
    /\ call' = "idle"
    /\ request' = None
    /\ UNCHANGED <<caller, hasWorker, parameterVars>>

\* A function that talks to the worker goes on to its next write or read.
Continue(where) ==
    /\ call' = where
    /\ UNCHANGED <<state, caller, hasWorker, request, valueVars, parameterVars>>

\* Instance::fail, from whatever state the instance is in.
Fail == state' = "Error"

-----------------------------------------------------------------------------
(* Functions that do not talk to the worker.                               *)

\* A mutant of the next: a reset keeps the experiment's stop time.
ResetStopKept == experimentStop

\* The stop time a reset leaves behind.
ResetStop == None

\* The values ep2fmu-config.json states as the function finds it.
ResetValues ==
    /\ modelStop' \in StopTimes
    /\ inputs' = StartInputs
    /\ outputs' = Zeros
    /\ currentTime' = 0
    /\ experimentStop' = ResetStop

\* The parameters of a new instance; fmi2Reset does not come back to them.
DefaultParameters == outputDirectory' = "temporary" /\ keepOutputs' = FALSE

Instantiate ==
    /\ importer = "alive"
    /\ state = "Null"
    /\ state' = "Instantiated"
    /\ ResetValues
    /\ DefaultParameters
    /\ NoExchange

\* A mutant of the next: any stop time will do.
NeverBeyondRunPeriod(stop, end) == FALSE

\* A stop time beyond the end of the RunPeriod, which a NaN is not.
BeyondRunPeriod(stop, end) == stop \notin {None, NaN} /\ stop > end

\* A stop time beyond the RunPeriod is stored before it is rejected.
SetupExperiment ==
    /\ Callable
    /\ \/ /\ state = "Instantiated"
          /\ currentTime' = 0
          /\ experimentStop' \in Stops \cup {None}
          /\ IF BeyondRunPeriod(experimentStop', modelStop) THEN Fail ELSE UNCHANGED state
       \/ /\ Fail  \* another state, or a start time that is not zero
          /\ UNCHANGED <<currentTime, experimentStop>>
    /\ UNCHANGED <<modelStop, inputs, outputs, parameterVars>>
    /\ NoExchange

EnterInitializationMode ==
    /\ Callable
    /\ IF state = "Instantiated" THEN state' = "Initialization" ELSE Fail
    /\ UNCHANGED <<valueVars, parameterVars>>
    /\ NoExchange

\* A setter in any state: what it set before an unknown reference stays set.
PerhapsFail == Fail \/ UNCHANGED state

SetReal ==
    /\ Callable
    /\ \E known \in SUBSET Inputs : \E values \in [known -> Values] :
          inputs' = [i \in Inputs |-> IF i \in known THEN values[i] ELSE inputs[i]]
    /\ PerhapsFail
    /\ UNCHANGED <<modelStop, currentTime, experimentStop, outputs, parameterVars>>
    /\ NoExchange

SetBoolean ==
    /\ Callable
    /\ keepOutputs' \in Keeps
    /\ PerhapsFail
    /\ UNCHANGED <<valueVars, outputDirectory>>
    /\ NoExchange

SetString ==
    /\ Callable
    /\ outputDirectory' \in Directories
    /\ PerhapsFail
    /\ UNCHANGED <<valueVars, keepOutputs>>
    /\ NoExchange

\* A call that changes nothing but the state of the instance.
CallFails ==
    /\ Callable
    /\ Fail
    /\ UNCHANGED <<valueVars, parameterVars>>
    /\ NoExchange

\* Every getter and setter given a null array or an unknown reference.
RejectArgument == CallFails

-----------------------------------------------------------------------------
(* fmi2ExitInitializationMode: spawn_worker.                               *)

ExitInitializationWrongly == CallFails /\ state # "Initialization"

\* The worker binary is missing, cannot be made executable or cannot start.
SpawnFails == CallFails /\ state = "Initialization"

\* The new process gets pipes of its own; an Instance.worker there was before
\* would be dropped here, neither stopped nor reaped.
SpawnWorker ==
    /\ Callable
    /\ state = "Initialization"
    /\ hasWorker' = TRUE
    /\ call' = "sendInitialize"
    /\ proc' = "alive"
    /\ stdin' = <<>>
    /\ stdout' = <<>>
    /\ UNCHANGED <<state, caller, request, valueVars, parameterVars, importer>>

\* A write to a process that is gone fails with EPIPE.
WriteFails == proc = "exited" /\ UNCHANGED pipeVars

SendInitialize ==
    /\ Busy("sendInitialize")
    /\ \/ /\ Write([kind |-> "Initialize", directory |-> outputDirectory,
                    keep |-> keepOutputs])
          /\ Continue("awaitReady")
       \/ /\ WriteFails
          /\ Fail
          /\ Return
          /\ UNCHANGED valueVars

\* receive_non_log hands a Log to the importer's logger and reads on.
SkipLog ==
    /\ call \in {"awaitReady", "awaitStep"}
    /\ Busy(call)
    /\ Read([kind |-> "Log"])
    /\ UNCHANGED hostVars

\* receive_non_log returns one of these messages.
Receives(kinds) ==
    /\ stdout # <<>>
    /\ Head(stdout).kind \in kinds
    /\ Read(Head(stdout))

\* receive_non_log returns an error instead.
ReceivesNothing == AtEnd /\ UNCHANGED pipeVars

\* The worker's answer to Initialize: the instance goes by the times of the
\* configuration the worker has loaded.  The outputs have another length than the
\* instance's only if ep2fmu-config.json changed since fmi2Instantiate.
ReceiveReady ==
    /\ Busy("awaitReady")
    /\ Receives({"Ready"})
    /\ \/ /\ state' = "Running"
          /\ outputs' = Head(stdout).outputs
          /\ modelStop' = Head(stdout).stop
       \/ "config" \in Faults /\ Fail /\ UNCHANGED <<outputs, modelStop>>
    /\ Return
    /\ UNCHANGED <<currentTime, experimentStop, inputs>>

InitializationFails ==
    /\ Busy("awaitReady")
    /\ Receives({"StepComplete", "Terminated", "Error"}) \/ ReceivesNothing
    /\ Fail
    /\ Return
    /\ UNCHANGED valueVars

-----------------------------------------------------------------------------
(* fmi2DoStep.                                                             *)

\* The stop the importer defined, or that of the RunPeriod.
EffectiveStop == IF experimentStop = None THEN modelStop ELSE experimentStop

Acceptable(point, size) ==
    /\ AtPoint(point, size, currentTime)
    /\ Aligned(size)
    /\ WithinStop(point, size, EffectiveStop)

RefuseStep ==
    /\ CallFails
    /\ \/ state # "Running"
       \/ \E point \in Points, size \in Sizes : ~Acceptable(point, size)

DoStep ==
    /\ Callable
    /\ state = "Running"
    /\ \E point \in Points, size \in Sizes :
          /\ Acceptable(point, size)
          /\ request' = [point |-> point, size |-> size]
    /\ call' = "sendStep"
    /\ UNCHANGED <<state, caller, hasWorker, valueVars, parameterVars>>
    /\ UNCHANGED pipeVars

\* Whether the write still succeeds when the worker is about to leave is a race
\* with the worker's exit.  A Step that does not fit in the pipe is on its way
\* until the worker has read all of it.
SendStep ==
    /\ Busy("sendStep")
    /\ \/ /\ Write([kind |-> "Step", point |-> request.point,
                    size |-> request.size, inputs |-> inputs])
          /\ \/ Continue("awaitStep")
             \/ "large" \in Faults /\ Continue("writeStep")
       \/ /\ WriteFails
          /\ Fail
          /\ Return
          /\ UNCHANGED valueVars

FinishWrite ==
    /\ Busy("writeStep")
    /\ \/ /\ stdin = <<>>
          /\ Continue("awaitStep")
          /\ UNCHANGED pipeVars
       \/ /\ stdin # <<>>
          /\ WriteFails
          /\ Fail
          /\ Return
          /\ UNCHANGED valueVars

ReceiveStepComplete ==
    /\ Busy("awaitStep")
    /\ Receives({"StepComplete"})
    /\ currentTime' = Head(stdout).time
    /\ outputs' = Head(stdout).outputs
    /\ Return
    /\ UNCHANGED <<state, modelStop, experimentStop, inputs>>

\* FMI_DISCARD: the instance is Terminated and still holds its worker.
StepDiscarded ==
    /\ Busy("awaitStep")
    /\ Receives({"Terminated"})
    /\ state' = "Terminated"
    /\ Return
    /\ UNCHANGED valueVars

\* A mutant of the next: fmi2DoStep calls receive, not receive_non_log, and takes
\* a message of EnergyPlus for an answer.
FailingAnswersAndLogs == {"Error", "Ready", "Log"}

\* The answers that make a step fail.
FailingAnswers == {"Error", "Ready"}

StepFails ==
    /\ Busy("awaitStep")
    /\ Receives(FailingAnswers) \/ ReceivesNothing
    /\ Fail
    /\ Return
    /\ UNCHANGED valueVars

-----------------------------------------------------------------------------
(* fmi2Terminate, fmi2Reset and fmi2FreeInstance: stop_worker, then the    *)
(* rest of the function.                                                   *)

\* fmi2Terminate asks for no particular state; fmi2Reset reads the metadata
\* again; fmi2FreeInstance drops the instance.
Finish(function) ==
    \/ /\ function = "Terminate"
       /\ state' = "Terminated"
       /\ UNCHANGED <<valueVars, parameterVars>>
    \/ /\ function = "Reset"
       /\ state' = "Instantiated"
       /\ ResetValues
       /\ UNCHANGED parameterVars
    \/ /\ function = "Reset"
       /\ "config" \in Faults
       /\ Fail
       /\ UNCHANGED <<valueVars, parameterVars>>
    \/ /\ function = "FreeInstance"
       /\ state' = "Null"
       /\ ResetValues
       /\ DefaultParameters

\* Mutants of the next: nothing is ever stopped, or no failed instance is.
NeverStop == TRUE
NothingToStopAfterError == ~hasWorker \/ state = "Error"

\* stop_worker returns at once.
NothingToStop == ~hasWorker

FinishWithoutWorker ==
    /\ Callable
    /\ NothingToStop
    /\ \E function \in Callers : Finish(function)
    /\ NoExchange

StopWorker ==
    /\ Callable
    /\ hasWorker
    /\ caller' \in Callers \ {"none"}
    /\ call' = "sendShutdown"
    /\ UNCHANGED <<state, hasWorker, request, valueVars, parameterVars>>
    /\ UNCHANGED pipeVars

\* "let _ = self.send(&Command::Shutdown)".
SendShutdown ==
    /\ Busy("sendShutdown")
    /\ Write([kind |-> "Shutdown"]) \/ WriteFails
    /\ Continue("drain")

\* A mutant of the next: reading stops at the first message.
AllKindsFinal == {"Log", "Ready", "StepComplete", "Terminated", "Error"}

\* The messages at which reading stops.
FinalKinds == {"Terminated", "Error"}

\* Everything else is read and dropped.
Drain ==
    /\ Busy("drain")
    /\ stdout # <<>>
    /\ Read(Head(stdout))
    /\ Continue(IF Head(stdout).kind \in FinalKinds THEN "wait" ELSE "drain")

DrainAtEnd ==
    /\ Busy("drain")
    /\ ReceivesNothing
    /\ Continue("wait")

\* worker.child.wait() returns once the process has exited; nothing is read
\* from its stdout any more.
Reap ==
    /\ Busy("wait")
    /\ proc = "exited"
    /\ proc' = "none"
    /\ stdin' = <<>>
    /\ stdout' = <<>>
    /\ hasWorker' = FALSE
    /\ call' = "idle"
    /\ caller' = "none"
    /\ Finish(caller)
    /\ UNCHANGED <<request, importer>>

-----------------------------------------------------------------------------
\* What the importer decides to call.
ImporterCalls ==
    \/ Instantiate
    \/ SetupExperiment
    \/ EnterInitializationMode
    \/ SetReal
    \/ SetBoolean
    \/ SetString
    \/ RejectArgument
    \/ ExitInitializationWrongly
    \/ SpawnFails
    \/ RefuseStep
    \/ DoStep
    \/ FinishWithoutWorker
    \/ StopWorker

\* The steps of a function that has been called.
HostProceeds ==
    \/ SendInitialize
    \/ SkipLog
    \/ ReceiveReady
    \/ InitializationFails
    \/ SendStep
    \/ FinishWrite
    \/ ReceiveStepComplete
    \/ StepDiscarded
    \/ StepFails
    \/ SendShutdown
    \/ Drain
    \/ DrainAtEnd
=============================================================================
