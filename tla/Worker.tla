-------------------------------- MODULE Worker --------------------------------
(***************************************************************************)
(* The worker process of one FMU instance,                                 *)
(* runtime/ep2fmu-worker/src/main.rs: run(), which reads Initialize and    *)
(* runs EnergyPlus, and the callbacks EnergyPlus makes on the same thread  *)
(* at the beginning and at the end of each zone timestep.  A callback      *)
(* takes its commands from stdin and writes its responses to stdout, and   *)
(* EnergyPlus waits for it meanwhile: that is the whole synchronisation    *)
(* between the simulation and the importer.                                *)
(*                                                                         *)
(* Each read and each write of a pipe is a step of its own; "pc" says      *)
(* which one is next, or that EnergyPlus is running between callbacks.     *)
(***************************************************************************)
EXTENDS EnergyPlus

VARIABLES
    pc,            \* where the worker's thread is
    readySent,     \* RuntimeContext.ready_sent
    handlesReady,  \* RuntimeContext.handles_ready
    remaining,     \* RuntimeContext.remaining_steps
    workerTime,    \* RuntimeContext.current_time
    workerInputs,  \* RuntimeContext.current_inputs
    shutdown,      \* RuntimeContext.shutdown
    workerStop,    \* stop_time_seconds of run's config
    keep,          \* run's keep_outputs
    directory      \* what has become of run's output directory

contextVars == <<readySent, handlesReady, remaining, workerTime, workerInputs,
                 shutdown>>
runVars == <<workerStop, keep, directory>>
workerVars == <<pc, contextVars, runVars, epVars>>

PCs == {"boot", "simulating", "handleError", "sendReady", "receive", "reject",
        "sendComplete", "terminating", "failing", "exiting", "crashed"}

\* A temporary directory is there while TempDir is held, then removed or kept.
DirectoryStates == {"none", "chosen", "temporary", "removed", "kept"}

WorkerTypeOK ==
    /\ EnergyPlusTypeOK
    /\ pc \in PCs
    /\ readySent \in BOOLEAN
    /\ handlesReady \in BOOLEAN
    /\ remaining \in Nat
    /\ workerTime \in Nat
    /\ workerInputs \in InputVectors
    /\ shutdown \in BOOLEAN
    /\ workerStop \in StopTimes
    /\ keep \in BOOLEAN
    /\ directory \in DirectoryStates

WorkerInit ==
    /\ EnergyPlusInit
    /\ pc = "boot"
    /\ readySent = FALSE
    /\ handlesReady = FALSE
    /\ remaining = 0
    /\ workerTime = 0
    /\ workerInputs = StartInputs
    /\ shutdown = FALSE
    /\ workerStop = StopTime
    /\ keep = FALSE
    /\ directory = "none"

\* A process that starts, with its statics as the program text has them; run has
\* read nothing yet, and what stands for its stop time is of no consequence.
WorkerFresh ==
    /\ phase' = "warmup"
    /\ inStep' = FALSE
    /\ simStep' = 0
    /\ applied' = ModelOwn
    /\ stopFlag' = FALSE
    /\ warm' = 0
    /\ logs' = 0
    /\ pc' = "boot"
    /\ readySent' = FALSE
    /\ handlesReady' = FALSE
    /\ remaining' = 0
    /\ workerTime' = 0
    /\ workerInputs' = StartInputs
    /\ shutdown' = FALSE
    /\ workerStop' = StopTime
    /\ keep' = FALSE
    /\ directory' = "none"

At(where) == proc = "alive" /\ pc = where

-----------------------------------------------------------------------------
(* run() up to the call of energyplus().                                   *)

\* TempDir is dropped; a directory of the importer's choice is not touched.
Dropped(dir) == IF dir = "temporary" THEN "removed" ELSE dir

\* Initialize is read, then the configuration; it or the EnergyPlus home may be
\* unusable, and after the output directory has been made, the library, which
\* drops a temporary directory whatever keepOutputs says.
Initialized(command) ==
    /\ keep' = command.keep
    /\ \/ /\ pc' = "simulating"
          /\ workerStop' \in StopTimes
          /\ directory' = command.directory
       \/ /\ pc' = "failing"
          /\ directory' \in {"none", Dropped(command.directory)}
          /\ UNCHANGED workerStop

Boot ==
    /\ At("boot")
    /\ \/ /\ stdin # <<>>
          /\ Take(Head(stdin))
          /\ IF Head(stdin).kind = "Initialize"
             THEN Initialized(Head(stdin))
             ELSE pc' = "failing" /\ UNCHANGED runVars
       \/ /\ InputAtEnd
          /\ pc' = "failing"
          /\ UNCHANGED <<pipeVars, runVars>>
    /\ UNCHANGED <<contextVars, epVars>>

-----------------------------------------------------------------------------
(* begin_zone_timestep.                                                    *)

\* The callback returns and EnergyPlus simulates the timestep.
Simulate == pc' = "simulating" /\ inStep' = TRUE

\* ... after the inputs have been written to their actuators.
ApplyInputs(values) == applied' = values /\ Simulate

\* A warm-up timestep.  Until the API data is ready nothing happens; then the
\* handles are looked up, once, and the inputs are applied every time.
BeginWarmupTimestep ==
    /\ At("simulating")
    /\ WarmupTimestep
    /\ \/ /\ ~handlesReady
          /\ ~LastWarmup
          /\ Simulate
          /\ UNCHANGED <<handlesReady, applied>>
       \/ /\ ~handlesReady
          /\ pc' = "handleError"
          /\ UNCHANGED <<handlesReady, applied, inStep>>
       \/ /\ handlesReady' = TRUE
          /\ ApplyInputs(workerInputs)
    /\ UNCHANGED <<readySent, remaining, workerTime, workerInputs, shutdown, runVars>>
    /\ UNCHANGED pipeVars

\* stop_simulation, and the flag that tells run() the stop was wanted.
StopSimulation ==
    /\ stopFlag' = TRUE
    /\ shutdown' = TRUE
    /\ Simulate
    /\ UNCHANGED <<readySent, handlesReady, remaining, workerTime, workerInputs,
                   runVars, phase, simStep, applied, warm, logs>>

\* A configured input or output has no handle in the model.
ReportHandleError ==
    /\ At("handleError")
    /\ ReplyIgnoringErrors([kind |-> "Error"])
    /\ StopSimulation

\* A timestep of the run period: the first one announces that FMI time starts,
\* and one with no step in progress waits for the importer.
BeginRunTimestep ==
    /\ At("simulating")
    /\ RunTimestep
    /\ IF readySent /\ remaining > 0
       THEN ApplyInputs(workerInputs)
       ELSE /\ pc' = IF readySent THEN "receive" ELSE "sendReady"
            /\ UNCHANGED <<applied, inStep>>
    /\ UNCHANGED <<contextVars, runVars, phase, simStep, stopFlag, warm, logs>>
    /\ UNCHANGED pipeVars

SendReady ==
    /\ At("sendReady")
    /\ Reply([kind |-> "Ready", outputs |-> Outputs(simStep), stop |-> workerStop])
    /\ readySent' = TRUE
    /\ pc' = "receive"
    /\ UNCHANGED <<handlesReady, remaining, workerTime, workerInputs, shutdown,
                   runVars, epVars>>

\* The one send whose failure stops the simulation.
SendReadyFails ==
    /\ At("sendReady")
    /\ ReplyFails
    /\ StopSimulation

\* The checks of a Step command, the host's own again and the input count, which
\* differs only if ep2fmu-config.json changed under the instance.
StepAccepted(command) ==
    /\ AtPoint(command.point, command.size, workerTime)
    /\ Aligned(command.size)
    /\ WithinStop(command.point, command.size, workerStop)

\* A mutant of the next: the inputs of the step before.
PreviousInputs(command) == workerInputs

\* The inputs a step starts with.
StepInputs(command) == command.inputs

AcceptStep ==
    /\ At("receive")
    /\ stdin # <<>>
    /\ Head(stdin).kind = "Step"
    /\ Take(Head(stdin))
    /\ StepAccepted(Head(stdin))
    /\ workerInputs' = Head(stdin).inputs
    /\ remaining' = ZoneSteps(Head(stdin).size)
    /\ ApplyInputs(StepInputs(Head(stdin)))
    /\ UNCHANGED <<readySent, handlesReady, workerTime, shutdown, runVars,
                   phase, simStep, stopFlag, warm, logs>>

\* The command is answered with an Error.  The simulation is not stopped: after
\* the answer the timestep runs, uncounted, and the next one waits again.
RejectCommand ==
    /\ At("receive")
    /\ stdin # <<>>
    /\ Head(stdin).kind # "Shutdown"
    /\ Head(stdin).kind = "Step" =>
          ~StepAccepted(Head(stdin)) \/ "config" \in Faults
    /\ Take(Head(stdin))
    /\ pc' = "reject"
    /\ UNCHANGED <<contextVars, runVars, epVars>>

SendRejection ==
    /\ At("reject")
    /\ ReplyIgnoringErrors([kind |-> "Error"])
    /\ Simulate
    /\ UNCHANGED <<contextVars, runVars, phase, simStep, applied, stopFlag, warm, logs>>

\* A mutant of the next: it is not.
CommandsNeverEnd == FALSE /\ UNCHANGED pipeVars

\* A failed read is taken for a shutdown.
CommandsEnd == InputAtEnd /\ UNCHANGED pipeVars

ReceiveShutdown ==
    /\ At("receive")
    /\ Take([kind |-> "Shutdown"]) \/ CommandsEnd
    /\ StopSimulation

-----------------------------------------------------------------------------
(* end_zone_timestep.                                                      *)

\* Mutants of the next: a warm-up timestep counts too; one outside any step does.
CountedInWarmup == readySent /\ remaining # 0
CountedAlways == readySent /\ phase # "warmup"

\* A timestep counts when it belongs to a step in progress.
Counted == readySent /\ remaining # 0 /\ phase # "warmup"

\* A mutant of the next: a step is answered after each of its timesteps.
CompletesAlways(left) == left >= 0

\* A step is answered after its last timestep.
Completes(left) == left = 0

EndZoneTimestep ==
    /\ At("simulating")
    /\ TimestepEnds
    /\ IF Counted
       THEN /\ remaining' = remaining - 1
            /\ workerTime' = workerTime + ZoneStep
            /\ pc' = IF Completes(remaining') THEN "sendComplete" ELSE pc
       ELSE UNCHANGED <<pc, remaining, workerTime>>
    /\ UNCHANGED <<readySent, handlesReady, workerInputs, shutdown, runVars>>
    /\ UNCHANGED pipeVars

SendStepComplete ==
    /\ At("sendComplete")
    /\ ReplyIgnoringErrors([kind |-> "StepComplete", time |-> workerTime,
                            outputs |-> Outputs(simStep)])
    /\ pc' = "simulating"
    /\ UNCHANGED <<contextVars, runVars, epVars>>

-----------------------------------------------------------------------------
(* EnergyPlus between the callbacks, and the end of run() and main().      *)

\* energyplus_message: a warning, an error or an information becomes a Log.
EmitLog ==
    /\ At("simulating")
    /\ logs < MaxLogs
    /\ logs' = logs + 1
    /\ ReplyIgnoringErrors([kind |-> "Log"])
    /\ UNCHANGED <<pc, contextVars, runVars>>
    /\ UNCHANGED <<phase, inStep, simStep, applied, stopFlag, warm>>

ChangeEnvironment ==
    /\ At("simulating")
    /\ RunPeriodBegins(handlesReady) \/ NextEnvironment
    /\ UNCHANGED <<pc, contextVars, runVars, pipeVars>>

\* Mutants of the next: a temporary directory is always kept; an error of
\* EnergyPlus is looked at first.
RetainedAlways(failed) == IF directory = "temporary" THEN "kept" ELSE directory
RetainedUnlessFailed(failed) ==
    IF keep /\ ~failed /\ directory = "temporary" THEN "kept" ELSE directory

\* keepOutputs takes the directory out of TempDir whatever EnergyPlus returned.
Retained(failed) == IF keep /\ directory = "temporary" THEN "kept" ELSE directory

\* A status other than zero is an error unless the stop was asked for; an error
\* ends run() and drops its TempDir.
EnergyPlusReturns ==
    /\ At("simulating")
    /\ \/ /\ RunEnds \/ (RunAborts /\ shutdown)
          /\ pc' = "terminating"
          /\ directory' = Retained(FALSE)
       \/ /\ RunAborts
          /\ ~shutdown
          /\ pc' = "failing"
          /\ directory' = Dropped(Retained(TRUE))
    /\ UNCHANGED <<contextVars, workerStop, keep, pipeVars>>

\* A mutant of the next: main reports an error all the same.
FailureAfterFarewell == "failing"

\* What follows a Terminated.
AfterFarewell == "exiting"

SendTerminated ==
    /\ At("terminating")
    /\ \/ /\ Reply([kind |-> "Terminated"])
          /\ pc' = AfterFarewell
          /\ UNCHANGED directory
       \/ /\ ReplyFails
          /\ pc' = "failing"
          /\ directory' = Dropped(directory)
    /\ UNCHANGED <<contextVars, workerStop, keep, epVars>>

\* main: the error of run() is the worker's last message.
SendFailure ==
    /\ At("failing")
    /\ ReplyIgnoringErrors([kind |-> "Error"])
    /\ pc' = "exiting"
    /\ UNCHANGED <<contextVars, runVars, epVars>>

\* run() and main() return, and the process is gone.
Exit ==
    /\ At("exiting")
    /\ proc' = "exited"
    /\ directory' = Dropped(directory)
    /\ UNCHANGED <<stdin, stdout, importer>>
    /\ UNCHANGED <<pc, contextVars, workerStop, keep, epVars>>

-----------------------------------------------------------------------------
WorkerStep ==
    \/ Boot
    \/ BeginWarmupTimestep
    \/ ReportHandleError
    \/ BeginRunTimestep
    \/ SendReady
    \/ SendReadyFails
    \/ AcceptStep
    \/ RejectCommand
    \/ SendRejection
    \/ ReceiveShutdown
    \/ EndZoneTimestep
    \/ SendStepComplete
    \/ EmitLog
    \/ ChangeEnvironment
    \/ EnergyPlusReturns
    \/ SendTerminated
    \/ SendFailure
    \/ Exit
=============================================================================
