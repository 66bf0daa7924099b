-------------------------------- MODULE Bridge --------------------------------
(***************************************************************************)
(* One FMU instance at run time: the FMI instance inside the importer and  *)
(* the worker process it starts, joined by the worker's stdin and stdout.  *)
(***************************************************************************)
EXTENDS FmiInstance, Worker

vars == <<hostVars, pipeVars, workerVars>>

Init ==
    /\ HostInit
    /\ PipesInit
    /\ WorkerInit

-----------------------------------------------------------------------------
(* Starting and reaping a process concern both sides.                      *)

ExitInitializationMode == SpawnWorker /\ WorkerFresh

WaitForWorker == Reap /\ WorkerFresh

(* What happens to the processes whatever the code does.                   *)

\* The worker dies at any point: a fault in EnergyPlus, or the system kills it.
\* No destructor runs.
WorkerCrashes ==
    /\ "crash" \in Faults
    /\ proc = "alive"
    /\ proc' = "exited"
    /\ pc' = "crashed"
    /\ UNCHANGED <<stdin, stdout, importer>>
    /\ UNCHANGED <<hostVars, contextVars, runVars, epVars>>

\* The importing process dies, perhaps in the middle of a call: the worker finds
\* the end of its input behind half a command.
ImporterKilled ==
    /\ "kill" \in Faults
    /\ importer = "alive"
    /\ proc # "none"
    /\ importer' = "killed"
    /\ stdin' = IF call = "writeStep" THEN <<>> ELSE stdin
    /\ UNCHANGED <<stdout, proc>>
    /\ UNCHANGED <<hostVars, workerVars>>

-----------------------------------------------------------------------------
HostCalls == ExitInitializationMode \/ (ImporterCalls /\ UNCHANGED workerVars)

HostReturns == WaitForWorker \/ (HostProceeds /\ UNCHANGED workerVars)

WorkerRuns == WorkerStep /\ UNCHANGED hostVars

Next ==
    \/ HostCalls
    \/ HostReturns
    \/ WorkerRuns
    \/ WorkerCrashes
    \/ ImporterKilled

Spec == Init /\ [][Next]_vars

\* A call in progress and a live worker are both scheduled by the operating
\* system; whether the importer calls anything, and what goes wrong, is open.
FairSpec == Spec /\ WF_vars(HostReturns) /\ WF_vars(WorkerRuns)

-----------------------------------------------------------------------------
(* Invariants.                                                             *)

\* Every variable of the two processes and their pipes has its type.
TypeOK == HostTypeOK /\ PipesTypeOK /\ WorkerTypeOK

Idle == importer = "alive" /\ call = "idle"

\* Who owns what while a call is in progress: a worker process exists exactly
\* while the instance holds it, each call that talks to it is made in its own
\* lifecycle state, and only an instance that has been started can hold one
\* (lib.rs:229, 282).  With TypeOK this is inductive.
Ownership ==
    /\ hasWorker <=> proc # "none"
    /\ state \in {"Null", "Instantiated"} => ~hasWorker /\ call = "idle"
    /\ state = "Initialization" =>
          \/ ~hasWorker /\ call = "idle"
          \/ hasWorker /\ call \in {"sendInitialize", "awaitReady"}
    /\ state = "Running" => hasWorker
    /\ call \in {"sendInitialize", "awaitReady"} => state = "Initialization"
    /\ call \in {"sendStep", "writeStep", "awaitStep"} =>
          state = "Running" /\ request \in StepRequests
    /\ call \in {"sendShutdown", "drain", "wait"} => hasWorker /\ caller # "none"

\* An instance that may still be initialised, and one that is gone, holds no
\* worker and has left no process behind: spawn_worker never overwrites a worker
\* (lib.rs:229) and fmi2FreeInstance reaps the one it had.
FreshSpawn ==
    Idle /\ state \in {"Null", "Instantiated", "Initialization"}
      => ~hasWorker /\ proc = "none"

\* Whenever the importer can ask for a step, the instance, the worker and the
\* simulation agree what time it is (lib.rs:743, main.rs:294).
ClockAgreement ==
    Idle /\ state = "Running"
      => currentTime = workerTime /\ currentTime = ZoneStep * simStep

\* An answer is in the pipe only while the call it answers waits for it, so no
\* call ever takes the answer to an earlier one (lib.rs:741-747).
NoStaleAnswer ==
    \A k \in DOMAIN stdout :
        /\ stdout[k].kind = "Ready" => call = "awaitReady"
        /\ stdout[k].kind = "StepComplete" =>
              /\ call \in {"writeStep", "awaitStep"}
              /\ stdout[k].time = currentTime + ZoneSteps(request.size) * ZoneStep

\* The worker may yet read a command.
MayRead ==
    /\ proc = "alive"
    /\ ~stopFlag
    /\ pc \notin {"terminating", "failing", "exiting"}

\* A worker that may yet read never has two commands before it, so the
\* BufReader it drops after each read (main.rs:49) loses none.
CommandsNeverCoalesce == MayRead => Len(stdin) <= 1

\* When stop_worker stops reading, the worker has written its last message, so
\* waiting for it with its stdout undrained (lib.rs:277-284) cannot block it.
NothingLeftToDrain ==
    call = "wait" => stdout = <<>> /\ (proc = "alive" => pc = "exiting")

\* The worker's checks never refuse a step that passed the host's, which leaves
\* the simulation running uncounted (main.rs:229-236), except for the NaN stop
\* time the host's comparison does not see (lib.rs:468).
HostChecksSuffice == pc = "reject" => experimentStop = NaN

\* Nothing of EnergyPlus has run in the worker: no timestep, no message.
NeverSimulated == phase = "warmup" /\ ~inStep /\ warm = 0 /\ logs = 0 /\ simStep = 0

\* Once the worker has exited, also after an error and when its importer has died,
\* its temporary output directory is kept only if keepOutputs was set, and removed
\* if it was not.  Only a worker that is killed leaves it as it was.  One thing that
\* README.md:391-392 does not say: when run() fails before it starts EnergyPlus, the
\* empty directory is removed with keepOutputs too (main.rs:364-380, 462-475).
OutputsAsPromised ==
    proc = "exited" /\ pc # "crashed" =>
        /\ directory # "temporary"
        /\ directory = "kept" => keep
        /\ directory = "removed" => ~keep \/ NeverSimulated

-----------------------------------------------------------------------------
(* What the invariants above rest on: for each place the two processes may *)
(* be in, what the pipes hold and what the worker has counted.             *)

\* The worker has nothing left to read and no answer left to give, only its last
\* message.
Over == proc # "alive" \/ stopFlag \/ pc \in {"terminating", "failing", "exiting"}

\* The worker's own flags and its place in the program.
WorkerShape ==
    /\ readySent => handlesReady
    /\ phase = "run" => handlesReady
    /\ ~readySent => remaining = 0 /\ workerTime = 0
    /\ ~readySent /\ ~stopFlag => simStep = 0 /\ ~(phase = "run" /\ inStep)
    /\ stopFlag => remaining = 0
    /\ stopFlag <=> shutdown
    /\ pc = "boot" => ~readySent /\ ~handlesReady /\ ~stopFlag /\ NeverSimulated
    /\ pc = "handleError" => ~handlesReady /\ ~stopFlag
    /\ pc = "sendReady" => ~readySent /\ phase = "run" /\ ~stopFlag
    /\ pc \in {"receive", "reject", "sendComplete"} =>
          readySent /\ phase = "run" /\ ~stopFlag /\ ~inStep /\ remaining = 0
    /\ proc = "none" => pc = "boot"
    /\ proc = "exited" => pc \in {"exiting", "crashed"}
    /\ pc = "crashed" => proc = "exited"

\* The output directory, from its creation to the end of run().
DirectoryShape ==
    /\ pc = "boot" => directory = "none"
    /\ pc \in {"simulating", "handleError", "sendReady", "receive", "reject",
              "sendComplete"} => directory \in {"temporary", "chosen"}
    /\ pc = "failing" => directory # "temporary"
    /\ pc \in {"terminating", "failing", "exiting"} => ~(keep /\ directory = "temporary")
    /\ proc = "exited" /\ pc # "crashed" => directory # "temporary"
    /\ directory = "kept" => keep
    /\ directory = "removed" => ~keep \/ NeverSimulated

\* An answer to a call, as opposed to a message of EnergyPlus and to the last
\* message of the worker.
Answer(k) ==
    \/ stdout[k].kind \in {"Ready", "StepComplete"}
    \/ stdout[k].kind = "Error" /\ ~(k = Len(stdout) /\ pc \in {"exiting", "crashed"})

\* The time at which the step in progress is to end.
Target == currentTime + ZoneSteps(request.size) * ZoneStep

\* A call gets one answer, and only while it waits; a farewell is the last
\* message.
AnswersInTurn ==
    /\ \A j, k \in DOMAIN stdout : Answer(j) /\ Answer(k) => j = k
    /\ \A k \in DOMAIN stdout :
          /\ Answer(k) => call \in {"awaitReady", "writeStep", "awaitStep"}
          /\ Answer(k) => stdin = <<>> /\ remaining = 0 /\ pc \notin
                {"boot", "handleError", "sendReady", "reject", "sendComplete"}
          /\ stdout[k].kind = "Ready" => call = "awaitReady" /\ readySent
          /\ stdout[k].kind = "StepComplete" =>
                call # "awaitReady" /\ stdout[k].time = Target /\ workerTime = Target
          /\ stdout[k].kind = "Error" /\ Answer(k) /\ call = "awaitReady" => Over
          /\ stdout[k].kind = "Terminated" =>
                k = Len(stdout) /\ pc \in {"exiting", "crashed"}
    /\ call = "wait" => stdout = <<>> /\ (proc = "alive" => pc = "exiting")

\* A call that does not wait for the worker finds it without work; a worker that
\* works for a call does it for the call in progress.
CommandsInTurn ==
    /\ stdin # <<>> => call \in {"awaitReady", "writeStep", "awaitStep", "drain"} \/ Over
    /\ ~Over => Len(stdin) <= 1
    /\ call = "sendInitialize" =>
          /\ stdin = <<>> /\ stdout = <<>>
          /\ pc \in {"boot", "failing", "exiting", "crashed"}
          /\ pc \in {"failing", "exiting"} => importer = "killed"
    /\ proc = "alive" /\ pc = "boot" => call \in {"sendInitialize", "awaitReady"}
    /\ call = "awaitReady" /\ stdin # <<>> =>
          stdin[1].kind = "Initialize" /\ pc \in {"boot", "crashed"}
    /\ stdin # <<>> /\ ~Over /\ call = "drain" => stdin[1].kind = "Shutdown"
    /\ ~Over /\ ~readySent => call \in {"sendInitialize", "awaitReady"}
    /\ pc \in {"reject", "sendComplete"} \/ remaining > 0 =>
          (stdin = <<>> /\ call \in {"writeStep", "awaitStep"}) \/ Over
    /\ pc = "handleError" => call = "awaitReady"

\* A stop time that some configuration of the instance lets an importer define.
Attainable(stop) == \E end \in StopTimes : ~BeyondRunPeriod(stop, end)

\* What an experiment has set up does not change until the instance is reset.
ExperimentShape ==
    /\ state \in {"Instantiated", "Initialization"} => currentTime = 0
    /\ state \in {"Instantiated", "Initialization", "Running"} =>
          Attainable(experimentStop)
    /\ call \in {"sendStep", "writeStep", "awaitStep"} =>
          Acceptable(request.point, request.size)

\* The worker's clock is the simulation's, and no timestep runs uncounted.
Synchronised ==
    /\ workerTime = ZoneStep * simStep
    /\ phase = "run" /\ inStep => remaining > 0

\* Both clocks through a step: equal before the worker has read the command, a
\* known way from the target while it counts, on it once it has answered.
ClocksInTurn ==
    /\ importer = "alive" /\ readySent =>
          /\ call \in {"awaitReady", "sendStep", "writeStep", "awaitStep"} => ~stopFlag
          /\ call = "idle" /\ state = "Running" => ~stopFlag
    /\ state = "Running" => readySent /\ modelStop = workerStop
    /\ state = "Running" /\ call \in {"idle", "sendStep"} =>
          /\ stdin = <<>> /\ remaining = 0
          /\ workerTime = currentTime
          /\ ~stopFlag => Synchronised
    /\ call \in {"writeStep", "awaitStep"} /\ stdin # <<>> /\ ~Over =>
          /\ remaining = 0
          /\ stdin[1].kind = "Step"
          /\ stdin[1].point = request.point /\ stdin[1].size = request.size
          /\ workerTime = currentTime
          /\ Synchronised
    /\ ~Over /\ (remaining > 0 \/ pc = "sendComplete") =>
          workerTime + remaining * ZoneStep = Target /\ Synchronised
    /\ \A k \in DOMAIN stdout :
          /\ stdout[k].kind \in {"Ready", "StepComplete"} /\ ~stopFlag => Synchronised
          /\ stdout[k].kind = "Ready" => workerTime = 0 /\ stdout[k].stop = workerStop

Protocol ==
    /\ WorkerShape
    /\ DirectoryShape
    /\ ExperimentShape
    /\ AnswersInTurn
    /\ CommandsInTurn
    /\ ClocksInTurn

\* The step in progress moves time and passes for one within the RunPeriod.
Advances == Target > currentTime /\ WithinStop(request.point, request.size, modelStop)

\* The data that travels with them: the step in progress uses the instance's
\* inputs, and what is answered was simulated with them.
DataInTurn ==
    /\ ~readySent => workerInputs = StartInputs
    /\ ~readySent /\ handlesReady => applied = StartInputs
    /\ call \in {"writeStep", "awaitStep"} /\ stdin # <<>> /\ ~Over =>
          stdin[1].inputs = inputs
    /\ ~Over /\ (remaining > 0 \/ pc = "sendComplete") =>
          applied = inputs /\ workerInputs = inputs /\ Advances
    /\ \A k \in DOMAIN stdout :
          /\ stdout[k].kind = "Ready" => stdout[k].outputs = [at |-> 0, with |-> StartInputs]
          /\ stdout[k].kind = "StepComplete" =>
                /\ stdout[k].outputs = [at |-> Target \div ZoneStep, with |-> inputs]
                /\ Advances
    /\ simStep > 0 => \E length \in RunLengths : length >= simStep
    /\ pc \in {"sendReady", "receive", "reject"} \/ (phase = "run" /\ inStep) =>
          \E length \in RunLengths : length > simStep

-----------------------------------------------------------------------------
(* The contract.                                                           *)

\* The instance's own variables are the abstract ones.
Contract == INSTANCE CoSimulation WITH
    state <- state, modelStop <- modelStop, currentTime <- currentTime, experimentStop <- experimentStop,
    inputs <- inputs, outputs <- outputs

\* What the contract takes for granted: no communication point is a NaN, and no
\* simulation has as many timesteps as an infinite step asks for.
OrdinaryRun ==
    /\ NaN \notin Points
    /\ \A length \in RunLengths : length < ManySteps

\* The two processes together behave as the instance the README promises.
ImplementsContract == Contract!Spec

-----------------------------------------------------------------------------
(* Liveness.                                                               *)

\* A Step that does not fit in stdin waits for a worker that waits for room in
\* stdout: nothing in the code resolves this.
BothPipesFull ==
    call = "writeStep" /\ stdin # <<>> /\ Len(stdout) >= OutCapacity

\* Every call returns, whatever becomes of the worker, unless its own process is
\* killed: no other write, read or wait blocks both sides (lib.rs:145-182, 271-285).
CallsReturn ==
    (call # "idle") ~> (call = "idle" \/ importer = "killed" \/ BothPipesFull)

\* A worker whose importer has died notices and ends (main.rs:262-266).
OrphanExits == (importer = "killed") ~> (proc # "alive")

-----------------------------------------------------------------------------
(* Statements of the documentation that the code does not keep.            *)

\* README.md:373: "fmi2Reset terminates and recreates the worker."
ResetRecreatesWorker ==
    [][caller = "Reset" /\ caller' = "none" /\ state' = "Instantiated"
         => hasWorker']_vars

\* README.md:371-372: misaligned steps "return an FMI error"; a step of NaN
\* seconds does not even return.
MisalignedStepsReturn ==
    (call = "awaitStep" /\ request.size = NaN) ~> (call = "idle")

\* README.md:371-372: steps beyond the model RunPeriod return an FMI error.
NoStepBeyondRunPeriod == currentTime <= StopTime
=============================================================================
