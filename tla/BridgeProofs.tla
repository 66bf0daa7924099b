----------------------------- MODULE BridgeProofs -----------------------------
(***************************************************************************)
(* Theorems about Bridge for every value of its constants.  The inductive  *)
(* invariant is TypeOK /\ Ownership: typing alone is not inductive, since  *)
(* fmi2DoStep sends the request it has stored, which is one only because a *)
(* step is in progress; and Ownership is what FreshSpawn follows from.     *)
(***************************************************************************)
EXTENDS Bridge, TLAPS

-----------------------------------------------------------------------------
(* Types of the data the messages carry.                                   *)

\* The start values of ep2fmu-config.json are an input vector.
LEMMA StartInputsType == StartInputs \in InputVectors
  BY PipesAssumption DEF StartInputs, InputVectors

\* Each message the host can write is a command.
LEMMA CommandTypes ==
    /\ \A d \in Directories, k \in Keeps :
          [kind |-> "Initialize", directory |-> d, keep |-> k] \in Commands
    /\ [kind |-> "Shutdown"] \in Commands
    /\ \A p \in Points, h \in Sizes, v \in InputVectors :
          [kind |-> "Step", point |-> p, size |-> h, inputs |-> v] \in Commands
  BY DEF Commands

\* A Step the worker reads carries what the host put into it.
LEMMA StepCommand ==
    ASSUME NEW c \in Commands, c.kind = "Step"
    PROVE  c.point \in Points /\ c.size \in Sizes /\ c.inputs \in InputVectors
  BY DEF Commands

\* An Initialize carries the parameters.
LEMMA InitializeCommand ==
    ASSUME NEW c \in Commands, c.kind = "Initialize"
    PROVE  c.directory \in {"temporary", "chosen"} /\ c.keep \in BOOLEAN
  BY PipesAssumption DEF Commands

\* Each message the worker can write is a response.
LEMMA ResponseTypes ==
    /\ \A k \in {"Log", "Terminated", "Error"} : [kind |-> k] \in Responses
    /\ \A r \in Readings, s \in StopTimes :
          [kind |-> "Ready", outputs |-> r, stop |-> s] \in Responses
    /\ \A t \in Nat, r \in Readings :
          [kind |-> "StepComplete", time |-> t, outputs |-> r] \in Responses
  BY DEF Responses

\* A Ready or StepComplete the host reads carries a reading.
LEMMA AnswerTypes ==
    ASSUME NEW r \in Responses
    PROVE  /\ r.kind = "Ready" => r.outputs \in Readings /\ r.stop \in StopTimes
           /\ r.kind = "StepComplete" => r.outputs \in Readings /\ r.time \in Nat
  BY DEF Responses

\* An aligned step is a natural number of zone steps.
LEMMA ZoneStepsType ==
    ASSUME NEW h \in Sizes, Aligned(h)
    PROVE  ZoneSteps(h) \in Nat
  <1>1. CASE h = NaN
    BY <1>1, SpecialFloats DEF ZoneSteps
  <1>2. CASE h = Infinity
    BY <1>2, SpecialFloats DEF ZoneSteps
  <1>3. CASE h \notin {NaN, Infinity}
    <2>1. h \in Int /\ Rounded(h) >= 1
      BY <1>3, PipesAssumption DEF Aligned
    <2>2. Rounded(h) \in Int
      <3>1. 2 * h + ZoneStep \in Int /\ 2 * ZoneStep \in Nat \ {0}
        BY <2>1, ZoneStepAssumption
      <3>2. ASSUME NEW a \in Int, NEW b \in Nat \ {0} PROVE a \div b \in Int
        OBVIOUS
      <3>. QED BY <3>1, <3>2 DEF Rounded
    <2>. QED BY <1>3, <2>1, <2>2 DEF ZoneSteps
  <1>. QED BY <1>1, <1>2, <1>3

-----------------------------------------------------------------------------
(* The pipes keep their types through every read and write.                *)

LEMMA WriteType ==
    ASSUME PipesTypeOK, NEW c \in Commands, Write(c)
    PROVE  PipesTypeOK'
  BY DEF PipesTypeOK, Write

LEMMA ReadType ==
    ASSUME PipesTypeOK, NEW r, Read(r)
    PROVE  PipesTypeOK' /\ r \in Responses
  BY DEF PipesTypeOK, Read

LEMMA ReplyType ==
    ASSUME PipesTypeOK, NEW r \in Responses, Reply(r) \/ ReplyFails
    PROVE  PipesTypeOK'
  BY DEF PipesTypeOK, Reply, ReplyFails, pipeVars

LEMMA TakeType ==
    ASSUME PipesTypeOK, NEW c, Take(c)
    PROVE  PipesTypeOK' /\ c \in Commands
  BY DEF PipesTypeOK, Take

LEMMA PipesUnchanged ==
    ASSUME PipesTypeOK, UNCHANGED pipeVars
    PROVE  PipesTypeOK'
  BY DEF PipesTypeOK, pipeVars

-----------------------------------------------------------------------------
\* The initial state is typed and nothing is owned.
LEMMA InitInvariant == Init => TypeOK /\ Ownership
  <1>. SUFFICES ASSUME Init PROVE TypeOK /\ Ownership
    OBVIOUS
  <1>1. HostTypeOK
    BY StartInputsType, PipesAssumption, ZoneStepAssumption
    DEF Init, HostInit, HostTypeOK, Lifecycle, Calls, Callers
  <1>2. PipesTypeOK
    BY DEF Init, PipesInit, PipesTypeOK
  <1>3. WorkerTypeOK
    <2>1. EnergyPlusTypeOK
      <3>1. 0 \in 0..MaxWarmup /\ 0 \in 0..MaxLogs
        BY EnergyPlusAssumption
      <3>. QED BY <3>1 DEF Init, WorkerInit, EnergyPlusInit, EnergyPlusTypeOK
    <2>. QED BY <2>1, StartInputsType, ZoneStepAssumption
             DEF Init, WorkerInit, WorkerTypeOK, PCs, DirectoryStates
  <1>4. Ownership
    BY DEF Init, HostInit, PipesInit, Ownership
  <1>. QED BY <1>1, <1>2, <1>3, <1>4 DEF TypeOK

-----------------------------------------------------------------------------
(* A step of the host leaves the worker's variables typed, and a step of   *)
(* the worker those of the instance.                                       *)

LEMMA WorkerUnchanged ==
    ASSUME WorkerTypeOK, UNCHANGED workerVars
    PROVE  WorkerTypeOK'
  BY DEF WorkerTypeOK, EnergyPlusTypeOK, workerVars, contextVars, runVars, epVars

LEMMA HostUnchanged ==
    ASSUME HostTypeOK, UNCHANGED hostVars
    PROVE  HostTypeOK'
  BY DEF HostTypeOK, hostVars, valueVars, parameterVars

LEMMA FreshWorkerType ==
    ASSUME WorkerFresh
    PROVE  WorkerTypeOK'
  <1>1. EnergyPlusTypeOK'
    <2>1. 0 \in 0..MaxWarmup /\ 0 \in 0..MaxLogs
      BY EnergyPlusAssumption
    <2>. QED BY <2>1 DEF WorkerFresh, EnergyPlusTypeOK
  <1>. QED BY <1>1, StartInputsType, ZoneStepAssumption
           DEF WorkerFresh, WorkerTypeOK, PCs, DirectoryStates

\* fmi2Terminate, fmi2Reset and fmi2FreeInstance leave the instance typed, in a
\* state that no longer runs, and never in Initialization.
LEMMA FinishType ==
    ASSUME HostTypeOK, NEW f \in Callers, Finish(f)
    PROVE  /\ state' \in {"Null", "Instantiated", "Terminated", "Error"}
           /\ inputs' \in InputVectors
           /\ outputs' \in Readings \cup {Zeros}
           /\ modelStop' \in StopTimes
           /\ currentTime' \in Nat
           /\ experimentStop' \in Stops \cup {None}
           /\ outputDirectory' \in Directories /\ keepOutputs' \in Keeps
  <1>. USE PipesAssumption DEF HostTypeOK, Finish, ResetValues, ResetStop,
           DefaultParameters, Fail, valueVars, parameterVars
  <1>1. state' \in {"Null", "Instantiated", "Terminated", "Error"}
    OBVIOUS
  <1>2. inputs' \in InputVectors
    BY StartInputsType
  <1>3. outputs' \in Readings \cup {Zeros} /\ currentTime' \in Nat /\ modelStop' \in StopTimes
    OBVIOUS
  <1>4. experimentStop' \in Stops \cup {None}
    OBVIOUS
  <1>5. outputDirectory' \in Directories
    OBVIOUS
  <1>6. keepOutputs' \in Keeps
    OBVIOUS
  <1>. QED BY <1>1, <1>2, <1>3, <1>4, <1>5, <1>6

-----------------------------------------------------------------------------
(* Each call of the importer keeps the invariant.                          *)

LEMMA ImporterCallsStep ==
    ASSUME TypeOK, Ownership, ImporterCalls, UNCHANGED workerVars
    PROVE  TypeOK' /\ Ownership'
  <1>. USE DEF TypeOK, NoExchange, valueVars, parameterVars
  <1>1. CASE Instantiate
    <2>1. HostTypeOK'
      BY <1>1, StartInputsType, PipesAssumption
      DEF Instantiate, ResetValues, ResetStop, DefaultParameters, HostTypeOK, Lifecycle
    <2>2. PipesTypeOK'
      BY <1>1, PipesUnchanged DEF Instantiate
    <2>3. Ownership'
      BY <1>1 DEF Instantiate, Ownership, pipeVars
    <2>. QED BY <2>1, <2>2, <2>3, WorkerUnchanged
  <1>2. CASE SetupExperiment
    <2>1. HostTypeOK'
      BY <1>2 DEF SetupExperiment, Callable, Fail, HostTypeOK, Lifecycle
    <2>2. PipesTypeOK'
      BY <1>2, PipesUnchanged DEF SetupExperiment
    <2>3. Ownership'
      BY <1>2 DEF SetupExperiment, Callable, Fail, Ownership, pipeVars
    <2>. QED BY <2>1, <2>2, <2>3, WorkerUnchanged
  <1>3. CASE EnterInitializationMode
    <2>1. HostTypeOK'
      BY <1>3 DEF EnterInitializationMode, Callable, Fail, HostTypeOK, Lifecycle
    <2>2. PipesTypeOK'
      BY <1>3, PipesUnchanged DEF EnterInitializationMode
    <2>3. Ownership'
      BY <1>3 DEF EnterInitializationMode, Callable, Fail, Ownership, pipeVars
    <2>. QED BY <2>1, <2>2, <2>3, WorkerUnchanged
  <1>4. CASE SetReal
    <2>1. inputs' \in InputVectors
      BY <1>4 DEF SetReal, HostTypeOK, InputVectors
    <2>2. HostTypeOK'
      BY <1>4, <2>1 DEF SetReal, PerhapsFail, Callable, Fail, HostTypeOK, Lifecycle
    <2>3. PipesTypeOK'
      BY <1>4, PipesUnchanged DEF SetReal
    <2>4. Ownership'
      BY <1>4 DEF SetReal, PerhapsFail, Callable, Fail, Ownership, pipeVars
    <2>. QED BY <2>2, <2>3, <2>4, WorkerUnchanged
  <1>5. CASE SetBoolean \/ SetString
    <2>1. HostTypeOK'
      BY <1>5 DEF SetBoolean, SetString, PerhapsFail, Fail, HostTypeOK, Lifecycle
    <2>2. PipesTypeOK'
      BY <1>5, PipesUnchanged DEF SetBoolean, SetString
    <2>3. Ownership'
      BY <1>5 DEF SetBoolean, SetString, PerhapsFail, Callable, Fail, Ownership, pipeVars
    <2>. QED BY <2>1, <2>2, <2>3, WorkerUnchanged
  <1>6. CASE CallFails
    <2>1. HostTypeOK'
      BY <1>6 DEF CallFails, Fail, HostTypeOK, Lifecycle
    <2>2. PipesTypeOK'
      BY <1>6, PipesUnchanged DEF CallFails
    <2>3. Ownership'
      BY <1>6 DEF CallFails, Callable, Fail, Ownership, pipeVars
    <2>. QED BY <2>1, <2>2, <2>3, WorkerUnchanged
  <1>7. CASE DoStep
    <2>1. request' \in StepRequests /\ state = "Running"
      BY <1>7 DEF DoStep, StepRequests
    <2>2. HostTypeOK'
      BY <1>7, <2>1 DEF DoStep, HostTypeOK, Calls
    <2>3. PipesTypeOK'
      BY <1>7, PipesUnchanged DEF DoStep
    <2>4. Ownership'
      BY <1>7, <2>1 DEF DoStep, Callable, Ownership, pipeVars
    <2>. QED BY <2>2, <2>3, <2>4, WorkerUnchanged
  <1>8. CASE FinishWithoutWorker
    <2>1. PICK f \in Callers : Finish(f)
      BY <1>8 DEF FinishWithoutWorker
    <2>2. HostTypeOK'
      BY <1>8, <2>1, FinishType DEF FinishWithoutWorker, HostTypeOK, Lifecycle
    <2>3. PipesTypeOK'
      BY <1>8, PipesUnchanged DEF FinishWithoutWorker
    <2>4. state' \in {"Null", "Instantiated", "Terminated", "Error"}
      BY <2>1, FinishType
    <2>5. Ownership'
      BY <1>8, <2>4 DEF FinishWithoutWorker, NothingToStop, Callable, Ownership, pipeVars
    <2>. QED BY <2>2, <2>3, <2>5, WorkerUnchanged
  <1>9. CASE StopWorker
    <2>1. HostTypeOK'
      BY <1>9 DEF StopWorker, HostTypeOK, Calls, Callers
    <2>2. PipesTypeOK'
      BY <1>9, PipesUnchanged DEF StopWorker
    <2>3. Ownership'
      BY <1>9 DEF StopWorker, Callable, Ownership, pipeVars
    <2>. QED BY <2>1, <2>2, <2>3, WorkerUnchanged
  <1>. QED BY <1>1, <1>2, <1>3, <1>4, <1>5, <1>6, <1>7, <1>8, <1>9
           DEF ImporterCalls, RejectArgument, ExitInitializationWrongly, SpawnFails,
               RefuseStep

LEMMA SpawnStep ==
    ASSUME TypeOK, Ownership, ExitInitializationMode
    PROVE  TypeOK' /\ Ownership'
  <1>. USE DEF TypeOK, ExitInitializationMode
  <1>1. HostTypeOK'
    BY DEF SpawnWorker, HostTypeOK, Calls, valueVars, parameterVars
  <1>2. PipesTypeOK'
    BY DEF SpawnWorker, PipesTypeOK
  <1>3. Ownership'
    BY DEF SpawnWorker, Callable, Ownership
  <1>. QED BY <1>1, <1>2, <1>3, FreshWorkerType

-----------------------------------------------------------------------------
(* Each step of a call in progress keeps the invariant.                    *)

\* The oldest message of a stdout that has one is a response.
LEMMA HeadResponse ==
    ASSUME PipesTypeOK, stdout # <<>>
    PROVE  Head(stdout) \in Responses
  BY DEF PipesTypeOK

LEMMA HostProceedsStep ==
    ASSUME TypeOK, Ownership, HostProceeds, UNCHANGED workerVars
    PROVE  TypeOK' /\ Ownership'
  <1>. USE DEF TypeOK, Return, Continue, WriteFails, Receives, ReceivesNothing,
               valueVars, parameterVars
  <1>1. CASE SendInitialize
    <2>1. HostTypeOK'
      BY <1>1 DEF SendInitialize, Fail, HostTypeOK, Lifecycle, Calls
    <2>2. PipesTypeOK'
      BY <1>1, WriteType, PipesUnchanged, CommandTypes DEF SendInitialize, HostTypeOK
    <2>3. Ownership'
      BY <1>1 DEF SendInitialize, Busy, Write, Fail, Ownership, pipeVars
    <2>. QED BY <2>1, <2>2, <2>3, WorkerUnchanged
  <1>2. CASE SkipLog
    <2>1. PipesTypeOK'
      BY <1>2, ReadType DEF SkipLog
    <2>2. Ownership'
      BY <1>2 DEF SkipLog, Read, Ownership, hostVars
    <2>. QED BY <1>2, <2>1, <2>2, HostUnchanged, WorkerUnchanged DEF SkipLog
  <1>3. CASE ReceiveReady
    <2>1. Head(stdout).outputs \in Readings /\ Head(stdout).stop \in StopTimes
      BY <1>3, HeadResponse, AnswerTypes DEF ReceiveReady
    <2>2. HostTypeOK'
      BY <1>3, <2>1 DEF ReceiveReady, Fail, HostTypeOK, Lifecycle, Calls
    <2>3. PipesTypeOK'
      BY <1>3, ReadType DEF ReceiveReady
    <2>4. Ownership'
      BY <1>3 DEF ReceiveReady, Busy, Read, Fail, Ownership
    <2>. QED BY <2>2, <2>3, <2>4, WorkerUnchanged
  <1>4. CASE InitializationFails
    <2>1. HostTypeOK'
      BY <1>4 DEF InitializationFails, Fail, HostTypeOK, Lifecycle, Calls
    <2>2. PipesTypeOK'
      BY <1>4, ReadType, PipesUnchanged DEF InitializationFails
    <2>3. Ownership'
      BY <1>4 DEF InitializationFails, Busy, Read, Fail, Ownership, pipeVars
    <2>. QED BY <2>1, <2>2, <2>3, WorkerUnchanged
  <1>5. CASE SendStep
    <2>1. [kind |-> "Step", point |-> request.point, size |-> request.size,
           inputs |-> inputs] \in Commands
      BY <1>5, CommandTypes
      DEF SendStep, Busy, Ownership, StepRequests, HostTypeOK
    <2>2. HostTypeOK'
      BY <1>5 DEF SendStep, Fail, HostTypeOK, Lifecycle, Calls
    <2>3. PipesTypeOK'
      BY <1>5, <2>1, WriteType, PipesUnchanged DEF SendStep
    <2>4. Ownership'
      BY <1>5 DEF SendStep, Busy, Write, Fail, Ownership, pipeVars
    <2>. QED BY <2>2, <2>3, <2>4, WorkerUnchanged
  <1>6. CASE FinishWrite
    <2>1. HostTypeOK'
      BY <1>6 DEF FinishWrite, Fail, HostTypeOK, Lifecycle, Calls
    <2>2. PipesTypeOK'
      BY <1>6, PipesUnchanged DEF FinishWrite
    <2>3. Ownership'
      BY <1>6 DEF FinishWrite, Busy, Fail, Ownership, pipeVars
    <2>. QED BY <2>1, <2>2, <2>3, WorkerUnchanged
  <1>7. CASE ReceiveStepComplete
    <2>1. Head(stdout).outputs \in Readings /\ Head(stdout).time \in Nat
      BY <1>7, HeadResponse, AnswerTypes DEF ReceiveStepComplete
    <2>2. HostTypeOK'
      BY <1>7, <2>1 DEF ReceiveStepComplete, HostTypeOK, Calls
    <2>3. PipesTypeOK'
      BY <1>7, ReadType DEF ReceiveStepComplete
    <2>4. Ownership'
      BY <1>7 DEF ReceiveStepComplete, Busy, Read, Ownership
    <2>. QED BY <2>2, <2>3, <2>4, WorkerUnchanged
  <1>8. CASE StepDiscarded
    <2>1. HostTypeOK'
      BY <1>8 DEF StepDiscarded, HostTypeOK, Lifecycle, Calls
    <2>2. PipesTypeOK'
      BY <1>8, ReadType DEF StepDiscarded
    <2>3. Ownership'
      BY <1>8 DEF StepDiscarded, Busy, Read, Ownership
    <2>. QED BY <2>1, <2>2, <2>3, WorkerUnchanged
  <1>9. CASE StepFails
    <2>1. HostTypeOK'
      BY <1>9 DEF StepFails, Fail, HostTypeOK, Lifecycle, Calls
    <2>2. PipesTypeOK'
      BY <1>9, ReadType, PipesUnchanged DEF StepFails
    <2>3. Ownership'
      BY <1>9 DEF StepFails, Busy, Read, Fail, Ownership, pipeVars
    <2>. QED BY <2>1, <2>2, <2>3, WorkerUnchanged
  <1>10. CASE SendShutdown
    <2>1. HostTypeOK'
      BY <1>10 DEF SendShutdown, HostTypeOK, Calls
    <2>2. PipesTypeOK'
      BY <1>10, WriteType, PipesUnchanged, CommandTypes DEF SendShutdown
    <2>3. Ownership'
      BY <1>10 DEF SendShutdown, Busy, Write, Ownership, pipeVars
    <2>. QED BY <2>1, <2>2, <2>3, WorkerUnchanged
  <1>11. CASE Drain
    <2>1. HostTypeOK'
      BY <1>11 DEF Drain, HostTypeOK, Calls
    <2>2. PipesTypeOK'
      BY <1>11, ReadType DEF Drain
    <2>3. Ownership'
      BY <1>11 DEF Drain, Busy, Read, Ownership
    <2>. QED BY <2>1, <2>2, <2>3, WorkerUnchanged
  <1>12. CASE DrainAtEnd
    <2>1. HostTypeOK'
      BY <1>12 DEF DrainAtEnd, HostTypeOK, Calls
    <2>2. PipesTypeOK'
      BY <1>12, PipesUnchanged DEF DrainAtEnd
    <2>3. Ownership'
      BY <1>12 DEF DrainAtEnd, Busy, Ownership, pipeVars
    <2>. QED BY <2>1, <2>2, <2>3, WorkerUnchanged
  <1>. QED BY <1>1, <1>2, <1>3, <1>4, <1>5, <1>6, <1>7, <1>8, <1>9, <1>10, <1>11,
              <1>12 DEF HostProceeds

\* Reaping the worker ends both the process and the ownership of it.
LEMMA ReapStep ==
    ASSUME TypeOK, Ownership, WaitForWorker
    PROVE  TypeOK' /\ Ownership'
  <1>. USE DEF TypeOK, WaitForWorker
  <1>1. caller \in Callers /\ Finish(caller)
    BY DEF Reap, HostTypeOK
  <1>2. HostTypeOK'
    BY <1>1, FinishType DEF Reap, HostTypeOK, Lifecycle, Calls, Callers
  <1>3. PipesTypeOK'
    BY DEF Reap, PipesTypeOK
  <1>4. state' \in {"Null", "Instantiated", "Terminated", "Error"}
    BY <1>1, FinishType
  <1>5. Ownership'
    BY <1>4 DEF Reap, Ownership
  <1>. QED BY <1>2, <1>3, <1>5, FreshWorkerType

-----------------------------------------------------------------------------
(* Each step of the worker keeps the invariant.                            *)

\* No step of the worker reaps its own process or starts another.
LEMMA WorkerOwnership ==
    ASSUME Ownership, UNCHANGED hostVars, proc # "none", proc' # "none"
    PROVE  Ownership'
  BY DEF Ownership, hostVars

\* What EnergyPlus reports is a reading.
LEMMA OutputsType ==
    ASSUME WorkerTypeOK
    PROVE  Outputs(simStep) \in Readings
  BY DEF WorkerTypeOK, EnergyPlusTypeOK, Outputs, Readings

LEMMA HeadCommand ==
    ASSUME PipesTypeOK, stdin # <<>>
    PROVE  Head(stdin) \in Commands
  BY DEF PipesTypeOK

LEMMA WorkerRunsStep ==
    ASSUME TypeOK, Ownership, WorkerRuns
    PROVE  TypeOK' /\ Ownership'
  <1>. USE DEF TypeOK, WorkerRuns
  <1>. DEFINE Kept == WorkerTypeOK' /\ PipesTypeOK' /\ proc # "none" /\ proc' # "none"
  <1>. SUFFICES Kept
    BY HostUnchanged, WorkerOwnership
  <1>. USE DEF At, contextVars, runVars
  <1>1. CASE Boot
    <2>1. /\ pc' \in PCs
          /\ keep' \in BOOLEAN
          /\ workerStop' \in StopTimes
          /\ directory' \in DirectoryStates
      BY <1>1, HeadCommand, InitializeCommand
      DEF Boot, Initialized, Dropped, WorkerTypeOK, PCs, DirectoryStates
    <2>5. WorkerTypeOK'
      BY <1>1, <2>1 DEF Boot, WorkerTypeOK, EnergyPlusTypeOK, epVars
    <2>2. PipesTypeOK'
      BY <1>1, TakeType, PipesUnchanged DEF Boot
    <2>. QED BY <1>1, <2>5, <2>2 DEF Boot, Take, pipeVars
  <1>2. CASE BeginWarmupTimestep
    <2>1. EnergyPlusTypeOK'
      <3>1. warm' \in 0..MaxWarmup
        BY <1>2, EnergyPlusAssumption
        DEF BeginWarmupTimestep, WarmupTimestep, WorkerTypeOK, EnergyPlusTypeOK
      <3>. QED BY <1>2, <3>1
               DEF BeginWarmupTimestep, WarmupTimestep, Simulate, ApplyInputs,
                   WorkerTypeOK, EnergyPlusTypeOK
    <2>2. WorkerTypeOK'
      BY <1>2, <2>1 DEF BeginWarmupTimestep, Simulate, ApplyInputs, WorkerTypeOK, PCs
    <2>3. PipesTypeOK'
      BY <1>2, PipesUnchanged DEF BeginWarmupTimestep
    <2>. QED BY <1>2, <2>2, <2>3 DEF BeginWarmupTimestep, pipeVars
  <1>3. CASE ReportHandleError
    <2>1. WorkerTypeOK'
      BY <1>3 DEF ReportHandleError, StopSimulation, Simulate, WorkerTypeOK,
                  EnergyPlusTypeOK, PCs
    <2>2. PipesTypeOK'
      BY <1>3, ReplyType, ResponseTypes DEF ReportHandleError, ReplyIgnoringErrors
    <2>. QED BY <1>3, <2>1, <2>2
             DEF ReportHandleError, ReplyIgnoringErrors, Reply, ReplyFails, pipeVars
  <1>4. CASE BeginRunTimestep
    <2>1. WorkerTypeOK'
      BY <1>4 DEF BeginRunTimestep, Simulate, ApplyInputs, WorkerTypeOK,
                  EnergyPlusTypeOK, PCs
    <2>2. PipesTypeOK'
      BY <1>4, PipesUnchanged DEF BeginRunTimestep
    <2>. QED BY <1>4, <2>1, <2>2 DEF BeginRunTimestep, pipeVars
  <1>5. CASE SendReady
    <2>1. WorkerTypeOK'
      BY <1>5 DEF SendReady, WorkerTypeOK, EnergyPlusTypeOK, PCs, epVars
    <2>2. PipesTypeOK'
      BY <1>5, ReplyType, ResponseTypes, OutputsType DEF SendReady, WorkerTypeOK
    <2>. QED BY <1>5, <2>1, <2>2 DEF SendReady, Reply
  <1>6. CASE SendReadyFails
    <2>1. WorkerTypeOK'
      BY <1>6 DEF SendReadyFails, StopSimulation, Simulate, WorkerTypeOK,
                  EnergyPlusTypeOK, PCs
    <2>2. PipesTypeOK'
      BY <1>6, PipesUnchanged DEF SendReadyFails, ReplyFails
    <2>. QED BY <1>6, <2>1, <2>2 DEF SendReadyFails, ReplyFails, pipeVars
  <1>7. CASE AcceptStep
    <2>1. Head(stdin) \in Commands /\ Head(stdin).kind = "Step" /\ Aligned(Head(stdin).size)
      BY <1>7, HeadCommand DEF AcceptStep, StepAccepted
    <2>2. Head(stdin).size \in Sizes /\ Head(stdin).inputs \in InputVectors
      BY <2>1, StepCommand
    <2>3. ZoneSteps(Head(stdin).size) \in Nat
      BY <2>1, <2>2, ZoneStepsType
    <2>4. WorkerTypeOK'
      BY <1>7, <2>2, <2>3 DEF AcceptStep, StepInputs, ApplyInputs, Simulate, WorkerTypeOK,
                              EnergyPlusTypeOK, PCs
    <2>5. PipesTypeOK'
      BY <1>7, TakeType DEF AcceptStep
    <2>. QED BY <1>7, <2>4, <2>5 DEF AcceptStep, Take
  <1>8. CASE RejectCommand
    <2>1. WorkerTypeOK'
      BY <1>8 DEF RejectCommand, WorkerTypeOK, EnergyPlusTypeOK, PCs, epVars
    <2>2. PipesTypeOK'
      BY <1>8, TakeType DEF RejectCommand
    <2>. QED BY <1>8, <2>1, <2>2 DEF RejectCommand, Take
  <1>9. CASE SendRejection
    <2>1. WorkerTypeOK'
      BY <1>9 DEF SendRejection, Simulate, WorkerTypeOK, EnergyPlusTypeOK, PCs
    <2>2. PipesTypeOK'
      BY <1>9, ReplyType, ResponseTypes DEF SendRejection, ReplyIgnoringErrors
    <2>. QED BY <1>9, <2>1, <2>2
             DEF SendRejection, ReplyIgnoringErrors, Reply, ReplyFails, pipeVars
  <1>10. CASE ReceiveShutdown
    <2>1. WorkerTypeOK'
      BY <1>10 DEF ReceiveShutdown, StopSimulation, Simulate, WorkerTypeOK,
                   EnergyPlusTypeOK, PCs
    <2>2. PipesTypeOK'
      BY <1>10, TakeType, PipesUnchanged DEF ReceiveShutdown, CommandsEnd
    <2>. QED BY <1>10, <2>1, <2>2 DEF ReceiveShutdown, CommandsEnd, Take, pipeVars
  <1>11. CASE EndZoneTimestep
    <2>1. remaining' \in Nat /\ workerTime' \in Nat
      BY <1>11, ZoneStepAssumption DEF EndZoneTimestep, Counted, WorkerTypeOK
    <2>2. pc' \in PCs
      BY <1>11 DEF EndZoneTimestep, WorkerTypeOK, PCs
    <2>3. EnergyPlusTypeOK'
      <3>1. simStep' \in Nat
        BY <1>11 DEF EndZoneTimestep, TimestepEnds, WorkerTypeOK, EnergyPlusTypeOK
      <3>. QED BY <1>11, <3>1
               DEF EndZoneTimestep, TimestepEnds, WorkerTypeOK, EnergyPlusTypeOK
    <2>4. WorkerTypeOK'
      BY <1>11, <2>1, <2>2, <2>3 DEF EndZoneTimestep, WorkerTypeOK
    <2>5. PipesTypeOK'
      BY <1>11, PipesUnchanged DEF EndZoneTimestep
    <2>. QED BY <1>11, <2>4, <2>5 DEF EndZoneTimestep, pipeVars
  <1>12. CASE SendStepComplete
    <2>1. WorkerTypeOK'
      BY <1>12 DEF SendStepComplete, WorkerTypeOK, EnergyPlusTypeOK, PCs, epVars
    <2>2. [kind |-> "StepComplete", time |-> workerTime, outputs |-> Outputs(simStep)]
            \in Responses
      BY ResponseTypes, OutputsType DEF WorkerTypeOK
    <2>3. PipesTypeOK'
      BY <1>12, <2>2, ReplyType DEF SendStepComplete, ReplyIgnoringErrors
    <2>. QED BY <1>12, <2>1, <2>3
             DEF SendStepComplete, ReplyIgnoringErrors, Reply, ReplyFails, pipeVars
  <1>13. CASE EmitLog
    <2>1. EnergyPlusTypeOK'
      BY <1>13, EnergyPlusAssumption DEF EmitLog, WorkerTypeOK, EnergyPlusTypeOK
    <2>2. WorkerTypeOK'
      BY <1>13, <2>1 DEF EmitLog, WorkerTypeOK
    <2>3. PipesTypeOK'
      BY <1>13, ReplyType, ResponseTypes DEF EmitLog, ReplyIgnoringErrors
    <2>. QED BY <1>13, <2>2, <2>3
             DEF EmitLog, ReplyIgnoringErrors, Reply, ReplyFails, pipeVars
  <1>14. CASE ChangeEnvironment
    <2>1. EnergyPlusTypeOK'
      <3>1. warm' \in 0..MaxWarmup
        BY <1>14, EnergyPlusAssumption
        DEF ChangeEnvironment, RunPeriodBegins, NextEnvironment, WorkerTypeOK,
            EnergyPlusTypeOK
      <3>. QED BY <1>14, <3>1
               DEF ChangeEnvironment, RunPeriodBegins, NextEnvironment,
                   WorkerTypeOK, EnergyPlusTypeOK
    <2>2. WorkerTypeOK'
      BY <1>14, <2>1 DEF ChangeEnvironment, WorkerTypeOK
    <2>3. PipesTypeOK'
      BY <1>14, PipesUnchanged DEF ChangeEnvironment
    <2>. QED BY <1>14, <2>2, <2>3 DEF ChangeEnvironment, pipeVars
  <1>15. CASE EnergyPlusReturns
    <2>1. WorkerTypeOK'
      BY <1>15 DEF EnergyPlusReturns, RunEnds, RunAborts, Retained, Dropped,
                   WorkerTypeOK, EnergyPlusTypeOK, PCs, DirectoryStates, epVars
    <2>2. PipesTypeOK'
      BY <1>15, PipesUnchanged DEF EnergyPlusReturns
    <2>. QED BY <1>15, <2>1, <2>2 DEF EnergyPlusReturns, pipeVars
  <1>16. CASE SendTerminated
    <2>1. WorkerTypeOK'
      BY <1>16 DEF SendTerminated, AfterFarewell, Dropped, WorkerTypeOK,
                   EnergyPlusTypeOK, PCs, DirectoryStates, epVars
    <2>2. PipesTypeOK'
      BY <1>16, ReplyType, ResponseTypes DEF SendTerminated
    <2>. QED BY <1>16, <2>1, <2>2 DEF SendTerminated, Reply, ReplyFails, pipeVars
  <1>17. CASE SendFailure
    <2>1. WorkerTypeOK'
      BY <1>17 DEF SendFailure, WorkerTypeOK, EnergyPlusTypeOK, PCs, epVars
    <2>2. PipesTypeOK'
      BY <1>17, ReplyType, ResponseTypes DEF SendFailure, ReplyIgnoringErrors
    <2>. QED BY <1>17, <2>1, <2>2
             DEF SendFailure, ReplyIgnoringErrors, Reply, ReplyFails, pipeVars
  <1>18. CASE Exit
    <2>1. WorkerTypeOK'
      BY <1>18 DEF Exit, Dropped, WorkerTypeOK, EnergyPlusTypeOK, DirectoryStates, epVars
    <2>2. PipesTypeOK'
      BY <1>18 DEF Exit, PipesTypeOK
    <2>. QED BY <1>18, <2>1, <2>2 DEF Exit
  <1>. QED BY <1>1, <1>2, <1>3, <1>4, <1>5, <1>6, <1>7, <1>8, <1>9, <1>10, <1>11,
              <1>12, <1>13, <1>14, <1>15, <1>16, <1>17, <1>18 DEF WorkerStep

-----------------------------------------------------------------------------
\* A crash or a kill changes only what the system knows of the processes.
LEMMA FaultStep ==
    ASSUME TypeOK, Ownership, WorkerCrashes \/ ImporterKilled
    PROVE  TypeOK' /\ Ownership'
  <1>. USE DEF TypeOK
  <1>1. HostTypeOK' /\ WorkerTypeOK'
    BY HostUnchanged
    DEF WorkerCrashes, ImporterKilled, WorkerTypeOK, EnergyPlusTypeOK, PCs,
        workerVars, contextVars, runVars, epVars
  <1>2. PipesTypeOK'
    <2>1. stdin' \in Seq(Commands)
      <3>1. <<>> \in Seq(Commands)
        OBVIOUS
      <3>. QED BY <3>1 DEF WorkerCrashes, ImporterKilled, PipesTypeOK
    <2>. QED BY <2>1 DEF WorkerCrashes, ImporterKilled, PipesTypeOK
  <1>3. Ownership'
    BY DEF WorkerCrashes, ImporterKilled, Ownership, hostVars, valueVars, parameterVars
  <1>. QED BY <1>1, <1>2, <1>3

LEMMA NextInvariant == TypeOK /\ Ownership /\ [Next]_vars => TypeOK' /\ Ownership'
  <1>. SUFFICES ASSUME TypeOK, Ownership, [Next]_vars
                PROVE  TypeOK' /\ Ownership'
    OBVIOUS
  <1>1. CASE UNCHANGED vars
    <2>1. UNCHANGED hostVars /\ UNCHANGED pipeVars /\ UNCHANGED workerVars
      BY <1>1 DEF vars
    <2>2. TypeOK'
      BY <2>1, HostUnchanged, PipesUnchanged, WorkerUnchanged DEF TypeOK
    <2>3. Ownership'
      BY <2>1 DEF hostVars, pipeVars, Ownership
    <2>. QED BY <2>2, <2>3
  <1>2. CASE HostCalls
    BY <1>2, SpawnStep, ImporterCallsStep DEF HostCalls
  <1>3. CASE HostReturns
    BY <1>3, ReapStep, HostProceedsStep DEF HostReturns
  <1>4. CASE WorkerRuns
    BY <1>4, WorkerRunsStep
  <1>5. CASE WorkerCrashes \/ ImporterKilled
    BY <1>5, FaultStep
  <1>. QED BY <1>1, <1>2, <1>3, <1>4, <1>5 DEF Next

\* Every variable has its type in every reachable state: among others the
\* worker's count of remaining zone steps never goes below zero (main.rs:293).
THEOREM TypeCorrect == Spec => []TypeOK
  <1>1. Spec => [](TypeOK /\ Ownership)
    BY InitInvariant, NextInvariant, PTL DEF Spec
  <1>. QED BY <1>1, PTL

\* The instance and the operating system agree on whether there is a worker, and
\* every call in progress is made in the lifecycle state it is meant for.
THEOREM OwnershipHolds == Spec => []Ownership
  <1>1. Spec => [](TypeOK /\ Ownership)
    BY InitInvariant, NextInvariant, PTL DEF Spec
  <1>. QED BY <1>1, PTL

\* spawn_worker never overwrites a worker and fmi2FreeInstance leaves none
\* behind, with crashes, kills and failing file systems included.
THEOREM SpawnIsFresh == Spec => []FreshSpawn
  <1>1. Ownership => FreshSpawn
    BY DEF Ownership, FreshSpawn, Idle
  <1>. QED BY <1>1, OwnershipHolds, PTL
=============================================================================
