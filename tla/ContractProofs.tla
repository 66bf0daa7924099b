---------------------------- MODULE ContractProofs ----------------------------
(***************************************************************************)
(* The two processes of Bridge implement the instance of CoSimulation, for *)
(* every value of the constants.  The invariant of ProtocolProofs says     *)
(* when a message is written and read; DataInTurn adds what is in it.      *)
(***************************************************************************)
EXTENDS ProtocolProofs

-----------------------------------------------------------------------------
(* Arithmetic of the tolerances.                                           *)

\* An exact multiple divides back.
LEMMA DivExact ==
    ASSUME NEW z \in Nat \ {0}, NEW n \in Nat
    PROVE  (z * n) \div z = n
  <1>1. ASSUME NEW q \in Int, NEW r \in Int, 0 <= r, r < z, z * n = z * q + r
        PROVE  q = n
    <2>1. z * (n - q) = r
      BY <1>1
    <2>2. CASE n - q >= 1
      <3>1. 1 * z <= (n - q) * z
        BY <2>2, ProductMonotone
      <3>. QED BY <1>1, <2>1, <3>1
    <2>3. CASE n - q <= -1
      <3>1. (n - q) * z <= (-1) * z
        BY <2>3, ProductMonotone
      <3>. QED BY <1>1, <2>1, <3>1
    <2>4. CASE n = q
      BY <2>4
    <2>. QED BY <2>2, <2>3, <2>4
  <1>2. /\ (z * n) \div z \in Int /\ (z * n) % z \in Int
        /\ 0 <= (z * n) % z /\ (z * n) % z < z
        /\ z * n = z * ((z * n) \div z) + ((z * n) % z)
    <2>1. z * n \in Nat
      OBVIOUS
    <2>2. ASSUME NEW a \in Nat
          PROVE  a \div z \in Int /\ a % z \in Int /\ 0 <= a % z /\ a % z < z
                 /\ a = z * (a \div z) + (a % z)
      OBVIOUS
    <2>. QED BY <2>1, <2>2
  <1>. QED BY <1>1, <1>2

\* A step whose size is a zone step more than the run period would, by far, not
\* pass for one within it.
LEMMA StepBounded ==
    ASSUME NEW h \in Nat, NEW s \in Nat, NEW z \in Nat \ {0}, NEW e \in Nat,
           e * (2 * s + 4 * z) < z * z,
           (h - s) * z <= 2 * (h * e)
    PROVE  2 * h <= 2 * s + 3 * z
  <1>. SUFFICES ASSUME 2 * h > 2 * s + 3 * z PROVE FALSE
    OBVIOUS
  <1>. DEFINE K == 2 * s + 4 * z
  <1>1. K \in Nat \ {0} /\ e * K < z * z
    OBVIOUS
  <1>2. ((h - s) * z) * K <= (2 * (h * e)) * K
    BY <1>1, ProductMonotone
  <1>3. (e * K) * (2 * h) <= (z * z) * (2 * h)
    BY <1>1, ProductMonotone
  <1>4. ((h - s) * K) * z <= (2 * h * z) * z
    BY <1>1, <1>2, <1>3
  <1>5. (h - s) * K <= 2 * h * z
    <2>1. CASE (h - s) * K >= 2 * h * z + 1
      <3>1. (2 * h * z + 1) * z <= ((h - s) * K) * z
        BY <1>1, <2>1, ProductMonotone
      <3>. QED BY <1>4, <3>1
    <2>. QED BY <1>1, <2>1
  <1>6. h * (s + z) <= s * (s + 2 * z)
    BY <1>5
  <1>7. (s + z + 1) * (s + z) <= h * (s + z)
    BY ProductMonotone
  <1>. QED BY <1>6, <1>7

\* A step the checks let through ends less than a zone step after the stop time.
LEMMA StepEndsInTime ==
    ASSUME NEW point \in Int, NEW h \in Int, NEW time \in Nat, NEW stop \in Int,
           NEW end \in StopTimes, stop <= end, AtPoint(point, h, time), Aligned(h),
           WithinStop(point, h, stop)
    PROVE  time + ZoneSteps(h) * ZoneStep < stop + ZoneStep
  <1>. USE SpecialFloats, ZoneStepAssumption, ToleranceAssumption
  <1>. DEFINE n == Rounded(h)
              t == h * Eps
  <1>1. /\ h \notin {NaN, Infinity} /\ point \notin {NaN, Infinity}
        /\ stop \notin {NaN, Infinity} /\ ZoneSteps(h) = n
    BY DEF ZoneSteps
  <1>2. h > 0 /\ Magnitude(h - n * ZoneStep) <= Eps
    BY <1>1 DEF Aligned
  <1>3. n \in Int
    <2>1. 2 * h + ZoneStep \in Int /\ 2 * ZoneStep \in Nat \ {0}
      OBVIOUS
    <2>2. ASSUME NEW a \in Int, NEW b \in Nat \ {0} PROVE a \div b \in Int
      OBVIOUS
    <2>. QED BY <2>1, <2>2 DEF Rounded
  <1>. HIDE DEF n
  <1>4. n * ZoneStep <= h + Eps
    BY <1>2, <1>3 DEF Magnitude
  <1>5. t \in Nat /\ Magnitude(h) * Eps = t
    BY <1>2 DEF Magnitude
  <1>. HIDE DEF t
  <1>6. (time - point) * ZoneStep <= t
    <2>1. Magnitude(point - time) * ZoneStep <= t
      BY <1>1, <1>5 DEF AtPoint
    <2>2. time - point <= Magnitude(point - time) /\ Magnitude(point - time) \in Int
      BY DEF Magnitude
    <2>3. (time - point) * ZoneStep <= Magnitude(point - time) * ZoneStep
      BY <2>2, ProductMonotone
    <2>. QED BY <1>5, <2>1, <2>2, <2>3
  <1>7. (point + h - stop) * ZoneStep <= t
    BY <1>1, <1>5 DEF WithinStop
  <1>8. (time + h - stop) * ZoneStep <= 2 * t
    <2>1. (time + h - stop) * ZoneStep
            = (time - point) * ZoneStep + (point + h - stop) * ZoneStep
      OBVIOUS
    <2>. QED BY <1>5, <1>6, <1>7, <2>1
  <1>end. end \in Nat /\ end * Eps \in Nat /\ Eps * (2 * end + 4 * ZoneStep) < ZoneStep * ZoneStep
    OBVIOUS
  <1>9. 2 * h <= 2 * end + 3 * ZoneStep
    <2>1. (h - end) * ZoneStep <= (time + h - stop) * ZoneStep
      BY <1>end, ProductMonotone
    <2>2. (h - end) * ZoneStep <= 2 * (h * Eps)
      BY <1>5, <1>8, <1>end, <2>1 DEF t
    <2>. QED BY <1>2, <1>end, <2>2, StepBounded
  <1>10. 2 * t + Eps * ZoneStep < ZoneStep * ZoneStep
    <2>1. (2 * h) * Eps <= (2 * end + 3 * ZoneStep) * Eps
      BY <1>end, <1>9, ProductMonotone
    <2>. QED BY <1>end, <2>1 DEF t
  <1>11. (time + n * ZoneStep - stop) * ZoneStep < ZoneStep * ZoneStep
    <2>1. (time + n * ZoneStep - stop) * ZoneStep <= (time + h + Eps - stop) * ZoneStep
      BY <1>3, <1>4, ProductMonotone
    <2>2. (time + h + Eps - stop) * ZoneStep
            = (time + h - stop) * ZoneStep + Eps * ZoneStep
      OBVIOUS
    <2>. QED BY <1>3, <1>5, <1>8, <1>10, <2>1, <2>2
  <1>12. time + n * ZoneStep - stop < ZoneStep
    <2>1. CASE time + n * ZoneStep - stop >= ZoneStep
      <3>1. ZoneStep * ZoneStep <= (time + n * ZoneStep - stop) * ZoneStep
        BY <1>3, <2>1, ProductMonotone
      <3>. QED BY <1>3, <1>11, <3>1
    <2>. QED BY <1>3, <2>1
  <1>. QED BY <1>1, <1>3, <1>12

\* A multiple of the zone step that ends less than one after the RunPeriod ends
\* within it.
LEMMA WholeStepsWithinPeriod ==
    ASSUME NEW end \in StopTimes, NEW k \in Int, k * ZoneStep < end + ZoneStep
    PROVE  k * ZoneStep <= end
  <1>. USE ZoneStepAssumption
  <1>. DEFINE q == end \div ZoneStep
  <1>1. q \in Int /\ end = q * ZoneStep
    <2>1. ASSUME NEW a \in Nat, NEW b \in Nat \ {0}, a % b = 0
          PROVE  a \div b \in Int /\ a = (a \div b) * b
      BY <2>1
    <2>. QED BY <2>1
  <1>. HIDE DEF q
  <1>2. CASE k <= q
    BY <1>1, <1>2, ProductMonotone
  <1>3. CASE k >= q + 1
    <2>1. (q + 1) * ZoneStep <= k * ZoneStep
      BY <1>1, <1>3, ProductMonotone
    <2>. QED BY <1>1, <2>1
  <1>. QED BY <1>1, <1>2, <1>3

\* How many zone steps fit.
LEMMA StepsFit ==
    ASSUME NEW end \in StopTimes, NEW n \in Nat, n * ZoneStep <= end
    PROVE  n <= end \div ZoneStep
  <1>. USE ZoneStepAssumption
  <1>. DEFINE q == end \div ZoneStep
  <1>1. q \in Int /\ end = q * ZoneStep
    <2>1. ASSUME NEW a \in Nat, NEW b \in Nat \ {0}, a % b = 0
          PROVE  a \div b \in Int /\ a = (a \div b) * b
      BY <2>1
    <2>. QED BY <2>1
  <1>. HIDE DEF q
  <1>2. CASE n >= q + 1
    <2>1. (q + 1) * ZoneStep <= n * ZoneStep
      BY <1>1, <1>2, ProductMonotone
    <2>. QED BY <1>1, <2>1
  <1>3. n <= q
    BY <1>1, <1>2
  <1>. QED BY <1>3 DEF q

-----------------------------------------------------------------------------
(* What the messages carry.                                                *)

LEMMA InitData == Init => DataInTurn
  BY DEF Init, HostInit, PipesInit, WorkerInit, EnergyPlusInit, DataInTurn, Over

\* A step of the host that sends no Step and leaves the instance's inputs alone
\* while a step is in progress.
LEMMA HostData ==
    ASSUME TypeOK, Ownership, Protocol, DataInTurn, Protocol', UNCHANGED workerVars,
           UNCHANGED proc,
           \A k \in DOMAIN stdout' :
              stdout'[k].kind \in {"Ready", "StepComplete"} =>
                 \E j \in DOMAIN stdout : stdout'[k] = stdout[j],
           call' \in {"writeStep", "awaitStep"} =>
              /\ call \in {"sendStep", "writeStep", "awaitStep"}
              /\ UNCHANGED <<inputs, currentTime, request, modelStop>>
              /\ stdin' = stdin \/ stdin'[1].inputs = inputs
    PROVE  DataInTurn'
  <1>. USE DEF workerVars, contextVars, runVars, epVars
  <1>1. CASE call' \in {"writeStep", "awaitStep"}
    <2>1. Target' = Target /\ Over' = Over /\ Advances' = Advances
      BY <1>1 DEF Target, Over, Advances
    <2>2. call = "sendStep" => stdin = <<>>
      BY DEF Protocol, ClocksInTurn, Ownership
    <2>3. ~Over /\ (remaining > 0 \/ pc = "sendComplete") => Advances
      BY DEF DataInTurn
    <2>. QED BY <1>1, <2>1, <2>2 DEF DataInTurn, Over
  <1>2. CASE call' \notin {"writeStep", "awaitStep"}
    <2>1. \A k \in DOMAIN stdout' : stdout'[k].kind # "StepComplete"
      BY <1>2 DEF Protocol, AnswersInTurn, Answer
    <2>2. ~Over' => ~(remaining' > 0 \/ pc' = "sendComplete")
      BY <1>2 DEF Protocol, CommandsInTurn
    <2>. QED BY <1>2, <2>1, <2>2 DEF DataInTurn
  <1>. QED BY <1>1, <1>2

\* Where the simulation starts, nothing has been computed yet.
LEMMA FreshData ==
    ASSUME WorkerFresh, stdin' = <<>>, stdout' = <<>>
    PROVE  DataInTurn'
  BY DEF WorkerFresh, DataInTurn, Over

LEMMA HostCallsData ==
    ASSUME TypeOK, Ownership, Protocol, DataInTurn, Protocol', HostCalls
    PROVE  DataInTurn'
  <1>1. CASE ExitInitializationMode
    BY <1>1, FreshData DEF ExitInitializationMode, SpawnWorker
  <1>2. CASE ImporterCalls /\ UNCHANGED workerVars
    <2>1. UNCHANGED <<stdin, stdout, proc>> /\ call' \in {"idle", "sendStep", "sendShutdown"}
      BY <1>2
      DEF ImporterCalls, Callable, Instantiate, SetupExperiment, EnterInitializationMode,
          SetReal, SetBoolean, SetString, RejectArgument, ExitInitializationWrongly,
          SpawnFails, RefuseStep, CallFails, DoStep, FinishWithoutWorker, StopWorker,
          NoExchange, pipeVars, Ownership
    <2>. QED BY <1>2, <2>1, HostData
  <1>. QED BY <1>1, <1>2 DEF HostCalls

LEMMA HostReturnsData ==
    ASSUME TypeOK, Ownership, Protocol, DataInTurn, Protocol', HostReturns
    PROVE  DataInTurn'
  <1>1. CASE WaitForWorker
    BY <1>1, FreshData DEF WaitForWorker, Reap
  <1>2. CASE HostProceeds /\ UNCHANGED workerVars
    <2>. USE <1>2 DEF Busy, Return, Continue, valueVars, parameterVars, pipeVars
    <2>. DEFINE Carried ==
                   \A k \in DOMAIN stdout' :
                      stdout'[k].kind \in {"Ready", "StepComplete"} =>
                         \E j \in DOMAIN stdout : stdout'[k] = stdout[j]
    <2>1. ASSUME Read(Head(stdout)), stdout # <<>> PROVE Carried /\ UNCHANGED <<stdin, proc>>
      <3>1. \A k \in DOMAIN Tail(stdout) :
               k + 1 \in DOMAIN stdout /\ Tail(stdout)[k] = stdout[k + 1]
        BY <2>1, ReadFacts DEF TypeOK, PipesTypeOK
      <3>. QED BY <2>1, <3>1 DEF Read
    <2>2. UNCHANGED stdout => Carried
      OBVIOUS
    <2>. HIDE DEF Carried
    <2>3. CASE SendInitialize
      BY <2>2, <2>3, HostData DEF SendInitialize, Write, WriteFails, Carried
    <2>4. CASE SkipLog
      <3>1. Read(Head(stdout)) /\ stdout # <<>>
        BY <2>4 DEF SkipLog, Read
      <3>. QED BY <2>1, <2>4, <3>1, HostData DEF SkipLog, hostVars, Carried
    <2>5. CASE ReceiveReady
      BY <2>1, <2>5, HostData DEF ReceiveReady, Receives, Carried
    <2>6. CASE InitializationFails
      BY <2>1, <2>2, <2>6, HostData
      DEF InitializationFails, Receives, ReceivesNothing, Carried
    <2>7. CASE SendStep
      <3>1. CASE WriteFails
        <4>1. call' = "idle" /\ UNCHANGED pipeVars
          BY <2>7, <3>1 DEF SendStep, Write, WriteFails
        <4>. QED BY <2>2, <2>7, <4>1, HostData DEF SendStep, Carried
      <3>2. CASE ~WriteFails
        <4>. DEFINE command == [kind |-> "Step", point |-> request.point,
                                size |-> request.size, inputs |-> inputs]
        <4>1. /\ call = "sendStep" /\ call' \in {"awaitStep", "writeStep"}
              /\ stdin' = Append(stdin, command) /\ UNCHANGED <<stdout, proc>>
              /\ UNCHANGED <<inputs, currentTime, request, modelStop>>
          BY <2>7, <3>2 DEF SendStep, Write
        <4>2. stdin = <<>>
          BY <4>1 DEF Protocol, ClocksInTurn, Ownership
        <4>3. stdin'[1].inputs = inputs
          <5>1. stdin'[1] = command
            BY <4>1, <4>2
          <5>. QED BY <5>1
        <4>. QED BY <2>2, <4>1, <4>3, HostData DEF Carried
      <3>. QED BY <3>1, <3>2
    <2>8. CASE FinishWrite
      BY <2>2, <2>8, HostData DEF FinishWrite, WriteFails, Carried
    <2>9. CASE ReceiveStepComplete
      BY <2>1, <2>9, HostData DEF ReceiveStepComplete, Receives, Carried
    <2>10. CASE StepDiscarded
      BY <2>1, <2>10, HostData DEF StepDiscarded, Receives, Carried
    <2>11. CASE StepFails
      BY <2>1, <2>2, <2>11, HostData DEF StepFails, Receives, ReceivesNothing, Carried
    <2>12. CASE SendShutdown
      BY <2>2, <2>12, HostData DEF SendShutdown, Write, WriteFails, Carried
    <2>13. CASE Drain
      <3>1. call' \in {"drain", "wait"}
        BY <2>13 DEF Drain
      <3>. QED BY <2>1, <2>13, <3>1, HostData DEF Drain, Carried
    <2>14. CASE DrainAtEnd
      BY <2>2, <2>14, HostData DEF DrainAtEnd, ReceivesNothing, Carried
    <2>. QED BY <2>3, <2>4, <2>5, <2>6, <2>7, <2>8, <2>9, <2>10, <2>11, <2>12, <2>13,
                <2>14 DEF HostProceeds
  <1>. QED BY <1>1, <1>2 DEF HostReturns

\* A step of the worker that writes no answer and takes no Step.
LEMMA WorkerData ==
    ASSUME TypeOK, Protocol, DataInTurn, UNCHANGED hostVars, UNCHANGED <<readySent, workerInputs>>,
           Over => Over',
           \/ UNCHANGED stdin
           \/ stdin' = <<>>,
           \A k \in DOMAIN stdout' :
              stdout'[k].kind \in {"Ready", "StepComplete"} =>
                 k \in DOMAIN stdout /\ stdout'[k] = stdout[k],
           applied' = applied \/ applied' = workerInputs,
           ~readySent /\ handlesReady' => applied' = StartInputs,
           ~Over' /\ (remaining' > 0 \/ pc' = "sendComplete") =>
              remaining > 0 \/ pc = "sendComplete",
           simStep' > 0 => \E length \in RunLengths : length >= simStep',
           pc' \in {"sendReady", "receive", "reject"} \/ (phase' = "run" /\ inStep') =>
              \E length \in RunLengths : length > simStep'
    PROVE  DataInTurn'
  <1>. USE DEF hostVars, valueVars
  <1>1. Target' = Target /\ Advances' = Advances
    BY DEF Target, Advances
  <1>2. stdin' # <<>> => stdin' = stdin
    OBVIOUS
  <1>3. ~Over' /\ (remaining' > 0 \/ pc' = "sendComplete") =>
           applied' = inputs /\ workerInputs = inputs /\ Advances
    BY DEF DataInTurn
  <1>4. \A k \in DOMAIN stdout' :
           /\ stdout'[k].kind = "Ready" =>
                 stdout'[k].outputs = [at |-> 0, with |-> StartInputs]
           /\ stdout'[k].kind = "StepComplete" =>
                 /\ stdout'[k].outputs = [at |-> Target \div ZoneStep, with |-> inputs]
                 /\ Advances
    BY DEF DataInTurn
  <1>5. call' \in {"writeStep", "awaitStep"} /\ stdin' # <<>> /\ ~Over' =>
           stdin'[1].inputs = inputs
    BY <1>2 DEF DataInTurn
  <1>6. StartInputs' = StartInputs
    BY DEF StartInputs
  <1>. QED BY <1>1, <1>3, <1>4, <1>5, <1>6 DEF DataInTurn

\* The worker's steps that answer nothing.
LEMMA QuietData ==
    ASSUME TypeOK, Protocol, DataInTurn, UNCHANGED hostVars,
           \/ Boot \/ BeginWarmupTimestep \/ BeginRunTimestep \/ ReportHandleError
           \/ SendReadyFails \/ RejectCommand \/ SendRejection \/ ReceiveShutdown
           \/ EndZoneTimestep \/ EmitLog \/ ChangeEnvironment \/ EnergyPlusReturns
           \/ SendTerminated \/ SendFailure \/ Exit \/ WorkerCrashes
    PROVE  DataInTurn'
  <1>. USE DEF At, Simulate, contextVars, runVars, epVars, pipeVars
  <1>0. DataInTurn /\ Protocol /\ simStep \in Nat /\ remaining \in Nat
    BY DEF TypeOK, WorkerTypeOK, EnergyPlusTypeOK
  <1>1. ASSUME NEW e \in Responses, e.kind \notin {"Ready", "StepComplete"},
               Reply(e) \/ ReplyFails
        PROVE  /\ \A k \in DOMAIN stdout' :
                    stdout'[k].kind \in {"Ready", "StepComplete"} =>
                       k \in DOMAIN stdout /\ stdout'[k] = stdout[k]
               /\ UNCHANGED <<stdin, proc>>
    <2>1. CASE Reply(e)
      BY <1>1, <2>1, MessageWritten DEF TypeOK
    <2>2. CASE ReplyFails
      BY <2>2 DEF ReplyFails
    <2>. QED BY <1>1, <2>1, <2>2
  <1>2. /\ [kind |-> "Log"] \in Responses /\ [kind |-> "Error"] \in Responses
        /\ [kind |-> "Terminated"] \in Responses
    BY ResponseTypes
  <1>3. /\ ~readySent => workerInputs = StartInputs
        /\ ~readySent /\ handlesReady => applied = StartInputs
        /\ simStep > 0 => \E length \in RunLengths : length >= simStep
        /\ pc \in {"sendReady", "receive", "reject"} \/ (phase = "run" /\ inStep) =>
              \E length \in RunLengths : length > simStep
    BY DEF DataInTurn
  <1>. DEFINE Carried ==
                 \A k \in DOMAIN stdout' :
                    stdout'[k].kind \in {"Ready", "StepComplete"} =>
                       k \in DOMAIN stdout /\ stdout'[k] = stdout[k]
  <1>4. UNCHANGED stdout => Carried
    OBVIOUS
  <1>. HIDE DEF Carried
  <1>5. CASE Boot
    <2>1. /\ UNCHANGED <<stdout, proc, contextVars, epVars>> /\ stdin' = <<>>
          /\ pc' \in {"simulating", "failing"} /\ pc = "boot" /\ proc = "alive"
      BY <1>5 DEF Boot, Take, InputAtEnd, Initialized
    <2>. QED BY <1>3, <1>4, <2>1, WorkerData DEF Over, Protocol, WorkerShape, Carried
  <1>6. CASE BeginWarmupTimestep
    BY <1>3, <1>4, <1>6, WorkerData
    DEF BeginWarmupTimestep, WarmupTimestep, ApplyInputs, Over, Carried
  <1>7. CASE BeginRunTimestep
    BY <1>3, <1>4, <1>7, WorkerData
    DEF BeginRunTimestep, RunTimestep, ApplyInputs, Over, Carried
  <1>8. CASE ReportHandleError
    <2>1. Carried /\ UNCHANGED <<stdin, proc>>
      BY <1>1, <1>2, <1>8 DEF ReportHandleError, ReplyIgnoringErrors, Carried
    <2>2. phase = "run" => FALSE
      BY <1>8 DEF ReportHandleError, Protocol, WorkerShape
    <2>. QED BY <1>3, <1>8, <2>1, <2>2, WorkerData
             DEF ReportHandleError, StopSimulation, Over, Carried
  <1>9. CASE SendReadyFails
    BY <1>3, <1>4, <1>9, WorkerData DEF SendReadyFails, ReplyFails, StopSimulation, Over, Carried
  <1>10. CASE RejectCommand
    BY <1>3, <1>4, <1>10, WorkerData DEF RejectCommand, Take, Over, Carried
  <1>11. CASE SendRejection
    <2>1. Carried /\ UNCHANGED <<stdin, proc>>
      BY <1>1, <1>2, <1>11 DEF SendRejection, ReplyIgnoringErrors, Carried
    <2>. QED BY <1>3, <1>11, <2>1, WorkerData DEF SendRejection, Over, Carried
  <1>12. CASE ReceiveShutdown
    BY <1>3, <1>4, <1>12, WorkerData
    DEF ReceiveShutdown, Take, CommandsEnd, InputAtEnd, StopSimulation, Over, Carried
  <1>13. CASE EndZoneTimestep
    <2>1. UNCHANGED <<stdout, stdin, proc, stopFlag, readySent, workerInputs, applied,
                      handlesReady>>
      BY <1>13 DEF EndZoneTimestep, TimestepEnds
    <2>2. Over => Over'
      BY <1>13, <2>1 DEF EndZoneTimestep, Over
    <2>3. remaining' > 0 \/ pc' = "sendComplete" => remaining > 0
      BY <1>0, <1>13 DEF EndZoneTimestep, Counted, TypeOK, WorkerTypeOK
    <2>4. simStep' > 0 => \E length \in RunLengths : length >= simStep'
      <3>1. CASE phase = "run"
        <4>1. simStep' = simStep + 1 /\ inStep
          BY <1>13, <3>1 DEF EndZoneTimestep, TimestepEnds
        <4>2. PICK length \in RunLengths : length > simStep
          BY <1>3, <3>1, <4>1
        <4>. QED BY <1>0, <4>1, <4>2, EnergyPlusAssumption
      <3>2. CASE phase # "run"
        BY <1>3, <1>13, <3>2 DEF EndZoneTimestep, TimestepEnds
      <3>. QED BY <3>1, <3>2
    <2>5. pc' \notin {"sendReady", "receive", "reject"} /\ inStep' = FALSE
      BY <1>13 DEF EndZoneTimestep, TimestepEnds
    <2>. QED BY <1>3, <1>4, <2>1, <2>2, <2>3, <2>4, <2>5, WorkerData DEF Carried
  <1>14. CASE EmitLog
    <2>1. Carried /\ UNCHANGED <<stdin, proc>>
      BY <1>1, <1>2, <1>14 DEF EmitLog, ReplyIgnoringErrors, Carried
    <2>. QED BY <1>3, <1>14, <2>1, WorkerData DEF EmitLog, Over, Carried
  <1>15. CASE ChangeEnvironment
    BY <1>3, <1>4, <1>15, WorkerData
    DEF ChangeEnvironment, RunPeriodBegins, NextEnvironment, Over, Carried
  <1>16. CASE EnergyPlusReturns
    <2>1. /\ UNCHANGED <<contextVars, pipeVars, epVars>>
          /\ pc' \in {"terminating", "failing"} /\ pc = "simulating"
      BY <1>16 DEF EnergyPlusReturns, RunEnds, RunAborts
    <2>. QED BY <1>3, <1>4, <2>1, WorkerData DEF Over, Carried
  <1>17. CASE SendTerminated
    <2>1. Carried /\ UNCHANGED <<stdin, proc>>
      BY <1>1, <1>2, <1>17 DEF SendTerminated, Carried
    <2>. QED BY <1>3, <1>17, <2>1, WorkerData DEF SendTerminated, AfterFarewell, Over, Carried
  <1>18. CASE SendFailure
    <2>1. Carried /\ UNCHANGED <<stdin, proc>>
      BY <1>1, <1>2, <1>18 DEF SendFailure, ReplyIgnoringErrors, Carried
    <2>. QED BY <1>3, <1>18, <2>1, WorkerData DEF SendFailure, Over, Carried
  <1>19. CASE Exit
    BY <1>3, <1>4, <1>19, WorkerData DEF Exit, Over, Carried
  <1>20. CASE WorkerCrashes
    BY <1>3, <1>4, <1>20, WorkerData DEF WorkerCrashes, Over, Carried
  <1>. QED BY <1>5, <1>6, <1>7, <1>8, <1>9, <1>10, <1>11, <1>12, <1>13, <1>14, <1>15,
              <1>16, <1>17, <1>18, <1>19, <1>20

\* Ready carries what was simulated with the start values.
LEMMA ReadyData ==
    ASSUME TypeOK, Protocol, DataInTurn, UNCHANGED hostVars, SendReady
    PROVE  DataInTurn'
  <1>. USE DEF At, hostVars, valueVars, runVars, epVars, SendReady
  <1>. DEFINE answer == [kind |-> "Ready", outputs |-> Outputs(simStep),
                         stop |-> workerStop]
  <1>1. answer \in Responses
    BY ResponseTypes, OutputsType DEF TypeOK, WorkerTypeOK
  <1>2. /\ stdout'[Len(stdout')] = answer
        /\ \A k \in DOMAIN stdout' :
              \/ k = Len(stdout')
              \/ k \in DOMAIN stdout /\ stdout'[k] = stdout[k]
        /\ UNCHANGED <<stdin, proc, importer>>
    BY <1>1, MessageWritten DEF TypeOK
  <1>3. ~readySent /\ phase = "run" /\ handlesReady /\ simStep = 0
    BY DEF Protocol, WorkerShape
  <1>4. Outputs(simStep) = [at |-> 0, with |-> StartInputs]
    BY <1>3 DEF DataInTurn, Outputs
  <1>5. /\ answer.kind = "Ready" /\ answer.outputs = [at |-> 0, with |-> StartInputs]
    BY <1>4
  <1>6. Target' = Target /\ Advances' = Advances /\ StartInputs' = StartInputs
    BY DEF Target, Advances, StartInputs
  <1>. HIDE DEF answer
  <1>7. Over' = Over
    BY <1>2 DEF Over
  <1>8. \A k \in DOMAIN stdout' :
           /\ stdout'[k].kind = "Ready" => stdout'[k].outputs = [at |-> 0, with |-> StartInputs]
           /\ stdout'[k].kind = "StepComplete" =>
                 /\ stdout'[k].outputs = [at |-> Target \div ZoneStep, with |-> inputs]
                 /\ Advances
    BY <1>2, <1>5 DEF DataInTurn
  <1>. QED BY <1>2, <1>6, <1>7, <1>8 DEF DataInTurn

\* A step that is accepted starts with the inputs of the instance and moves time.
LEMMA AcceptData ==
    ASSUME TypeOK, Ownership, Protocol, DataInTurn, UNCHANGED hostVars, AcceptStep
    PROVE  DataInTurn'
  <1>. USE DEF At, hostVars, valueVars, runVars, AcceptStep, Take, ApplyInputs, Simulate
  <1>1. /\ proc = "alive" /\ pc = "receive" /\ stdin # <<>> /\ stdin' = <<>>
        /\ Head(stdin) = stdin[1] /\ UNCHANGED <<stdout, proc>> /\ ~Over
    BY ReadFacts DEF Protocol, WorkerShape, Over, TypeOK, PipesTypeOK
  <1>2. call \in {"writeStep", "awaitStep"}
    BY <1>1 DEF Protocol, CommandsInTurn
  <1>3. /\ stdin[1].point = request.point /\ stdin[1].size = request.size
        /\ workerTime = currentTime /\ stdin[1].inputs = inputs
    BY <1>1, <1>2 DEF Protocol, ClocksInTurn, DataInTurn
  <1>4. Target' = Target /\ Advances' = Advances /\ StartInputs' = StartInputs
    BY DEF Target, Advances, StartInputs
  <1>5. applied' = inputs /\ workerInputs' = inputs /\ remaining' = ZoneSteps(request.size)
    BY <1>1, <1>3 DEF StepInputs
  <1>6. /\ Aligned(request.size) /\ WithinStop(request.point, request.size, modelStop)
    <2>1. modelStop = workerStop
      BY <1>2 DEF Ownership, Protocol, ClocksInTurn
    <2>. QED BY <1>1, <1>3, <2>1 DEF StepAccepted
  <1>7. ZoneSteps(request.size) > 0 => Advances
    <2>1. request.size \in Sizes
      BY <1>2 DEF Ownership, StepRequests
    <2>2. ZoneSteps(request.size) \in Nat /\ currentTime \in Nat
      BY <1>6, <2>1, ZoneStepsType DEF TypeOK, HostTypeOK
    <2>3. ASSUME ZoneSteps(request.size) > 0
          PROVE  ZoneSteps(request.size) * ZoneStep > 0
      <3>1. 1 * ZoneStep <= ZoneSteps(request.size) * ZoneStep
        BY <2>2, <2>3, ProductMonotone, ZoneStepAssumption
      <3>. QED BY <2>2, <3>1, ZoneStepAssumption
    <2>. QED BY <1>6, <2>2, <2>3, ZoneStepAssumption DEF Advances, Target
  <1>8. \E length \in RunLengths : length > simStep
    BY <1>1 DEF DataInTurn
  <1>9. \A k \in DOMAIN stdout' :
           /\ stdout'[k].kind = "Ready" => stdout'[k].outputs = [at |-> 0, with |-> StartInputs]
           /\ stdout'[k].kind = "StepComplete" =>
                 /\ stdout'[k].outputs = [at |-> Target \div ZoneStep, with |-> inputs]
                 /\ Advances
    BY <1>1 DEF DataInTurn
  <1>10. readySent' /\ simStep' = simStep /\ pc' = "simulating"
    BY <1>1 DEF Protocol, WorkerShape
  <1>11. simStep > 0 => \E length \in RunLengths : length >= simStep
    BY DEF DataInTurn
  <1>. QED BY <1>1, <1>4, <1>5, <1>7, <1>8, <1>9, <1>10, <1>11 DEF DataInTurn

\* A step is answered with what was simulated at its end and with its inputs.
LEMMA CompleteData ==
    ASSUME TypeOK, Protocol, DataInTurn, UNCHANGED hostVars, SendStepComplete
    PROVE  DataInTurn'
  <1>. USE DEF At, hostVars, valueVars, contextVars, runVars, epVars, SendStepComplete,
               ReplyIgnoringErrors
  <1>1. proc = "alive" /\ pc = "sendComplete" /\ ~Over /\ pc' = "simulating" /\ remaining = 0
    BY DEF Protocol, WorkerShape, Over
  <1>2. Target' = Target /\ Advances' = Advances /\ StartInputs' = StartInputs
    BY DEF Target, Advances, StartInputs
  <1>. DEFINE Carried == \A k \in DOMAIN stdout' :
                 /\ stdout'[k].kind = "Ready" =>
                       stdout'[k].outputs = [at |-> 0, with |-> StartInputs]
                 /\ stdout'[k].kind = "StepComplete" =>
                       /\ stdout'[k].outputs = [at |-> Target \div ZoneStep, with |-> inputs]
                       /\ Advances
  <1>3. Carried /\ UNCHANGED <<stdin, proc>>
    <2>1. CASE ReplyFails
      BY <2>1 DEF ReplyFails, pipeVars, DataInTurn
    <2>2. ASSUME NEW answer \in Responses, Reply(answer), answer.kind = "StepComplete",
                 answer.outputs = Outputs(simStep)
          PROVE  Carried /\ UNCHANGED <<stdin, proc>>
      <3>1. /\ stdout'[Len(stdout')] = answer
            /\ \A k \in DOMAIN stdout' :
                  \/ k = Len(stdout')
                  \/ k \in DOMAIN stdout /\ stdout'[k] = stdout[k]
            /\ UNCHANGED <<stdin, proc, importer>>
        BY <2>2, MessageWritten DEF TypeOK
      <3>2. workerTime = Target /\ workerTime = ZoneStep * simStep /\ simStep \in Nat
        BY <1>1, ZoneStepAssumption
        DEF Protocol, ClocksInTurn, Synchronised, TypeOK, WorkerTypeOK, EnergyPlusTypeOK
      <3>3. Target \div ZoneStep = simStep
        BY <3>2, DivExact, ZoneStepAssumption
      <3>4. applied = inputs /\ Advances
        BY <1>1 DEF DataInTurn
      <3>5. Outputs(simStep) = [at |-> Target \div ZoneStep, with |-> inputs]
        BY <3>3, <3>4 DEF Outputs
      <3>6. answer.kind # "Ready"
        BY <2>2
      <3>. QED BY <2>2, <3>1, <3>4, <3>5, <3>6 DEF DataInTurn
    <2>3. /\ [kind |-> "StepComplete", time |-> workerTime, outputs |-> Outputs(simStep)]
                \in Responses
      BY ResponseTypes, OutputsType DEF TypeOK, WorkerTypeOK
    <2>. QED BY <2>1, <2>2, <2>3
  <1>. HIDE DEF Carried
  <1>4. Over' = Over
    BY <1>1, <1>3 DEF Over
  <1>. QED BY <1>1, <1>2, <1>3, <1>4 DEF DataInTurn, Carried

LEMMA NextData ==
    TypeOK /\ Ownership /\ Protocol /\ DataInTurn /\ [Next]_vars => DataInTurn'
  <1>. SUFFICES ASSUME TypeOK, Ownership, Protocol, DataInTurn, [Next]_vars
                PROVE  DataInTurn'
    OBVIOUS
  <1>1. Protocol'
    BY NextProtocol
  <1>2. CASE UNCHANGED vars
    BY <1>2 DEF vars, hostVars, valueVars, pipeVars, workerVars, contextVars, runVars,
                epVars, DataInTurn, Over, Target, Advances, StartInputs
  <1>3. CASE HostCalls
    BY <1>1, <1>3, HostCallsData
  <1>4. CASE HostReturns
    BY <1>1, <1>4, HostReturnsData
  <1>5. CASE WorkerRuns
    BY <1>5, QuietData, ReadyData, AcceptData, CompleteData DEF WorkerRuns, WorkerStep
  <1>6. CASE WorkerCrashes
    BY <1>6, QuietData DEF WorkerCrashes
  <1>7. CASE ImporterKilled
    <2>. USE <1>7 DEF ImporterKilled, hostVars, valueVars, workerVars, contextVars,
                      runVars, epVars
    <2>1. Target' = Target /\ Advances' = Advances /\ StartInputs' = StartInputs /\ Over' = Over
      BY DEF Target, Advances, StartInputs, Over
    <2>. QED BY <2>1 DEF DataInTurn
  <1>. QED BY <1>2, <1>3, <1>4, <1>5, <1>6, <1>7 DEF Next

\* What is in the pipes goes with the step in progress: a step runs with the
\* instance's inputs, and its answer was simulated with them.
THEOREM DataHolds == Spec => []DataInTurn
  <1>. QED BY InitData, NextData, TypeCorrect, OwnershipHolds, ProtocolHolds, PTL DEF Spec

-----------------------------------------------------------------------------
(* Every step is a step of the contract, or none.                          *)

\* Answered with the right data at the right time is what the contract asks of a
\* step.
LEMMA StepCompletesRefines ==
    ASSUME OrdinaryRun, TypeOK, Ownership, Protocol, DataInTurn, ReceiveStepComplete
    PROVE  Contract!StepCompletes
  <1>. USE DEF ReceiveStepComplete, Receives, Busy, Return
  <1>1. /\ importer = "alive" /\ call = "awaitStep" /\ state = "Running"
        /\ request.point \in Points /\ request.size \in Sizes
        /\ Acceptable(request.point, request.size)
        /\ 1 \in DOMAIN stdout /\ Head(stdout) = stdout[1]
    BY ReadFacts DEF Ownership, StepRequests, Protocol, ExperimentShape, TypeOK, PipesTypeOK
  <1>2. /\ currentTime' = Target /\ workerTime = Target /\ Advances
        /\ outputs' = [at |-> Target \div ZoneStep, with |-> inputs]
    BY <1>1 DEF Protocol, AnswersInTurn, DataInTurn
  <1>3. workerTime = ZoneStep * simStep /\ simStep \in Nat
    <2>1. readySent /\ ~stopFlag
      BY <1>1 DEF Protocol, ClocksInTurn
    <2>. QED BY <1>1, <2>1
             DEF Protocol, ClocksInTurn, Synchronised, TypeOK, WorkerTypeOK, EnergyPlusTypeOK
  <1>. DEFINE n == ZoneSteps(request.size)
  <1>4. n \in Nat /\ currentTime \in Nat /\ Target = currentTime + n * ZoneStep
    BY <1>1, ZoneStepsType DEF Acceptable, Target, TypeOK, HostTypeOK
  <1>5. /\ Target > currentTime /\ WithinStop(request.point, request.size, modelStop)
        /\ modelStop \in StopTimes /\ modelStop \in Nat
    BY <1>2, ZoneStepAssumption DEF Advances, TypeOK, HostTypeOK
  <1>6. request.size # NaN
    <2>1. CASE request.size = NaN
      <3>1. n = 0
        BY <2>1, SpecialFloats DEF ZoneSteps
      <3>. QED BY <1>4, <1>5, <3>1, ZoneStepAssumption
    <2>. QED BY <2>1
  <1>7. request.size # Infinity
    <2>. SUFFICES ASSUME request.size = Infinity PROVE FALSE
      OBVIOUS
    <2>1. n = ManySteps
      BY SpecialFloats DEF ZoneSteps
    <2>2. ManySteps * ZoneStep <= ZoneStep * simStep /\ ManySteps \in Nat
      <3>1. ZoneStep * simStep = currentTime + ManySteps * ZoneStep
        BY <1>2, <1>3, <1>4, <2>1
      <3>2. ManySteps * ZoneStep \in Nat /\ ManySteps \in Nat
        BY SpecialFloats, ZoneStepAssumption
      <3>3. \A a, b, c \in Nat : a = b + c => c <= a
        OBVIOUS
      <3>4. ZoneStep * simStep \in Nat
        BY <1>3, ZoneStepAssumption
      <3>. QED BY <1>4, <3>1, <3>2, <3>3, <3>4
    <2>3. simStep >= ManySteps
      <3>1. CASE simStep + 1 <= ManySteps
        <4>1. (simStep + 1) * ZoneStep <= ManySteps * ZoneStep
          BY <1>3, <2>2, <3>1, ProductMonotone, ZoneStepAssumption
        <4>. QED BY <1>3, <2>2, <4>1, ZoneStepAssumption
      <3>. QED BY <1>3, <2>2, <3>1
    <2>4. simStep > 0
      <3>1. ManySteps # 0
        BY SpecialFloats, ZoneStepAssumption
      <3>. QED BY <1>3, <2>2, <2>3, <3>1
    <2>5. PICK length \in RunLengths : length >= simStep
      BY <2>4 DEF DataInTurn
    <2>6. length < ManySteps /\ length \in Nat
      BY EnergyPlusAssumption DEF OrdinaryRun
    <2>. QED BY <1>3, <2>2, <2>3, <2>5, <2>6
  <1>8. request.size \in Int /\ request.point \in Int
    BY <1>1, <1>6, <1>7, PipesAssumption DEF OrdinaryRun
  <1>9. /\ AtPoint(request.point, request.size, currentTime) /\ Aligned(request.size)
        /\ WithinStop(request.point, request.size, EffectiveStop)
    BY <1>1 DEF Acceptable
  <1>10. Target <= modelStop
    <2>1. Target < modelStop + ZoneStep
      BY <1>4, <1>5, <1>8, <1>9, StepEndsInTime, ZoneStepAssumption
    <2>2. Target = simStep * ZoneStep
      BY <1>2, <1>3, ZoneStepAssumption
    <2>. QED BY <1>3, <1>5, <2>1, <2>2, WholeStepsWithinPeriod
  <1>11. experimentStop \notin {None, NaN} => Target < experimentStop + ZoneStep
    <2>. SUFFICES ASSUME experimentStop \notin {None, NaN}
                  PROVE  Target < experimentStop + ZoneStep
      OBVIOUS
    <2>1. experimentStop \in Int /\ EffectiveStop = experimentStop
      BY StopsAssumption DEF TypeOK, HostTypeOK, EffectiveStop
    <2>2. PICK end \in StopTimes : experimentStop <= end
      BY <1>1, <2>1, ZoneStepAssumption
      DEF Protocol, ExperimentShape, Attainable, BeyondRunPeriod
    <2>. QED BY <1>4, <1>8, <1>9, <2>1, <2>2, StepEndsInTime
  <1>12. n \in 1..(modelStop \div ZoneStep)
    <2>1. n * ZoneStep \in Nat
      BY <1>4, ZoneStepAssumption
    <2>2. n <= modelStop \div ZoneStep
      <3>1. n * ZoneStep <= modelStop
        BY <1>4, <1>5, <1>10, <2>1
      <3>. QED BY <1>4, <1>5, <3>1, StepsFit
    <2>3. n # 0
      BY <1>4, <1>5, ZoneStepAssumption
    <2>4. modelStop \div ZoneStep \in Int
      <3>1. ASSUME NEW a \in Nat, NEW b \in Nat \ {0} PROVE a \div b \in Int
        OBVIOUS
      <3>. QED BY <1>5, <3>1, ZoneStepAssumption
    <2>. QED BY <1>4, <2>2, <2>3, <2>4
  <1>. HIDE DEF n
  <1>13. UNCHANGED <<state, modelStop, experimentStop, inputs>>
    OBVIOUS
  <1>14. /\ currentTime' = currentTime + n * ZoneStep
         /\ outputs' = [at |-> currentTime' \div ZoneStep, with |-> inputs]
    BY <1>2, <1>4
  <1>. QED BY <1>1, <1>2, <1>10, <1>11, <1>12, <1>13, <1>14 DEF Contract!StepCompletes

\* What fmi2Terminate, fmi2Reset and fmi2FreeInstance do to the instance.
LEMMA FinishRefines ==
    ASSUME TypeOK, state # "Null", NEW function \in Callers, Finish(function)
    PROVE  Contract!Next
  BY DEF Finish, Fail, ResetValues, ResetStop, StartInputs, valueVars, TypeOK, HostTypeOK,
         InputVectors, Contract!Next, Contract!Terminate, Contract!Reset, Contract!Free,
         Contract!Fail, Contract!Defaults, Contract!StartInputs

LEMMA HostCallsRefine ==
    ASSUME TypeOK, Ownership, HostCalls
    PROVE  [Contract!Next]_(Contract!vars)
  <1>. USE DEF Callable, Fail, PerhapsFail, valueVars, Contract!Next, Contract!vars,
               TypeOK, HostTypeOK, InputVectors
  <1>1. CASE ExitInitializationMode \/ DoStep \/ StopWorker
    BY <1>1 DEF ExitInitializationMode, SpawnWorker, DoStep, StopWorker
  <1>2. CASE Instantiate
    BY <1>2 DEF Instantiate, ResetValues, ResetStop, StartInputs, Contract!Instantiate,
                Contract!Defaults, Contract!StartInputs
  <1>3. CASE SetupExperiment
    BY <1>3 DEF SetupExperiment, BeyondRunPeriod, Contract!SetupExperiment, Contract!Fail
  <1>4. CASE EnterInitializationMode
    BY <1>4 DEF EnterInitializationMode, Contract!EnterInitialization, Contract!Fail
  <1>5. CASE SetReal
    <2>1. inputs' \in [Inputs -> Values]
      BY <1>5 DEF SetReal
    <2>. QED BY <1>5, <2>1 DEF SetReal, Contract!SetInputs, Contract!Fail
  <1>6. CASE SetBoolean \/ SetString
    BY <1>6 DEF SetBoolean, SetString, Contract!Fail
  <1>7. CASE RejectArgument \/ ExitInitializationWrongly \/ SpawnFails \/ RefuseStep
    BY <1>7 DEF RejectArgument, ExitInitializationWrongly, SpawnFails, RefuseStep, CallFails,
                Contract!Fail
  <1>8. CASE FinishWithoutWorker
    BY <1>8, FinishRefines DEF FinishWithoutWorker
  <1>. QED BY <1>1, <1>2, <1>3, <1>4, <1>5, <1>6, <1>7, <1>8 DEF HostCalls, ImporterCalls

LEMMA HostReturnsRefine ==
    ASSUME OrdinaryRun, TypeOK, Ownership, Protocol, DataInTurn, HostReturns
    PROVE  [Contract!Next]_(Contract!vars)
  <1>. USE DEF Busy, Return, Continue, Fail, valueVars, Contract!vars
  <1>0. call # "idle" => state # "Null"
    BY DEF Ownership
  <1>1. inputs \in [Inputs -> Values]
    BY DEF TypeOK, HostTypeOK, InputVectors
  <1>2. CASE WaitForWorker
    BY <1>0, <1>2, FinishRefines DEF WaitForWorker, Reap, TypeOK, HostTypeOK
  <1>3. CASE ReceiveReady
    <2>1. 1 \in DOMAIN stdout /\ Head(stdout) = stdout[1] /\ stdout[1].kind = "Ready"
      BY <1>3, ReadFacts DEF ReceiveReady, Receives, TypeOK, PipesTypeOK
    <2>2. Head(stdout).outputs = [at |-> 0, with |-> StartInputs]
      BY <2>1 DEF DataInTurn
    <2>3. state = "Initialization"
      BY <1>3 DEF ReceiveReady, Ownership
    <2>4. Head(stdout).stop \in StopTimes
      BY <2>1, HeadResponse, AnswerTypes DEF TypeOK
    <2>. QED BY <1>1, <1>3, <2>2, <2>3, <2>4
             DEF ReceiveReady, StartInputs, Contract!Next, Contract!Initialized,
                 Contract!StartInputs, Contract!Fail
  <1>4. CASE ReceiveStepComplete
    BY <1>4, StepCompletesRefines DEF Contract!Next
  <1>5. CASE StepDiscarded
    BY <1>0, <1>5 DEF StepDiscarded, Contract!Next, Contract!Terminate
  <1>6. CASE SendInitialize \/ SendStep \/ FinishWrite \/ InitializationFails \/ StepFails
    BY <1>0, <1>1, <1>6
    DEF SendInitialize, SendStep, FinishWrite, InitializationFails, StepFails, Contract!Next,
        Contract!Fail
  <1>7. CASE SkipLog \/ SendShutdown \/ Drain \/ DrainAtEnd
    BY <1>7 DEF SkipLog, SendShutdown, Drain, DrainAtEnd, hostVars
  <1>. QED BY <1>2, <1>3, <1>4, <1>5, <1>6, <1>7 DEF HostReturns, HostProceeds

\* The two processes together behave as the instance the README promises: a step
\* that succeeds moves time by whole zone steps within the stop time and the
\* RunPeriod of the configuration the worker has loaded, and returns what
\* EnergyPlus computed at that very time with the inputs of that very step;
\* whatever fails or dies, and whatever configuration the instance is given in
\* between, nothing computed is changed behind the importer's back.
THEOREM Refinement == OrdinaryRun => (Spec => ImplementsContract)
  <1>. SUFFICES ASSUME OrdinaryRun PROVE Spec => ImplementsContract
    OBVIOUS
  <1>1. Init => Contract!Init
    BY DEF Init, HostInit, StartInputs, Contract!Init, Contract!StartInputs
  <1>2. TypeOK /\ Ownership /\ Protocol /\ DataInTurn /\ [Next]_vars
          => [Contract!Next]_(Contract!vars)
    <2>. SUFFICES ASSUME TypeOK, Ownership, Protocol, DataInTurn, [Next]_vars
                  PROVE  [Contract!Next]_(Contract!vars)
      OBVIOUS
    <2>1. CASE UNCHANGED hostVars
      BY <2>1 DEF hostVars, valueVars, Contract!vars
    <2>2. CASE HostCalls
      BY <2>2, HostCallsRefine
    <2>3. CASE HostReturns
      BY <2>3, HostReturnsRefine
    <2>. QED BY <2>1, <2>2, <2>3 DEF Next, WorkerRuns, WorkerCrashes, ImporterKilled, vars
  <1>. QED BY <1>1, <1>2, TypeCorrect, OwnershipHolds, ProtocolHolds, DataHolds, PTL
           DEF Spec, ImplementsContract, Contract!Spec
=============================================================================
