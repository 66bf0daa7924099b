---------------------------- MODULE ProtocolProofs ----------------------------
(***************************************************************************)
(* The protocol between the instance and its worker, for every value of    *)
(* the constants.  The inductive invariant is TypeOK /\ Ownership, proved  *)
(* in BridgeProofs, with Protocol: for each place the two processes may be *)
(* in, what the pipes hold and what the worker has counted.                *)
(***************************************************************************)
EXTENDS BridgeProofs

-----------------------------------------------------------------------------
(* Sequences: reading the oldest message, and writing one.                 *)

LEMMA ReadFacts ==
    ASSUME NEW S, NEW s \in Seq(S), s # <<>>
    PROVE  /\ Len(s) \in Nat \ {0} /\ 1 \in DOMAIN s /\ Head(s) = s[1]
           /\ Len(Tail(s)) = Len(s) - 1
           /\ \A k \in DOMAIN Tail(s) :
                 k \in Nat \ {0} /\ k + 1 \in DOMAIN s /\ Tail(s)[k] = s[k + 1]
           /\ Len(s) = 1 => Tail(s) = <<>>
  <1>1. /\ Len(s) \in Nat \ {0} /\ 1 \in DOMAIN s /\ Head(s) = s[1]
        /\ Len(Tail(s)) = Len(s) - 1
    OBVIOUS
  <1>2. \A k \in DOMAIN Tail(s) :
           k \in Nat \ {0} /\ k + 1 \in DOMAIN s /\ Tail(s)[k] = s[k + 1]
    OBVIOUS
  <1>3. Len(s) = 1 => Tail(s) = <<>>
    <2>1. Tail(s) \in Seq(S)
      OBVIOUS
    <2>2. \A t \in Seq(S) : Len(t) = 0 => t = <<>>
      OBVIOUS
    <2>3. Len(s) = 1 => Len(Tail(s)) = 0
      BY <1>1
    <2>. QED BY <2>1, <2>2, <2>3, Zenon
  <1>. QED BY <1>1, <1>2, <1>3

LEMMA WriteFacts ==
    ASSUME NEW S, NEW s \in Seq(S), NEW e \in S
    PROVE  /\ Len(s) \in Nat /\ Len(Append(s, e)) = Len(s) + 1
           /\ DOMAIN s = 1..Len(s)
           /\ \A k \in DOMAIN Append(s, e) : k \in DOMAIN s \/ k = Len(s) + 1
           /\ \A k \in DOMAIN s : k # Len(s) + 1 /\ Append(s, e)[k] = s[k]
           /\ Append(s, e)[Len(s) + 1] = e
           /\ Append(s, e) # <<>>
           /\ s = <<>> => Append(s, e) = <<e>> /\ Append(s, e)[1] = e
  <1>1. Len(s) \in Nat /\ Len(Append(s, e)) = Len(s) + 1 /\ DOMAIN s = 1..Len(s)
    OBVIOUS
  <1>2. \A k \in DOMAIN s : k # Len(s) + 1 /\ Append(s, e)[k] = s[k]
    OBVIOUS
  <1>3. Append(s, e)[Len(s) + 1] = e /\ DOMAIN Append(s, e) = 1..(Len(s) + 1)
    OBVIOUS
  <1>4. \A k \in DOMAIN Append(s, e) : k \in DOMAIN s \/ k = Len(s) + 1
    BY <1>1, <1>3
  <1>5. Append(s, e) # <<>>
    BY <1>1
  <1>6. ASSUME s = <<>> PROVE Append(s, e) = <<e>> /\ Append(s, e)[1] = e
    <2>1. Len(s) = 0
      BY <1>6
    <2>. QED BY <1>3, <1>6, <2>1
  <1>. QED BY <1>1, <1>2, <1>3, <1>4, <1>5, <1>6

\* No answer is waiting in the pipe.
NoAnswer == \A k \in DOMAIN stdout : ~Answer(k)

\* A farewell is the worker's last message.
FarewellLast ==
    \A k \in DOMAIN stdout : stdout[k].kind = "Terminated" =>
        k = Len(stdout) /\ pc \in {"exiting", "crashed"}

\* A pipe without answers is in turn.
LEMMA NoAnswerInTurn ==
    ASSUME NoAnswer', FarewellLast',
           call' = "wait" => stdout' = <<>> /\ (proc' = "alive" => pc' = "exiting")
    PROVE  AnswersInTurn'
  <1>1. \A k \in DOMAIN stdout' : stdout'[k].kind \notin {"Ready", "StepComplete"}
    BY DEF NoAnswer, Answer
  <1>. QED BY <1>1 DEF NoAnswer, FarewellLast, AnswersInTurn

-----------------------------------------------------------------------------
\* An importer that defines no stop time asks for nothing out of reach, and one
\* that is not refused asks for what the configuration it is checked against has.
LEMMA AttainableStops ==
    /\ Attainable(None)
    /\ \A end \in StopTimes, stop \in Stops \cup {None} :
          ~BeyondRunPeriod(stop, end) => Attainable(stop)
  BY ZoneStepAssumption DEF Attainable, BeyondRunPeriod

\* Nothing has started.
LEMMA InitProtocol == Init => Protocol
  <1>. SUFFICES ASSUME Init PROVE Protocol
    OBVIOUS
  <1>. USE DEF Init, HostInit, PipesInit, WorkerInit, EnergyPlusInit
  <1>1. WorkerShape /\ DirectoryShape /\ ExperimentShape
    BY AttainableStops DEF WorkerShape, DirectoryShape, NeverSimulated, ExperimentShape
  <1>2. AnswersInTurn
    BY DEF AnswersInTurn
  <1>3. CommandsInTurn
    BY DEF CommandsInTurn, Over
  <1>4. ClocksInTurn
    BY DEF ClocksInTurn, Over
  <1>. QED BY <1>1, <1>2, <1>3, <1>4 DEF Protocol

-----------------------------------------------------------------------------
(* Calls that exchange nothing with the worker.                            *)

LEMMA WorkerShapeKept ==
    ASSUME WorkerShape, DirectoryShape, UNCHANGED workerVars, UNCHANGED proc
    PROVE  WorkerShape' /\ DirectoryShape'
  BY DEF WorkerShape, DirectoryShape, NeverSimulated, workerVars, contextVars, runVars, epVars

\* A call between two others touches neither the pipes nor a running clock.
LEMMA QuietCall ==
    ASSUME TypeOK, Ownership, Protocol,
           call = "idle", NoExchange, UNCHANGED workerVars,
           state' = "Running" => state = "Running" /\ UNCHANGED <<modelStop, currentTime>>,
           ExperimentShape'
    PROVE  Protocol'
  <1>. USE DEF Protocol, NoExchange, pipeVars, workerVars, contextVars, runVars, epVars
  <1>1. WorkerShape' /\ DirectoryShape'
    BY WorkerShapeKept
  <1>2. AnswersInTurn'
    <2>1. NoAnswer
      BY DEF AnswersInTurn, NoAnswer
    <2>2. NoAnswer' /\ FarewellLast'
      BY <2>1 DEF NoAnswer, FarewellLast, Answer, AnswersInTurn
    <2>. QED BY <2>2, NoAnswerInTurn DEF AnswersInTurn
  <1>3. CommandsInTurn'
    BY DEF CommandsInTurn, Over
  <1>4. ClocksInTurn'
    BY DEF ClocksInTurn, Over, Synchronised, CommandsInTurn, AnswersInTurn, Answer
  <1>. QED BY <1>1, <1>2, <1>3, <1>4

\* fmi2Terminate, fmi2Reset and fmi2FreeInstance leave no experiment to run.
LEMMA FinishExperiment ==
    ASSUME TypeOK, ExperimentShape, NEW f \in Callers, Finish(f)
    PROVE  /\ state' # "Running"
           /\ state' \in {"Instantiated", "Initialization"} =>
                 currentTime' = 0 /\ experimentStop' = None
  BY DEF Finish, ResetValues, ResetStop, Fail

LEMMA ImporterCallsProtocol ==
    ASSUME TypeOK, Ownership, Protocol, TypeOK', Ownership',
           ImporterCalls, UNCHANGED workerVars
    PROVE  Protocol'
  <1>. USE DEF Protocol, Callable, valueVars, parameterVars, Fail, PerhapsFail
  <1>1. CASE Instantiate
    <2>1. ExperimentShape' /\ call = "idle"
      BY <1>1, AttainableStops
      DEF Instantiate, ResetValues, ResetStop, NoExchange, ExperimentShape, Ownership
    <2>. QED BY <1>1, <2>1, QuietCall DEF Instantiate
  <1>2. CASE SetupExperiment
    <2>1. ExperimentShape'
      <3>1. modelStop \in StopTimes
        BY DEF TypeOK, HostTypeOK
      <3>. QED BY <1>2, <3>1, AttainableStops
               DEF SetupExperiment, NoExchange, ExperimentShape
    <2>. QED BY <1>2, <2>1, QuietCall DEF SetupExperiment
  <1>3. CASE EnterInitializationMode
    <2>1. ExperimentShape'
      BY <1>3 DEF EnterInitializationMode, NoExchange, ExperimentShape
    <2>. QED BY <1>3, <2>1, QuietCall DEF EnterInitializationMode
  <1>4. CASE SetReal
    <2>1. ExperimentShape'
      BY <1>4 DEF SetReal, NoExchange, ExperimentShape
    <2>. QED BY <1>4, <2>1, QuietCall DEF SetReal
  <1>5. CASE SetBoolean \/ SetString
    <2>1. ExperimentShape'
      BY <1>5 DEF SetBoolean, SetString, NoExchange, ExperimentShape
    <2>. QED BY <1>5, <2>1, QuietCall DEF SetBoolean, SetString
  <1>6. CASE CallFails
    <2>1. ExperimentShape'
      BY <1>6 DEF CallFails, NoExchange, ExperimentShape
    <2>. QED BY <1>6, <2>1, QuietCall DEF CallFails
  <1>7. CASE DoStep
    <2>. USE <1>7 DEF DoStep, pipeVars, workerVars, contextVars, runVars, epVars
    <2>1. ExperimentShape'
      <3>1. Acceptable(request.point, request.size)'
        BY DEF Acceptable, EffectiveStop
      <3>. QED BY <3>1 DEF ExperimentShape
    <2>2. WorkerShape' /\ DirectoryShape'
      BY WorkerShapeKept
    <2>3. AnswersInTurn'
      <3>1. NoAnswer' /\ FarewellLast'
        BY DEF NoAnswer, FarewellLast, Answer, AnswersInTurn
      <3>. QED BY <3>1, NoAnswerInTurn
    <2>4. CommandsInTurn'
      BY DEF CommandsInTurn, Over
    <2>5. ClocksInTurn'
      BY DEF ClocksInTurn, Over, Synchronised, CommandsInTurn, AnswersInTurn, Answer
    <2>. QED BY <2>1, <2>2, <2>3, <2>4, <2>5
  <1>8. CASE FinishWithoutWorker
    <2>1. PICK f \in Callers : Finish(f)
      BY <1>8 DEF FinishWithoutWorker
    <2>2. ExperimentShape'
      BY <1>8, <2>1, FinishExperiment, AttainableStops
      DEF FinishWithoutWorker, NoExchange, ExperimentShape
    <2>. QED BY <1>8, <2>1, <2>2, FinishExperiment, QuietCall DEF FinishWithoutWorker
  <1>9. CASE StopWorker
    <2>. USE <1>9 DEF StopWorker, pipeVars, workerVars, contextVars, runVars, epVars
    <2>1. ExperimentShape'
      BY DEF ExperimentShape
    <2>2. WorkerShape' /\ DirectoryShape'
      BY WorkerShapeKept
    <2>3. AnswersInTurn'
      <3>1. NoAnswer' /\ FarewellLast'
        BY DEF NoAnswer, FarewellLast, Answer, AnswersInTurn
      <3>. QED BY <3>1, NoAnswerInTurn
    <2>4. CommandsInTurn'
      BY DEF CommandsInTurn, Over
    <2>5. ClocksInTurn'
      BY DEF ClocksInTurn, Over, Synchronised, CommandsInTurn, AnswersInTurn, Answer
    <2>. QED BY <2>1, <2>2, <2>3, <2>4, <2>5
  <1>. QED BY <1>1, <1>2, <1>3, <1>4, <1>5, <1>6, <1>7, <1>8, <1>9
           DEF ImporterCalls, RejectArgument, ExitInitializationWrongly, SpawnFails,
               RefuseStep

\* A new process, and one that has been reaped, start from the beginning.
LEMMA FreshWorker ==
    ASSUME WorkerFresh, stdin' = <<>>, stdout' = <<>>
    PROVE  /\ proc' \in {"none", "alive"} => WorkerShape' /\ DirectoryShape'
           /\ call' # "wait" => AnswersInTurn'
  BY DEF WorkerFresh, WorkerShape, DirectoryShape, NeverSimulated, AnswersInTurn

LEMMA SpawnProtocol ==
    ASSUME TypeOK, Ownership, Protocol, ExitInitializationMode
    PROVE  Protocol'
  <1>. USE DEF Protocol, ExitInitializationMode, SpawnWorker, valueVars, parameterVars
  <1>1. WorkerShape' /\ DirectoryShape' /\ AnswersInTurn'
    BY FreshWorker
  <1>2. ExperimentShape'
    BY DEF ExperimentShape
  <1>3. CommandsInTurn'
    BY DEF CommandsInTurn, Over, WorkerFresh
  <1>4. ClocksInTurn'
    BY DEF ClocksInTurn, Over, WorkerFresh
  <1>. QED BY <1>1, <1>2, <1>3, <1>4

LEMMA ReapProtocol ==
    ASSUME TypeOK, Ownership, Protocol, WaitForWorker
    PROVE  Protocol'
  <1>. USE DEF Protocol, WaitForWorker, Reap
  <1>1. caller \in Callers /\ Finish(caller)
    BY DEF TypeOK, HostTypeOK
  <1>2. WorkerShape' /\ DirectoryShape' /\ AnswersInTurn'
    BY FreshWorker
  <1>3. ExperimentShape'
    BY <1>1, FinishExperiment, AttainableStops DEF ExperimentShape
  <1>4. CommandsInTurn'
    BY DEF CommandsInTurn, Over, WorkerFresh
  <1>5. ClocksInTurn'
    BY <1>1, FinishExperiment DEF ClocksInTurn, Over, WorkerFresh
  <1>. QED BY <1>2, <1>3, <1>4, <1>5

-----------------------------------------------------------------------------
(* Steps of a call in progress.                                            *)

\* What the host learns from the oldest message, and what stays in the pipe.
LEMMA MessageRead ==
    ASSUME PipesTypeOK, AnswersInTurn, stdout # <<>>, Read(Head(stdout)), pc' = pc
    PROVE  /\ FarewellLast'
           /\ Answer(1) => NoAnswer'
           /\ NoAnswer => NoAnswer'
           /\ Head(stdout) = stdout[1] /\ 1 \in DOMAIN stdout
           /\ Head(stdout).kind = "Terminated" \/ (Head(stdout).kind = "Error" /\ ~Answer(1)) =>
                 stdout' = <<>> /\ pc \in {"exiting", "crashed"}
           /\ \A k \in DOMAIN stdout' :
                 /\ k + 1 \in DOMAIN stdout /\ k \in Nat \ {0}
                 /\ stdout'[k] = stdout[k + 1]
                 /\ Answer(k)' <=> Answer(k + 1)
  <1>1. /\ Len(stdout) \in Nat \ {0} /\ 1 \in DOMAIN stdout /\ Head(stdout) = stdout[1]
        /\ Len(stdout') = Len(stdout) - 1
        /\ \A k \in DOMAIN stdout' :
              k \in Nat \ {0} /\ k + 1 \in DOMAIN stdout /\ stdout'[k] = stdout[k + 1]
        /\ Len(stdout) = 1 => stdout' = <<>>
    BY ReadFacts DEF Read, PipesTypeOK
  <1>2. ASSUME NEW k \in DOMAIN stdout' PROVE Answer(k)' <=> Answer(k + 1)
    BY <1>1 DEF Answer
  <1>3. FarewellLast'
    BY <1>1 DEF FarewellLast, AnswersInTurn
  <1>4. Answer(1) => NoAnswer'
    BY <1>1, <1>2 DEF NoAnswer, AnswersInTurn
  <1>5. NoAnswer => NoAnswer'
    BY <1>1, <1>2 DEF NoAnswer
  <1>6. ASSUME Head(stdout).kind = "Terminated" \/ (Head(stdout).kind = "Error" /\ ~Answer(1))
        PROVE  stdout' = <<>> /\ pc \in {"exiting", "crashed"}
    BY <1>1, <1>6 DEF Answer, AnswersInTurn
  <1>. QED BY <1>1, <1>2, <1>3, <1>4, <1>5, <1>6

\* A call that does not leave the instance running may end once the worker has
\* answered it, or has nothing left to do.
LEMMA CallEnds ==
    ASSUME TypeOK, Protocol, UNCHANGED workerVars, UNCHANGED <<stdin, proc, importer>>,
           call' = "idle", state' \in {"Error", "Terminated"}, NoAnswer', FarewellLast',
           \/ Over
           \/ readySent /\ stdin = <<>> /\ remaining = 0 /\ pc \notin {"reject", "sendComplete"},
           pc # "handleError", proc = "alive" => pc # "boot"
    PROVE  Protocol'
  <1>. USE DEF Protocol, workerVars, contextVars, runVars, epVars
  <1>1. WorkerShape' /\ DirectoryShape'
    BY WorkerShapeKept
  <1>2. AnswersInTurn'
    BY NoAnswerInTurn
  <1>3. ExperimentShape'
    BY DEF ExperimentShape
  <1>4. CommandsInTurn'
    BY DEF CommandsInTurn, Over
  <1>5. ClocksInTurn'
    <2>1. \A k \in DOMAIN stdout' : stdout'[k].kind \notin {"Ready", "StepComplete"}
      BY DEF NoAnswer, Answer
    <2>. QED BY <2>1 DEF ClocksInTurn, Over
  <1>. QED BY <1>1, <1>2, <1>3, <1>4, <1>5

\* A call that fails because the worker is gone.
LEMMA CallFailsAtExit ==
    ASSUME TypeOK, Protocol, UNCHANGED workerVars, UNCHANGED pipeVars, proc = "exited",
           call' = "idle", state' \in {"Error", "Terminated"},
           stdout = <<>> \/ call \in {"sendInitialize", "sendStep"} \/ stdin # <<>>
    PROVE  Protocol'
  <1>. USE DEF Protocol, pipeVars
  <1>1. NoAnswer
    BY DEF NoAnswer, AnswersInTurn, PipesTypeOK, TypeOK
  <1>2. NoAnswer' /\ FarewellLast'
    BY <1>1 DEF NoAnswer, FarewellLast, Answer, AnswersInTurn, workerVars
  <1>3. pc \in {"exiting", "crashed"} /\ Over
    BY DEF WorkerShape, Over
  <1>. QED BY <1>2, <1>3, CallEnds

\* A call that fails because of what the worker wrote.
LEMMA CallFailsOnMessage ==
    ASSUME TypeOK, Protocol, UNCHANGED workerVars,
           call \in {"awaitReady", "awaitStep"}, stdout # <<>>, Read(Head(stdout)),
           Head(stdout).kind # "Log",
           call' = "idle", state' \in {"Error", "Terminated"}
    PROVE  Protocol'
  <1>. USE DEF Protocol
  <1>1. NoAnswer' /\ FarewellLast' /\ Head(stdout) = stdout[1] /\ 1 \in DOMAIN stdout
    <2>1. PipesTypeOK /\ pc' = pc
      BY DEF TypeOK, workerVars
    <2>2. Head(stdout) \in Responses
      BY <2>1, HeadResponse
    <2>3. Head(stdout).kind \in {"Log", "Ready", "StepComplete", "Terminated", "Error"}
      BY <2>2 DEF Responses
    <2>4. FarewellLast' /\ Head(stdout) = stdout[1] /\ 1 \in DOMAIN stdout
      BY <2>1, MessageRead
    <2>5. CASE Answer(1)
      BY <2>1, <2>4, <2>5, MessageRead
    <2>6. CASE ~Answer(1)
      <3>1. stdout' = <<>>
        BY <2>1, <2>3, <2>4, <2>6, MessageRead DEF Answer
      <3>. QED BY <2>4, <3>1 DEF NoAnswer
    <2>. QED BY <2>4, <2>5, <2>6
  <1>2. UNCHANGED <<stdin, proc, importer>>
    BY DEF Read
  <1>3. CASE Answer(1)
    <2>1. /\ stdin = <<>> /\ remaining = 0
          /\ pc \notin {"boot", "handleError", "sendReady", "reject", "sendComplete"}
      BY <1>1, <1>3 DEF AnswersInTurn
    <2>2. readySent \/ Over
      BY <1>1, <1>3 DEF AnswersInTurn, CommandsInTurn, Answer
    <2>. QED BY <1>1, <1>2, <2>1, <2>2, CallEnds
  <1>4. CASE ~Answer(1)
    <2>1. pc \in {"exiting", "crashed"}
      <3>1. PipesTypeOK /\ pc' = pc
        BY DEF TypeOK, workerVars
      <3>2. Head(stdout) \in Responses
        BY <3>1, HeadResponse
      <3>3. Head(stdout).kind \in {"Log", "Ready", "StepComplete", "Terminated", "Error"}
        BY <3>2 DEF Responses
      <3>. QED BY <1>1, <1>4, <3>1, <3>3, MessageRead DEF Answer
    <2>2. Over
      BY <2>1 DEF Over, WorkerShape
    <2>. QED BY <1>1, <1>2, <2>1, <2>2, CallEnds
  <1>. QED BY <1>3, <1>4

\* A call that goes on reading or writing leaves the instance as it is.
LEMMA CallGoesOn ==
    ASSUME ExperimentShape, NEW where, Continue(where),
           where \in {"sendStep", "writeStep", "awaitStep"} =>
              call \in {"sendStep", "writeStep", "awaitStep"}
    PROVE  ExperimentShape'
  BY DEF ExperimentShape, Continue, valueVars, parameterVars, Acceptable, EffectiveStop

LEMMA HostProceedsProtocol ==
    ASSUME TypeOK, Ownership, Protocol, TypeOK', Ownership',
           HostProceeds, UNCHANGED workerVars
    PROVE  Protocol'
  <1>. USE DEF Protocol, Return, valueVars, parameterVars, workerVars, contextVars,
               runVars, epVars
  <1>. PipesTypeOK /\ PipesTypeOK'
    BY DEF TypeOK
  <1>1. CASE SendInitialize
    <2>1. CASE WriteFails
      <3>1. CASE call' = "idle"
        BY <1>1, <2>1, <3>1, CallFailsAtExit DEF SendInitialize, Busy, WriteFails, Fail, Write
      <3>2. CASE call' # "idle"
        BY <1>1, <2>1, <3>2 DEF SendInitialize, WriteFails, Write
      <3>. QED BY <3>1, <3>2
    <2>2. CASE ~WriteFails
      <3>. DEFINE command == [kind |-> "Initialize", directory |-> outputDirectory,
                              keep |-> keepOutputs]
      <3>1. /\ Busy("sendInitialize") /\ proc = "alive" /\ stdin' = Append(stdin, command)
            /\ UNCHANGED <<stdout, proc, importer>> /\ Continue("awaitReady")
        BY <1>1, <2>2 DEF SendInitialize, Write
      <3>2. stdin = <<>> /\ stdout = <<>> /\ pc = "boot"
        BY <3>1 DEF CommandsInTurn, Busy, WorkerShape
      <3>3. stdin' = <<command>> /\ stdin'[1] = command /\ Len(stdin') = 1
        BY <3>1, <3>2
      <3>4. WorkerShape' /\ DirectoryShape'
        BY <3>1, WorkerShapeKept
      <3>5. ExperimentShape'
        BY <3>1, CallGoesOn
      <3>6. AnswersInTurn'
        BY <3>1, <3>2 DEF AnswersInTurn, Continue
      <3>7. CommandsInTurn'
        BY <3>1, <3>2, <3>3 DEF CommandsInTurn, Continue, Over, WorkerShape
      <3>8. ClocksInTurn'
        BY <3>1, <3>2, <3>3 DEF ClocksInTurn, Continue, Over, WorkerShape, Busy, Ownership
      <3>. QED BY <3>4, <3>5, <3>6, <3>7, <3>8
    <2>. QED BY <2>1, <2>2
  <1>2. CASE SkipLog
    <2>. USE <1>2 DEF SkipLog, Busy, hostVars
    <2>1. /\ stdout # <<>> /\ Read(Head(stdout)) /\ UNCHANGED <<stdin, proc, importer>>
          /\ Head(stdout).kind = "Log"
      BY DEF Read
    <2>2. /\ FarewellLast'
          /\ \A k \in DOMAIN stdout' :
                /\ k + 1 \in DOMAIN stdout /\ k \in Nat \ {0}
                /\ stdout'[k] = stdout[k + 1]
                /\ Answer(k)' <=> Answer(k + 1)
      BY <2>1, MessageRead
    <2>3. WorkerShape' /\ DirectoryShape'
      BY <2>1, WorkerShapeKept
    <2>4. ExperimentShape'
      BY DEF ExperimentShape, Acceptable, EffectiveStop
    <2>5. AnswersInTurn'
      BY <2>1, <2>2 DEF AnswersInTurn, FarewellLast, Over, Target
    <2>6. CommandsInTurn'
      BY <2>1 DEF CommandsInTurn, Over
    <2>7. ClocksInTurn'
      BY <2>1, <2>2 DEF ClocksInTurn, Over, Synchronised, Target
    <2>. QED BY <2>3, <2>4, <2>5, <2>6, <2>7
  <1>3. CASE ReceiveReady
    <2>. USE <1>3 DEF ReceiveReady, Receives, Busy
    <2>1. CASE state' # "Running"
      BY <2>1, CallFailsOnMessage DEF Fail
    <2>2. CASE state' = "Running"
      <3>1. /\ 1 \in DOMAIN stdout /\ Answer(1) /\ stdout[1].kind = "Ready"
            /\ FarewellLast' /\ NoAnswer' /\ UNCHANGED <<stdin, proc, importer>>
        BY MessageRead DEF Answer, Read
      <3>2. /\ stdin = <<>> /\ remaining = 0 /\ readySent /\ workerTime = 0
            /\ pc \notin {"boot", "handleError", "sendReady", "reject", "sendComplete"}
            /\ ~stopFlag /\ Synchronised /\ Head(stdout).stop = workerStop
        BY <3>1, MessageRead DEF AnswersInTurn, ClocksInTurn
      <3>3. state = "Initialization" /\ currentTime = 0
        BY DEF Ownership, ExperimentShape
      <3>4. WorkerShape' /\ DirectoryShape'
        BY <3>1, WorkerShapeKept
      <3>5. ExperimentShape'
        BY <3>3 DEF ExperimentShape
      <3>6. AnswersInTurn'
        BY <3>1, NoAnswerInTurn
      <3>7. CommandsInTurn'
        BY <3>1, <3>2 DEF CommandsInTurn, Over
      <3>8. ClocksInTurn'
        <4>1. \A k \in DOMAIN stdout' : stdout'[k].kind \notin {"Ready", "StepComplete"}
          BY <3>1 DEF NoAnswer, Answer
        <4>2. modelStop' = workerStop
          BY <2>2, <3>2 DEF Fail
        <4>3. /\ state' = "Running" /\ call' = "idle" /\ currentTime' = currentTime
              /\ stopFlag' = stopFlag /\ Synchronised' = Synchronised
          BY <2>2 DEF Synchronised
        <4>. HIDE <1>3
        <4>. QED BY <3>1, <3>2, <3>3, <4>1, <4>2, <4>3 DEF ClocksInTurn, Over
      <3>. QED BY <3>4, <3>5, <3>6, <3>7, <3>8
    <2>. QED BY <2>1, <2>2
  <1>4. CASE InitializationFails
    <2>1. CASE ReceivesNothing
      BY <1>4, <2>1, CallFailsAtExit DEF InitializationFails, ReceivesNothing, AtEnd, Fail, Busy
    <2>2. CASE ~ReceivesNothing
      BY <1>4, <2>2, CallFailsOnMessage DEF InitializationFails, Receives, Fail, Busy
    <2>. QED BY <2>1, <2>2
  <1>5. CASE StepDiscarded
    BY <1>5, CallFailsOnMessage DEF StepDiscarded, Receives, Busy
  <1>6. CASE StepFails
    <2>1. CASE ReceivesNothing
      BY <1>6, <2>1, CallFailsAtExit DEF StepFails, ReceivesNothing, AtEnd, Fail, Busy
    <2>2. CASE ~ReceivesNothing
      BY <1>6, <2>2, CallFailsOnMessage DEF StepFails, FailingAnswers, Receives, Fail, Busy
    <2>. QED BY <2>1, <2>2
  <1>7. CASE SendStep
    <2>1. CASE WriteFails
      <3>1. proc = "exited" /\ call' = "idle" /\ UNCHANGED pipeVars /\ state' = "Error"
        BY <1>7, <2>1 DEF SendStep, WriteFails, Fail, Write
      <3>. QED BY <1>7, <3>1, CallFailsAtExit DEF SendStep, Busy
    <2>2. CASE ~WriteFails
      <3>. DEFINE command == [kind |-> "Step", point |-> request.point,
                              size |-> request.size, inputs |-> inputs]
      <3>1. /\ Busy("sendStep") /\ proc = "alive" /\ stdin' = Append(stdin, command)
            /\ UNCHANGED <<stdout, proc, importer>>
            /\ Continue("awaitStep") \/ Continue("writeStep")
        BY <1>7, <2>2 DEF SendStep, Write
      <3>2. /\ state = "Running" /\ readySent /\ remaining = 0
            /\ stdin = <<>> /\ workerTime = currentTime
            /\ ~stopFlag => Synchronised
        BY <3>1 DEF ClocksInTurn, Ownership, Busy
      <3>3. /\ stdin' = <<command>> /\ stdin'[1] = command /\ Len(stdin') = 1
            /\ stdin' # <<>>
        BY <3>1, <3>2
      <3>4. WorkerShape' /\ DirectoryShape'
        BY <3>1, WorkerShapeKept
      <3>5. ExperimentShape'
        BY <3>1, CallGoesOn DEF Busy
      <3>6. NoAnswer' /\ FarewellLast'
        BY <3>1 DEF NoAnswer, FarewellLast, Answer, AnswersInTurn, Busy
      <3>7. AnswersInTurn'
        BY <3>1, <3>6, NoAnswerInTurn DEF Continue
      <3>8. CommandsInTurn'
        BY <3>1, <3>2, <3>3 DEF CommandsInTurn, Continue, Over, WorkerShape, Busy
      <3>9. ClocksInTurn'
        <4>1. \A k \in DOMAIN stdout' : stdout'[k].kind \notin {"Ready", "StepComplete"}
          BY <3>6 DEF NoAnswer, Answer
        <4>2. ~Over => pc # "sendComplete"
          BY <3>1 DEF CommandsInTurn, Busy
        <4>. QED BY <3>1, <3>2, <3>3, <4>1, <4>2
                 DEF ClocksInTurn, Continue, Over, Synchronised, Busy
      <3>. QED BY <3>4, <3>5, <3>7, <3>8, <3>9
    <2>. QED BY <2>1, <2>2
  <1>8. CASE FinishWrite
    <2>1. CASE stdin # <<>>
      BY <1>8, <2>1, CallFailsAtExit DEF FinishWrite, Busy, WriteFails, Fail
    <2>2. CASE stdin = <<>>
      <3>1. Busy("writeStep") /\ Continue("awaitStep") /\ UNCHANGED pipeVars
        BY <1>8, <2>2 DEF FinishWrite
      <3>. USE DEF pipeVars
      <3>2. WorkerShape' /\ DirectoryShape'
        BY <3>1, WorkerShapeKept
      <3>3. ExperimentShape'
        BY <3>1, CallGoesOn DEF Busy
      <3>4. AnswersInTurn'
        BY <3>1 DEF AnswersInTurn, Continue, Answer, Over, Target, Busy
      <3>5. CommandsInTurn'
        BY <3>1 DEF CommandsInTurn, Continue, Over, Busy
      <3>6. ClocksInTurn'
        BY <3>1 DEF ClocksInTurn, Continue, Over, Synchronised, Target, Busy
      <3>. QED BY <3>2, <3>3, <3>4, <3>5, <3>6
    <2>. QED BY <2>1, <2>2
  <1>9. CASE ReceiveStepComplete
    <2>. USE <1>9 DEF ReceiveStepComplete, Receives, Busy
    <2>1. /\ 1 \in DOMAIN stdout /\ Answer(1) /\ Head(stdout) = stdout[1]
          /\ FarewellLast' /\ NoAnswer' /\ UNCHANGED <<stdin, proc, importer>>
      BY MessageRead DEF Answer, Read
    <2>2. /\ stdin = <<>> /\ remaining = 0 /\ currentTime' = workerTime
          /\ pc \notin {"boot", "handleError", "sendReady", "reject", "sendComplete"}
          /\ ~stopFlag => Synchronised
      BY <2>1 DEF AnswersInTurn, ClocksInTurn
    <2>3. state = "Running" /\ readySent
      BY DEF Ownership, ClocksInTurn
    <2>4. WorkerShape' /\ DirectoryShape'
      BY <2>1, WorkerShapeKept
    <2>5. ExperimentShape'
      BY <2>3 DEF ExperimentShape
    <2>6. AnswersInTurn'
      BY <2>1, NoAnswerInTurn
    <2>7. CommandsInTurn'
      BY <2>1, <2>2, <2>3 DEF CommandsInTurn, Over
    <2>8. ClocksInTurn'
      <3>1. \A k \in DOMAIN stdout' : stdout'[k].kind \notin {"Ready", "StepComplete"}
        BY <2>1 DEF NoAnswer, Answer
      <3>. QED BY <2>1, <2>2, <2>3, <3>1 DEF ClocksInTurn, Over, Synchronised
    <2>. QED BY <2>4, <2>5, <2>6, <2>7, <2>8
  <1>10. CASE SendShutdown
    <2>. USE <1>10 DEF SendShutdown, Busy, Continue
    <2>1. NoAnswer /\ UNCHANGED <<stdout, proc, importer>>
      BY DEF NoAnswer, AnswersInTurn, Write, WriteFails, pipeVars
    <2>2. WorkerShape' /\ DirectoryShape'
      BY <2>1, WorkerShapeKept
    <2>3. ExperimentShape'
      BY CallGoesOn
    <2>4. AnswersInTurn'
      <3>1. NoAnswer' /\ FarewellLast'
        BY <2>1 DEF NoAnswer, FarewellLast, Answer, AnswersInTurn
      <3>. QED BY <3>1, NoAnswerInTurn
    <2>5. ~Over => stdin = <<>> /\ stdin' = <<[kind |-> "Shutdown"]>>
      <3>1. ~Over => stdin = <<>> /\ proc = "alive"
        BY DEF CommandsInTurn, Over
      <3>. QED BY <3>1 DEF WriteFails, Write
    <2>6. Over' <=> Over
      BY <2>1 DEF Over
    <2>7. CommandsInTurn'
      <3>1. ~Over => Len(stdin') = 1 /\ stdin'[1].kind = "Shutdown"
        BY <2>5
      <3>2. call = "sendShutdown" /\ call' = "drain" /\ pc' = pc /\ remaining' = remaining
            /\ readySent' = readySent
        OBVIOUS
      <3>. HIDE <1>10
      <3>3. stdin' \in Seq(Commands)
        BY DEF PipesTypeOK
      <3>4. ~Over' => Len(stdin') <= 1
        <4>1. Len(stdin') \in Nat
          BY <3>3
        <4>2. CASE Over'
          BY <4>2
        <4>3. CASE ~Over'
          <5>1. Len(stdin') = 1
            BY <2>1, <3>1, <3>2, <4>3 DEF Over
          <5>. QED BY <4>1, <5>1
        <4>. QED BY <4>2, <4>3
      <3>. QED BY <2>1, <3>1, <3>2, <3>3, <3>4 DEF CommandsInTurn, Over
    <2>8. ClocksInTurn'
      <3>1. ~Over => remaining = 0 /\ pc # "sendComplete" /\ readySent
        BY DEF CommandsInTurn, TypeOK, WorkerTypeOK
      <3>2. \A k \in DOMAIN stdout' : stdout'[k].kind \notin {"Ready", "StepComplete"}
        BY <2>1 DEF NoAnswer, Answer
      <3>3. state # "Running" \/ readySent
        BY DEF ClocksInTurn
      <3>. QED BY <2>1, <2>6, <3>1, <3>2, <3>3 DEF ClocksInTurn
    <2>. QED BY <2>2, <2>3, <2>4, <2>7, <2>8
  <1>11. CASE Drain \/ DrainAtEnd
    <2>1. call = "drain" /\ call' \in {"drain", "wait"} /\ Continue(call')
      BY <1>11 DEF Drain, DrainAtEnd, Busy, Continue
    <2>2. UNCHANGED <<stdin, proc, importer>>
      BY <1>11 DEF Drain, DrainAtEnd, Read, ReceivesNothing, pipeVars
    <2>3. NoAnswer
      BY <2>1 DEF NoAnswer, AnswersInTurn
    <2>4. /\ NoAnswer' /\ FarewellLast'
          /\ call' = "wait" => stdout' = <<>> /\ (proc = "alive" => pc = "exiting")
      <3>1. CASE Drain
        <4>1. stdout # <<>> /\ Read(Head(stdout)) /\ pc' = pc
          BY <3>1 DEF Drain
        <4>2. NoAnswer' /\ FarewellLast'
          BY <4>1, <2>3, MessageRead
        <4>3. ASSUME call' = "wait" PROVE stdout' = <<>> /\ pc \in {"exiting", "crashed"}
          <5>1. Head(stdout).kind \in {"Terminated", "Error"}
            BY <3>1, <4>3 DEF Drain, Continue, FinalKinds
          <5>2. ~Answer(1)
            BY <2>3, <4>1, MessageRead DEF NoAnswer
          <5>. QED BY <4>1, <5>1, <5>2, MessageRead
        <4>. QED BY <4>2, <4>3 DEF WorkerShape
      <3>2. CASE DrainAtEnd
        BY <3>2, <2>3
        DEF DrainAtEnd, ReceivesNothing, AtEnd, pipeVars, NoAnswer, FarewellLast
      <3>. QED BY <1>11, <3>1, <3>2
    <2>5. WorkerShape' /\ DirectoryShape'
      BY <2>2, WorkerShapeKept
    <2>6. ExperimentShape'
      BY <2>1, CallGoesOn
    <2>7. AnswersInTurn'
      BY <2>2, <2>4, NoAnswerInTurn
    <2>8. CommandsInTurn'
      <3>1. call' = "wait" => Over
        BY <2>2, <2>4 DEF Over
      <3>. QED BY <2>1, <2>2, <3>1 DEF CommandsInTurn, Over
    <2>9. ClocksInTurn'
      <3>1. \A k \in DOMAIN stdout' : stdout'[k].kind \notin {"Ready", "StepComplete"}
        BY <2>4 DEF NoAnswer, Answer
      <3>2. ~Over => remaining = 0 /\ pc # "sendComplete"
        BY <2>1 DEF CommandsInTurn, TypeOK, WorkerTypeOK
      <3>. QED BY <2>1, <2>2, <3>1, <3>2 DEF ClocksInTurn, Over, Continue
    <2>. QED BY <2>5, <2>6, <2>7, <2>8, <2>9
  <1>. QED BY <1>1, <1>2, <1>3, <1>4, <1>5, <1>6, <1>7, <1>8, <1>9, <1>10, <1>11
           DEF HostProceeds

-----------------------------------------------------------------------------
(* Steps of the worker.                                                    *)

\* What is in the pipe once the worker has written a message.
LEMMA MessageWritten ==
    ASSUME PipesTypeOK, NEW e \in Responses, Reply(e)
    PROVE  /\ stdout' # <<>> /\ Len(stdout') \in DOMAIN stdout'
           /\ stdout'[Len(stdout')] = e
           /\ \A k \in DOMAIN stdout' :
                 \/ k = Len(stdout')
                 \/ k \in DOMAIN stdout /\ k # Len(stdout') /\ stdout'[k] = stdout[k]
           /\ UNCHANGED <<stdin, proc, importer>>
  <1>1. stdout \in Seq(Responses) /\ stdout' = Append(stdout, e)
    BY DEF PipesTypeOK, Reply
  <1>. QED BY <1>1, WriteFacts DEF Reply

\* A worker that has not announced that FMI time starts owes the host its Ready.
LEMMA NoAnswerBeforeReady ==
    ASSUME Protocol, ~Over, ~readySent
    PROVE  NoAnswer
  BY DEF Protocol, CommandsInTurn, AnswersInTurn, NoAnswer, Answer

\* While a command is in the pipe or a step in progress, nothing is answered.
LEMMA NoAnswerWhileWorking ==
    ASSUME TypeOK, Protocol,
           \/ stdin # <<>> \/ remaining # 0
           \/ pc \in {"boot", "handleError", "sendReady", "reject", "sendComplete"}
    PROVE  NoAnswer
  BY DEF Protocol, AnswersInTurn, NoAnswer

\* The pipes and the instance do not notice a step of the worker that writes
\* nothing, when no answer is in the pipe ...
LEMMA SilentStep ==
    ASSUME TypeOK, Protocol, NoAnswer, UNCHANGED hostVars, UNCHANGED stdout,
           proc = "alive", pc \notin {"exiting", "crashed"}
    PROVE  NoAnswer' /\ AnswersInTurn' /\ ExperimentShape'
  <1>. USE DEF Protocol, hostVars, valueVars
  <1>1. NoAnswer' /\ FarewellLast'
    BY DEF NoAnswer, FarewellLast, Answer, AnswersInTurn
  <1>2. call # "wait"
    BY DEF AnswersInTurn
  <1>3. ExperimentShape'
    BY DEF ExperimentShape, Acceptable, EffectiveStop
  <1>. QED BY <1>1, <1>2, <1>3, NoAnswerInTurn

\* ... nor when it neither reads nor counts.
LEMMA IdleStep ==
    ASSUME TypeOK, Protocol, UNCHANGED hostVars, UNCHANGED <<stdout, stdin, importer>>,
           proc = "alive", pc \notin {"exiting", "crashed"},
           pc' \notin {"boot", "handleError", "sendReady", "reject", "sendComplete"},
           UNCHANGED <<remaining, workerTime, readySent>>, Over => Over'
    PROVE  AnswersInTurn' /\ ExperimentShape'
  <1>. USE DEF Protocol, hostVars, valueVars
  <1>1. \A k \in DOMAIN stdout' : k \in DOMAIN stdout /\ (Answer(k)' => Answer(k))
    BY DEF Answer
  <1>2. AnswersInTurn'
    BY <1>1 DEF AnswersInTurn, Target
  <1>3. ExperimentShape'
    BY DEF ExperimentShape, Acceptable, EffectiveStop
  <1>. QED BY <1>2, <1>3

LEMMA BootProtocol ==
    ASSUME TypeOK, Ownership, Protocol, TypeOK', Boot, UNCHANGED hostVars
    PROVE  Protocol'
  <1>. USE DEF Protocol, Boot, At
  <1>1. /\ proc = "alive" /\ pc = "boot" /\ UNCHANGED <<stdout, proc, importer>>
        /\ UNCHANGED <<contextVars, epVars>> /\ pc' \in {"simulating", "failing"}
        /\ stdin' = <<>>
    BY DEF Take, pipeVars, InputAtEnd, Initialized
  <1>2. /\ pc' = "simulating" => directory' \in {"temporary", "chosen"}
        /\ pc' = "failing" => directory' # "temporary"
        /\ directory' # "kept"
    <2>1. stdin # <<>> => Head(stdin) \in Commands
      BY HeadCommand DEF TypeOK
    <2>. QED BY <2>1, InitializeCommand
             DEF Initialized, Dropped, DirectoryShape, runVars
  <1>3. call \in {"sendInitialize", "awaitReady"} /\ NoAnswer
    BY <1>1, NoAnswerWhileWorking DEF CommandsInTurn
  <1>4. call = "sendInitialize" => importer = "killed" /\ pc' = "failing"
    BY <1>1 DEF CommandsInTurn, InputAtEnd
  <1>. HIDE DEF Boot
  <1>. USE DEF contextVars, epVars, hostVars, valueVars
  <1>5. NoAnswer' /\ AnswersInTurn' /\ ExperimentShape'
    BY <1>1, <1>3, SilentStep
  <1>6. WorkerShape'
    BY <1>1 DEF WorkerShape
  <1>7. DirectoryShape'
    BY <1>1, <1>2 DEF DirectoryShape, WorkerShape, NeverSimulated
  <1>8. CommandsInTurn'
    BY <1>1, <1>3, <1>4 DEF CommandsInTurn, WorkerShape, Over
  <1>9. ClocksInTurn'
    <2>1. \A k \in DOMAIN stdout' : stdout'[k].kind \notin {"Ready", "StepComplete"}
      BY <1>5 DEF NoAnswer, Answer
    <2>. QED BY <1>1, <1>3, <2>1 DEF ClocksInTurn, WorkerShape, Ownership
  <1>. QED BY <1>5, <1>6, <1>7, <1>8, <1>9

\* A callback at the beginning of a timestep.
LEMMA BeginProtocol ==
    ASSUME TypeOK, Ownership, Protocol, TypeOK',
           BeginWarmupTimestep \/ BeginRunTimestep, UNCHANGED hostVars
    PROVE  Protocol'
  <1>. USE DEF Protocol, At, Simulate, ApplyInputs, contextVars, runVars, pipeVars,
               hostVars, valueVars
  <1>1. CASE BeginWarmupTimestep
    <2>. USE <1>1 DEF BeginWarmupTimestep, WarmupTimestep
    <2>1. WorkerShape' /\ DirectoryShape'
      BY DEF WorkerShape, DirectoryShape
    <2>2. pc' = "handleError" => NoAnswer /\ call = "awaitReady"
      <3>1. pc' = "handleError" => ~Over /\ ~readySent
        BY DEF Over, WorkerShape
      <3>. QED BY <3>1, NoAnswerBeforeReady DEF CommandsInTurn
    <2>3. AnswersInTurn' /\ ExperimentShape'
      <3>1. CASE pc' = "handleError"
        BY <2>2, <3>1, SilentStep
      <3>2. CASE pc' # "handleError"
        BY <3>2, IdleStep DEF Over
      <3>. QED BY <3>1, <3>2
    <2>4. CommandsInTurn'
      BY <2>2 DEF CommandsInTurn, Over
    <2>5. ClocksInTurn'
      BY DEF ClocksInTurn, Over, Synchronised, Target
    <2>. QED BY <2>1, <2>3, <2>4, <2>5
  <1>2. CASE BeginRunTimestep
    <2>. USE <1>2 DEF BeginRunTimestep, RunTimestep
    <2>1. WorkerShape' /\ DirectoryShape'
      BY DEF WorkerShape, DirectoryShape, TypeOK, WorkerTypeOK
    <2>2. pc' = "sendReady" => NoAnswer
      BY NoAnswerBeforeReady DEF Over
    <2>3. AnswersInTurn' /\ ExperimentShape'
      <3>1. CASE pc' = "sendReady"
        BY <2>2, <3>1, SilentStep
      <3>2. CASE pc' # "sendReady"
        BY <3>2, IdleStep DEF Over
      <3>. QED BY <3>1, <3>2
    <2>4. CommandsInTurn'
      BY DEF CommandsInTurn, Over
    <2>5. ClocksInTurn'
      BY DEF ClocksInTurn, Over, Synchronised, Target
    <2>. QED BY <2>1, <2>3, <2>4, <2>5
  <1>. QED BY <1>1, <1>2

\* The worker answers, or its Ready is lost with the importer.
LEMMA AnswerProtocol ==
    ASSUME TypeOK, Ownership, Protocol, TypeOK',
           ReportHandleError \/ SendReady \/ SendReadyFails \/ SendRejection \/ SendStepComplete,
           UNCHANGED hostVars
    PROVE  Protocol'
  <1>. USE DEF Protocol, At, Simulate, contextVars, runVars, hostVars, valueVars,
               ReplyIgnoringErrors
  <1>0. ExperimentShape'
    BY DEF ExperimentShape, Acceptable, EffectiveStop
  <1>1. /\ proc = "alive" /\ pc \in {"handleError", "sendReady", "reject", "sendComplete"}
        /\ NoAnswer /\ ~Over /\ UNCHANGED <<stdin, proc, importer>>
        /\ call \in {"awaitReady", "writeStep", "awaitStep"} /\ stdin = <<>>
        /\ remaining = 0 /\ FarewellLast
        /\ pc \in {"handleError", "sendReady"} => call = "awaitReady" /\ ~readySent
        /\ pc \in {"reject", "sendComplete"} => call # "awaitReady" /\ readySent
        /\ pc' \notin {"boot", "handleError", "sendReady", "reject", "sendComplete",
                       "exiting", "crashed"}
        /\ workerTime' = workerTime /\ remaining' = remaining
    <2>1. /\ proc = "alive" /\ pc \in {"handleError", "sendReady", "reject", "sendComplete"}
          /\ UNCHANGED <<stdin, proc, importer>> /\ workerTime' = workerTime
          /\ remaining' = remaining
          /\ pc' \notin {"boot", "handleError", "sendReady", "reject", "sendComplete",
                         "exiting", "crashed"}
      BY DEF ReportHandleError, SendReady, SendReadyFails, SendRejection,
             SendStepComplete, StopSimulation, Reply, ReplyFails, pipeVars
    <2>2. NoAnswer
      BY <2>1, NoAnswerWhileWorking
    <2>3. ~Over /\ remaining = 0 /\ FarewellLast
      BY <2>1 DEF WorkerShape, Over, AnswersInTurn, FarewellLast
    <2>4. /\ pc \in {"handleError", "sendReady"} => call = "awaitReady" /\ ~readySent
          /\ pc \in {"reject", "sendComplete"} =>
                call \in {"writeStep", "awaitStep"} /\ stdin = <<>> /\ readySent
      BY <2>1, <2>3 DEF WorkerShape, CommandsInTurn
    <2>5. stdin = <<>>
      BY <2>1, <2>4 DEF CommandsInTurn
    <2>. QED BY <2>1, <2>2, <2>3, <2>4, <2>5
  <1>2. WorkerShape' /\ DirectoryShape'
    BY DEF WorkerShape, DirectoryShape, ReportHandleError, SendReady, SendReadyFails,
           SendRejection, SendStepComplete, StopSimulation, Reply, ReplyFails, pipeVars,
           epVars
  <1>3. CASE UNCHANGED stdout
    <2>1. AnswersInTurn'
      BY <1>1, <1>3, SilentStep
    <2>2. CommandsInTurn'
      BY <1>1 DEF CommandsInTurn, Over, ReportHandleError, SendReady, SendReadyFails,
             SendRejection, SendStepComplete, StopSimulation, epVars
    <2>3. ClocksInTurn'
      <3>1. \A k \in DOMAIN stdout' : stdout'[k].kind \notin {"Ready", "StepComplete"}
        BY <1>1, <1>3 DEF NoAnswer, Answer
      <3>2. importer = "killed" /\ state \in {"Running", "Initialization"}
        <4>1. /\ ~Reply([kind |-> "Error"])
              /\ ~Reply([kind |-> "Ready", outputs |-> Outputs(simStep), stop |-> workerStop])
              /\ ~Reply([kind |-> "StepComplete", time |-> workerTime,
                         outputs |-> Outputs(simStep)])
          BY <1>3, WriteFacts DEF Reply, TypeOK, PipesTypeOK
        <4>. QED BY <1>1, <4>1 DEF Ownership, ReportHandleError, SendReady, SendReadyFails,
             SendRejection, SendStepComplete, ReplyFails
      <3>. QED BY <1>1, <3>1, <3>2
           DEF ClocksInTurn, Over, Synchronised, Ownership, ReportHandleError, SendReady,
               SendReadyFails, SendRejection, SendStepComplete, StopSimulation, epVars
    <2>. QED BY <1>0, <1>2, <2>1, <2>2, <2>3
  <1>4. ASSUME NEW e \in Responses, Reply(e),
               \/ e.kind = "Ready" /\ pc = "sendReady" /\ readySent' = TRUE /\ stopFlag' = stopFlag
                  /\ e.stop = workerStop
               \/ e.kind = "StepComplete" /\ pc = "sendComplete" /\ e.time = workerTime
                  /\ stopFlag' = stopFlag /\ readySent' = readySent
               \/ e.kind = "Error" /\ pc = "handleError" /\ stopFlag' = TRUE
                  /\ readySent' = readySent
               \/ e.kind = "Error" /\ pc = "reject" /\ stopFlag' = stopFlag
                  /\ readySent' = readySent,
               phase' = phase, simStep' = simStep, workerStop' = workerStop
        PROVE  Protocol'
    <2>1. /\ Len(stdout') \in DOMAIN stdout' /\ stdout'[Len(stdout')] = e
          /\ \A k \in DOMAIN stdout' :
                \/ k = Len(stdout')
                \/ k \in DOMAIN stdout /\ k # Len(stdout') /\ stdout'[k] = stdout[k]
      BY <1>4, MessageWritten DEF TypeOK
    <2>2. \A k \in DOMAIN stdout' : k # Len(stdout') =>
             ~Answer(k)' /\ stdout'[k].kind = "Log"
      <3>1. ASSUME NEW k \in DOMAIN stdout', k # Len(stdout') PROVE stdout'[k].kind = "Log"
        <4>1. k \in DOMAIN stdout /\ stdout'[k] = stdout[k] /\ ~Answer(k)
          BY <2>1, <3>1, <1>1 DEF NoAnswer
        <4>2. stdout[k].kind \in {"Log", "Ready", "StepComplete", "Terminated", "Error"}
          <5>1. stdout[k] \in Responses
            BY <4>1 DEF TypeOK, PipesTypeOK
          <5>. QED BY <5>1 DEF Responses
        <4>3. stdout[k].kind # "Terminated"
          BY <4>1, <1>1 DEF FarewellLast
        <4>. QED BY <4>1, <4>2, <4>3, <1>1 DEF Answer
      <3>. QED BY <3>1 DEF Answer
    <2>3. ~stopFlag /\ (stopFlag' => e.kind = "Error" /\ call = "awaitReady")
      BY <1>1, <1>4 DEF Over
    <2>4. e.kind = "StepComplete" => workerTime = Target /\ Synchronised
      BY <1>1, <1>4, ZoneStepAssumption DEF ClocksInTurn, TypeOK, WorkerTypeOK
    <2>5. e.kind = "Ready" => workerTime = 0 /\ simStep = 0 /\ ~(phase = "run" /\ inStep)
      BY <1>1, <1>4, <2>3 DEF WorkerShape
    <2>6. AnswersInTurn'
      <3>1. \A j, k \in DOMAIN stdout' : Answer(j)' /\ Answer(k)' => j = k
        BY <2>2
      <3>2. Target' = Target
        BY DEF Target
      <3>. QED BY <1>1, <1>4, <2>1, <2>2, <2>4, <3>1, <3>2 DEF AnswersInTurn, Over
    <2>7. CommandsInTurn'
      BY <1>1, <1>4 DEF CommandsInTurn, Over
    <2>8. ClocksInTurn'
      <3>1. e.kind \in {"Ready", "StepComplete"} => Synchronised'
        <4>1. inStep' = inStep \/ e.kind = "Error"
          BY <1>4 DEF ReportHandleError, SendReady, SendReadyFails, SendRejection,
                      SendStepComplete, Reply, ReplyFails, epVars
        <4>. QED BY <1>1, <1>4, <2>4, <2>5, <4>1, ZoneStepAssumption DEF Synchronised
      <3>2. Target' = Target
        BY DEF Target
      <3>. QED BY <1>1, <1>4, <2>1, <2>2, <2>3, <2>4, <2>5, <3>1, <3>2
               DEF ClocksInTurn, Over, Ownership
    <2>. QED BY <1>0, <1>2, <2>6, <2>7, <2>8
  <1>5. CASE ~UNCHANGED stdout
    <2>1. CASE ReportHandleError
      BY <1>4, <1>5, <2>1, ResponseTypes
      DEF ReportHandleError, StopSimulation, ReplyFails, pipeVars
    <2>2. CASE SendReady
      <3>. DEFINE ready == [kind |-> "Ready", outputs |-> Outputs(simStep), stop |-> workerStop]
      <3>1. ready \in Responses
        BY ResponseTypes, OutputsType DEF TypeOK, WorkerTypeOK
      <3>2. ready.kind = "Ready" /\ ready.stop = workerStop
        OBVIOUS
      <3>. HIDE DEF ready
      <3>. QED BY <1>4, <2>2, <3>1, <3>2 DEF SendReady, epVars, ready
    <2>3. CASE SendReadyFails
      BY <1>5, <2>3 DEF SendReadyFails, ReplyFails, pipeVars
    <2>4. CASE SendRejection
      BY <1>4, <1>5, <2>4, ResponseTypes DEF SendRejection, ReplyFails, pipeVars
    <2>5. CASE SendStepComplete
      BY <1>4, <1>5, <2>5, ResponseTypes, OutputsType
      DEF SendStepComplete, ReplyFails, pipeVars, epVars, TypeOK, WorkerTypeOK
    <2>. QED BY <2>1, <2>2, <2>3, <2>4, <2>5
  <1>. QED BY <1>3, <1>5

\* The worker takes a Step, accepting or refusing it.
LEMMA StepTakenProtocol ==
    ASSUME TypeOK, Ownership, Protocol, TypeOK', AcceptStep \/ RejectCommand,
           UNCHANGED hostVars
    PROVE  Protocol'
  <1>. USE DEF Protocol, At, Simulate, ApplyInputs, contextVars, runVars, epVars,
               hostVars, valueVars, Take
  <1>1. /\ proc = "alive" /\ pc = "receive" /\ stdin # <<>> /\ stdin' = <<>>
        /\ UNCHANGED <<stdout, proc, importer>>
        /\ NoAnswer /\ ~Over /\ readySent /\ phase = "run" /\ ~inStep
    <2>1. proc = "alive" /\ pc = "receive" /\ stdin # <<>>
      BY DEF AcceptStep, RejectCommand
    <2>. QED BY <2>1, NoAnswerWhileWorking DEF AcceptStep, RejectCommand, WorkerShape, Over
  <1>2. Head(stdin) = stdin[1] /\ stdin[1].kind # "Shutdown"
    <2>1. Head(stdin) = stdin[1]
      BY <1>1, ReadFacts DEF TypeOK, PipesTypeOK
    <2>. QED BY <2>1 DEF AcceptStep, RejectCommand
  <1>3. call \in {"writeStep", "awaitStep"}
    BY <1>1, <1>2 DEF CommandsInTurn
  <1>4. /\ stdin[1].kind = "Step"
        /\ stdin[1].point = request.point /\ stdin[1].size = request.size
        /\ workerTime = currentTime /\ remaining = 0 /\ Synchronised
    BY <1>1, <1>3 DEF ClocksInTurn
  <1>5. NoAnswer' /\ AnswersInTurn' /\ ExperimentShape'
    BY <1>1, SilentStep
  <1>6. \A k \in DOMAIN stdout' : stdout'[k].kind \notin {"Ready", "StepComplete"}
    BY <1>5 DEF NoAnswer, Answer
  <1>7. CASE AcceptStep
    <2>. USE <1>7 DEF AcceptStep
    <2>1. WorkerShape' /\ DirectoryShape'
      BY <1>1 DEF WorkerShape, DirectoryShape
    <2>2. CommandsInTurn'
      BY <1>1, <1>3 DEF CommandsInTurn, Over
    <2>3. workerTime' + remaining' * ZoneStep = Target'
      BY <1>2, <1>4 DEF Target
    <2>4. remaining' # 0 => Synchronised'
      BY <1>1, <1>4 DEF Synchronised, TypeOK, WorkerTypeOK
    <2>5. ClocksInTurn'
      BY <1>1, <1>3, <1>4, <1>6, <2>3, <2>4 DEF ClocksInTurn, Over, Ownership
    <2>. QED BY <1>5, <2>1, <2>2, <2>5
  <1>8. CASE RejectCommand
    <2>. USE <1>8 DEF RejectCommand
    <2>1. WorkerShape' /\ DirectoryShape'
      BY <1>1 DEF WorkerShape, DirectoryShape
    <2>2. CommandsInTurn'
      BY <1>1, <1>3 DEF CommandsInTurn, Over
    <2>3. ClocksInTurn'
      BY <1>1, <1>3, <1>4, <1>6 DEF ClocksInTurn, Over, Ownership, Synchronised, WorkerShape
    <2>. QED BY <1>5, <2>1, <2>2, <2>3
  <1>. QED BY <1>7, <1>8

\* The worker is told to stop, or finds its importer gone.
LEMMA ShutdownProtocol ==
    ASSUME TypeOK, Ownership, Protocol, TypeOK', ReceiveShutdown, UNCHANGED hostVars
    PROVE  Protocol'
  <1>. USE DEF Protocol, ReceiveShutdown, StopSimulation, At, Simulate, runVars,
               hostVars, valueVars
  <1>1. /\ proc = "alive" /\ pc = "receive" /\ stdin' = <<>> /\ stopFlag' = TRUE
        /\ UNCHANGED <<stdout, proc, importer>> /\ pc' = "simulating"
        /\ ~Over /\ readySent /\ phase = "run" /\ ~inStep /\ remaining = 0
    BY DEF Take, CommandsEnd, InputAtEnd, pipeVars, WorkerShape, Over
  <1>2. \/ stdin = <<>> /\ importer = "killed"
        \/ call = "drain" /\ NoAnswer
    <2>1. CASE stdin # <<>>
      <3>1. Head(stdin) = stdin[1] /\ stdin[1].kind = "Shutdown"
        BY <2>1, ReadFacts DEF TypeOK, PipesTypeOK, Take, CommandsEnd, InputAtEnd
      <3>2. call = "drain"
        BY <1>1, <2>1, <3>1 DEF CommandsInTurn, ClocksInTurn
      <3>. QED BY <3>2, <2>1, NoAnswerWhileWorking
    <2>2. CASE stdin = <<>>
      BY <2>2 DEF Take, CommandsEnd, InputAtEnd
    <2>. QED BY <2>1, <2>2
  <1>3. AnswersInTurn' /\ ExperimentShape'
    <2>1. CASE stdin = <<>>
      BY <1>1, <2>1, IdleStep DEF Over
    <2>2. CASE NoAnswer
      BY <1>1, <2>2, SilentStep
    <2>. QED BY <1>2, <2>1, <2>2
  <1>4. WorkerShape' /\ DirectoryShape'
    BY <1>1 DEF WorkerShape, DirectoryShape
  <1>5. CommandsInTurn'
    BY <1>1 DEF CommandsInTurn, Over
  <1>6. ClocksInTurn'
    BY <1>1, <1>2 DEF ClocksInTurn, Over, Synchronised, Target
  <1>. QED BY <1>3, <1>4, <1>5, <1>6

\* A timestep ends and may count.
LEMMA EndProtocol ==
    ASSUME TypeOK, Ownership, Protocol, TypeOK', EndZoneTimestep, UNCHANGED hostVars
    PROVE  Protocol'
  <1>. USE DEF Protocol, EndZoneTimestep, TimestepEnds, At, runVars, hostVars,
               valueVars, pipeVars
  <1>0. /\ workerTime \in Nat /\ remaining \in Nat /\ simStep \in Nat
        /\ ZoneStep \in Nat \ {0}
    BY ZoneStepAssumption DEF TypeOK, WorkerTypeOK, EnergyPlusTypeOK
  <1>1. CASE Counted
    <2>1. /\ readySent /\ remaining > 0 /\ phase = "run" /\ proc = "alive" /\ ~stopFlag
          /\ NoAnswer /\ ~Over
      BY <1>0, <1>1, NoAnswerWhileWorking DEF Counted, WorkerShape, TypeOK, WorkerTypeOK,
         EnergyPlusTypeOK, Over
    <2>2. /\ remaining' = remaining - 1 /\ workerTime' = workerTime + ZoneStep
          /\ simStep' = simStep + 1 /\ ~inStep'
          /\ pc' = IF remaining' = 0 THEN "sendComplete" ELSE "simulating"
      BY <1>1, <2>1 DEF Completes
    <2>3. Synchronised /\ workerTime + remaining * ZoneStep = Target
          /\ call \in {"writeStep", "awaitStep"} /\ stdin = <<>>
      BY <2>1 DEF ClocksInTurn, CommandsInTurn
    <2>4. NoAnswer' /\ AnswersInTurn' /\ ExperimentShape'
      BY <2>1, SilentStep
    <2>5. WorkerShape' /\ DirectoryShape'
      BY <1>0, <2>1, <2>2 DEF WorkerShape, DirectoryShape
    <2>6. CommandsInTurn'
      BY <2>1, <2>2, <2>3 DEF CommandsInTurn, Over
    <2>7. Synchronised'
      BY <1>0, <2>1, <2>2, <2>3 DEF Synchronised
    <2>8. workerTime' + remaining' * ZoneStep = Target'
      <3>1. (remaining - 1) * ZoneStep = remaining * ZoneStep - ZoneStep
        BY <1>0
      <3>2. Target' = Target
        BY DEF Target
      <3>. QED BY <1>0, <2>2, <2>3, <3>1, <3>2
    <2>9. \A k \in DOMAIN stdout' : stdout'[k].kind \notin {"Ready", "StepComplete"}
      BY <2>4 DEF NoAnswer, Answer
    <2>. QED BY <2>1, <2>3, <2>4, <2>5, <2>6, <2>7, <2>8, <2>9
             DEF ClocksInTurn, Over, Ownership
  <1>2. CASE ~Counted
    <2>. USE <1>2
    <2>1. AnswersInTurn' /\ ExperimentShape'
      BY IdleStep DEF Over
    <2>2. WorkerShape' /\ DirectoryShape'
      BY DEF WorkerShape, DirectoryShape
    <2>3. CommandsInTurn'
      BY DEF CommandsInTurn, Over
    <2>4. Synchronised /\ ~stopFlag => Synchronised'
      BY <1>0 DEF Synchronised, Counted, WorkerShape
    <2>5. ClocksInTurn'
      BY <2>4 DEF ClocksInTurn, Over, Target
    <2>. QED BY <2>1, <2>2, <2>3, <2>5
  <1>. QED BY <1>1, <1>2

\* A message of EnergyPlus is no answer.
LEMMA LogProtocol ==
    ASSUME TypeOK, Ownership, Protocol, TypeOK', EmitLog, UNCHANGED hostVars
    PROVE  Protocol'
  <1>. USE DEF Protocol, EmitLog, At, contextVars, runVars, hostVars, valueVars
  <1>0. ExperimentShape'
    BY DEF ExperimentShape, Acceptable, EffectiveStop
  <1>1. WorkerShape' /\ DirectoryShape'
    BY DEF WorkerShape, DirectoryShape, ReplyIgnoringErrors, Reply, ReplyFails, pipeVars
  <1>2. CASE ReplyFails
    <2>1. AnswersInTurn'
      BY <1>2, IdleStep DEF ReplyFails, pipeVars, Over
    <2>2. CommandsInTurn'
      BY <1>2 DEF CommandsInTurn, Over, ReplyFails, pipeVars
    <2>3. ClocksInTurn'
      BY <1>2 DEF ClocksInTurn, Over, Synchronised, Target, ReplyFails, pipeVars
    <2>. QED BY <1>0, <1>1, <2>1, <2>2, <2>3
  <1>3. CASE Reply([kind |-> "Log"])
    <2>1. /\ Len(stdout') \in DOMAIN stdout' /\ stdout'[Len(stdout')] = [kind |-> "Log"]
          /\ \A k \in DOMAIN stdout' :
                \/ k = Len(stdout')
                \/ k \in DOMAIN stdout /\ k # Len(stdout') /\ stdout'[k] = stdout[k]
          /\ UNCHANGED <<stdin, proc, importer>>
      BY <1>3, MessageWritten, ResponseTypes DEF TypeOK
    <2>2. \A k \in DOMAIN stdout' :
             \/ stdout'[k].kind = "Log"
             \/ k \in DOMAIN stdout /\ stdout'[k] = stdout[k]
      BY <2>1
    <2>3. \A k \in DOMAIN stdout' : Answer(k)' =>
             k \in DOMAIN stdout /\ Answer(k) /\ stdout'[k] = stdout[k]
      BY <2>1 DEF Answer
    <2>4. AnswersInTurn'
      BY <2>1, <2>2, <2>3 DEF AnswersInTurn, Over, Target
    <2>5. CommandsInTurn'
      BY <2>1 DEF CommandsInTurn, Over
    <2>6. ClocksInTurn'
      BY <2>1, <2>2 DEF ClocksInTurn, Over, Synchronised, Target
    <2>. QED BY <1>0, <1>1, <2>4, <2>5, <2>6
  <1>. QED BY <1>2, <1>3 DEF ReplyIgnoringErrors

LEMMA ReturnProtocol ==
    ASSUME TypeOK, Ownership, Protocol, TypeOK', ChangeEnvironment \/ EnergyPlusReturns,
           UNCHANGED hostVars
    PROVE  Protocol'
  <1>. USE DEF Protocol, At, contextVars, runVars, hostVars, valueVars, pipeVars,
               epVars, RunPeriodBegins, NextEnvironment, RunEnds, RunAborts
  <1>1. AnswersInTurn' /\ ExperimentShape'
    BY IdleStep DEF ChangeEnvironment, EnergyPlusReturns, Over
  <1>2. WorkerShape'
    <2>1. CASE ChangeEnvironment
      BY <2>1 DEF WorkerShape, ChangeEnvironment
    <2>2. CASE EnergyPlusReturns
      BY <2>2 DEF WorkerShape, EnergyPlusReturns, Retained, Dropped
    <2>. QED BY <2>1, <2>2
  <1>3. DirectoryShape'
    BY DEF DirectoryShape, NeverSimulated, ChangeEnvironment, EnergyPlusReturns, Retained,
           Dropped
  <1>4. CommandsInTurn'
    BY DEF CommandsInTurn, Over, ChangeEnvironment, EnergyPlusReturns
  <1>5. ClocksInTurn'
    <2>1. CASE ChangeEnvironment
      BY <2>1 DEF ClocksInTurn, Over, Synchronised, Target, ChangeEnvironment
    <2>2. CASE EnergyPlusReturns
      BY <2>2 DEF ClocksInTurn, Over, Synchronised, Target, EnergyPlusReturns, Retained,
                  Dropped
    <2>. QED BY <2>1, <2>2
  <1>. QED BY <1>1, <1>2, <1>3, <1>4, <1>5

\* The last message of a worker, and its exit or death.
LEMMA FarewellProtocol ==
    ASSUME TypeOK, Ownership, Protocol, TypeOK',
           SendTerminated \/ SendFailure \/ Exit \/ WorkerCrashes, UNCHANGED hostVars
    PROVE  Protocol'
  <1>. USE DEF Protocol, At, contextVars, runVars, epVars, hostVars, valueVars
  <1>0. ExperimentShape'
    BY DEF ExperimentShape, Acceptable, EffectiveStop
  <1>1. /\ Over' \/ WorkerCrashes
        /\ UNCHANGED <<stdin, importer, readySent, remaining, workerTime, workerStop>>
        /\ stopFlag' = stopFlag /\ phase' = phase /\ inStep' = inStep /\ simStep' = simStep
        /\ proc = "alive"
        /\ pc' \in {"failing", "exiting", "crashed"}
        /\ pc' = "failing" => pc = "terminating" /\ importer = "killed"
        /\ Over'
    BY DEF SendTerminated, SendFailure, Exit, WorkerCrashes, AfterFarewell,
           ReplyIgnoringErrors, Reply, ReplyFails, pipeVars, Over
  <1>2. WorkerShape'
    BY DEF WorkerShape, SendTerminated, SendFailure, Exit, WorkerCrashes, AfterFarewell,
           ReplyIgnoringErrors, Reply, ReplyFails, pipeVars
  <1>3. DirectoryShape'
    BY DEF DirectoryShape, NeverSimulated, WorkerShape, SendTerminated, SendFailure, Exit, WorkerCrashes,
           AfterFarewell, Dropped, ReplyIgnoringErrors, Reply, ReplyFails, pipeVars
  <1>4. CommandsInTurn'
    <2>1. CASE call = "sendInitialize"
      <3>1. stdout' = <<>> /\ pc' \in {"exiting", "crashed"}
        BY <2>1 DEF CommandsInTurn, SendTerminated, SendFailure, Exit, WorkerCrashes,
           ReplyIgnoringErrors, Reply, ReplyFails, pipeVars
      <3>2. pc' = "exiting" => importer = "killed"
        BY <1>1, <2>1, <3>1 DEF CommandsInTurn, SendTerminated, SendFailure, Exit,
           WorkerCrashes
      <3>. QED BY <1>1, <2>1, <3>1, <3>2 DEF CommandsInTurn
    <2>2. CASE call # "sendInitialize"
      <3>1. call = "awaitReady" /\ stdin # <<>> =>
               stdin[1].kind = "Initialize" /\ pc' = "crashed"
        BY DEF CommandsInTurn, SendTerminated, SendFailure, Exit, WorkerCrashes
      <3>. QED BY <1>1, <2>2, <3>1 DEF CommandsInTurn
    <2>. QED BY <2>1, <2>2
  <1>5. CASE UNCHANGED stdout
    <2>1. \A k \in DOMAIN stdout' : k \in DOMAIN stdout /\ (Answer(k)' => Answer(k))
      BY <1>1, <1>5 DEF Answer, SendTerminated, SendFailure, Exit, WorkerCrashes
    <2>2. \A k \in DOMAIN stdout' : stdout[k].kind = "Terminated" =>
             k = Len(stdout) /\ pc' \in {"exiting", "crashed"}
      BY <1>1, <1>5 DEF AnswersInTurn
    <2>3. call = "wait" => stdout = <<>> /\ (proc' = "alive" => pc' = "exiting")
      BY <1>1 DEF AnswersInTurn, SendTerminated, SendFailure, Exit, WorkerCrashes
    <2>4. Target' = Target
      BY DEF Target
    <2>5. AnswersInTurn'
      BY <1>1, <1>5, <2>1, <2>2, <2>3, <2>4 DEF AnswersInTurn
    <2>6. ClocksInTurn'
      BY <1>1, <1>5, <2>4 DEF ClocksInTurn, Synchronised
    <2>. QED BY <1>0, <1>2, <1>3, <1>4, <2>5, <2>6
  <1>6. CASE ~UNCHANGED stdout
    <2>1. PICK e \in Responses : e.kind \in {"Terminated", "Error"} /\ Reply(e)
      <3>1. /\ [kind |-> "Terminated"] \in Responses /\ [kind |-> "Error"] \in Responses
        BY ResponseTypes
      <3>. QED BY <1>6, <3>1 DEF SendTerminated, SendFailure, Exit, WorkerCrashes,
               ReplyIgnoringErrors, ReplyFails, pipeVars
    <2>2. /\ Len(stdout') \in DOMAIN stdout' /\ stdout'[Len(stdout')] = e
          /\ \A k \in DOMAIN stdout' :
                \/ k = Len(stdout')
                \/ k \in DOMAIN stdout /\ k # Len(stdout') /\ stdout'[k] = stdout[k]
          /\ UNCHANGED <<stdin, proc, importer>>
      BY <2>1, MessageWritten DEF TypeOK
    <2>3. pc' = "exiting" /\ pc \in {"terminating", "failing"}
      BY <1>6 DEF SendTerminated, AfterFarewell, SendFailure, Exit, WorkerCrashes,
                  ReplyFails, pipeVars
    <2>4. \A k \in DOMAIN stdout' : Answer(k)' =>
             k \in DOMAIN stdout /\ Answer(k) /\ stdout'[k] = stdout[k]
      BY <2>1, <2>2, <2>3 DEF Answer
    <2>5. \A k \in DOMAIN stdout' : stdout'[k].kind = "Terminated" => k = Len(stdout')
      BY <2>2, <2>3 DEF AnswersInTurn
    <2>6. call # "wait"
      BY <1>1, <2>3 DEF AnswersInTurn
    <2>7. \A k \in DOMAIN stdout' : stdout'[k].kind \in {"Ready", "StepComplete"} =>
             k \in DOMAIN stdout /\ stdout'[k] = stdout[k] /\ Answer(k)'
      BY <2>1, <2>2 DEF Answer
    <2>8. Target' = Target
      BY DEF Target
    <2>9. AnswersInTurn'
      BY <1>1, <2>3, <2>4, <2>5, <2>6, <2>7, <2>8 DEF AnswersInTurn
    <2>10. ClocksInTurn'
      BY <1>1, <2>7, <2>8 DEF ClocksInTurn, Synchronised
    <2>. QED BY <1>0, <1>2, <1>3, <1>4, <2>9, <2>10
  <1>. QED BY <1>5, <1>6

\* When the importing process dies, so does the call in progress.
LEMMA KillProtocol ==
    ASSUME TypeOK, Ownership, Protocol, TypeOK', ImporterKilled
    PROVE  Protocol'
  <1>. USE DEF Protocol, ImporterKilled, hostVars, valueVars, workerVars, contextVars,
               runVars, epVars
  <1>1. WorkerShape' /\ DirectoryShape'
    BY WorkerShapeKept
  <1>2. ExperimentShape'
    BY DEF ExperimentShape, Acceptable, EffectiveStop
  <1>3. AnswersInTurn'
    BY DEF AnswersInTurn, Answer, Over, Target
  <1>4. CommandsInTurn'
    <2>1. Len(<<>>) = 0
      OBVIOUS
    <2>. QED BY <2>1 DEF CommandsInTurn, Over
  <1>5. ClocksInTurn'
    BY DEF ClocksInTurn, Over, Synchronised, Target
  <1>. QED BY <1>1, <1>2, <1>3, <1>4, <1>5

-----------------------------------------------------------------------------
LEMMA NextProtocol ==
    TypeOK /\ Ownership /\ Protocol /\ [Next]_vars => Protocol'
  <1>. SUFFICES ASSUME TypeOK, Ownership, Protocol, [Next]_vars
                PROVE  Protocol'
    OBVIOUS
  <1>1. TypeOK' /\ Ownership'
    BY NextInvariant
  <1>2. CASE UNCHANGED vars
    <2>. USE <1>2 DEF vars, hostVars, valueVars, pipeVars, workerVars, contextVars,
                     runVars, epVars, Protocol
    <2>1. WorkerShape' /\ DirectoryShape'
      BY WorkerShapeKept
    <2>2. ExperimentShape'
      BY DEF ExperimentShape, Acceptable, EffectiveStop
    <2>3. AnswersInTurn'
      BY DEF AnswersInTurn, Answer, Over, Target
    <2>4. CommandsInTurn'
      BY DEF CommandsInTurn, Over
    <2>5. ClocksInTurn'
      BY DEF ClocksInTurn, Over, Synchronised, Target
    <2>. QED BY <2>1, <2>2, <2>3, <2>4, <2>5
  <1>3. CASE HostCalls
    BY <1>1, <1>3, SpawnProtocol, ImporterCallsProtocol DEF HostCalls
  <1>4. CASE HostReturns
    BY <1>1, <1>4, ReapProtocol, HostProceedsProtocol DEF HostReturns
  <1>5. CASE WorkerRuns
    BY <1>1, <1>5, BootProtocol, BeginProtocol, AnswerProtocol, StepTakenProtocol,
       ShutdownProtocol, EndProtocol, LogProtocol, ReturnProtocol, FarewellProtocol
    DEF WorkerRuns, WorkerStep
  <1>6. CASE WorkerCrashes
    BY <1>1, <1>6, FarewellProtocol DEF WorkerCrashes
  <1>7. CASE ImporterKilled
    BY <1>1, <1>7, KillProtocol
  <1>. QED BY <1>2, <1>3, <1>4, <1>5, <1>6, <1>7 DEF Next

\* What the pipes hold and what the two processes have counted fit together at
\* every point of every exchange, also when a process dies in the middle of one.
THEOREM ProtocolHolds == Spec => []Protocol
  <1>1. Init => TypeOK /\ Ownership /\ Protocol
    BY InitInvariant, InitProtocol
  <1>2. TypeOK /\ Ownership /\ Protocol /\ [Next]_vars => (TypeOK /\ Ownership /\ Protocol)'
    BY NextInvariant, NextProtocol
  <1>. QED BY <1>1, <1>2, PTL DEF Spec

\* The instance, the worker and the simulation agree what time it is whenever the
\* importer can ask for a step.
THEOREM ClocksAgree == Spec => []ClockAgreement
  <1>1. Protocol => ClockAgreement
    BY DEF Protocol, ClocksInTurn, Synchronised, ClockAgreement, Idle
  <1>. QED BY <1>1, ProtocolHolds, PTL

\* No call ever takes the answer to an earlier one.
THEOREM AnswersAreFresh == Spec => []NoStaleAnswer
  <1>1. Protocol => NoStaleAnswer
    BY DEF Protocol, AnswersInTurn, Answer, Target, NoStaleAnswer
  <1>. QED BY <1>1, ProtocolHolds, PTL

\* A worker that may yet read never has two commands before it.
THEOREM CommandsComeSingly == Spec => []CommandsNeverCoalesce
  <1>1. Protocol => CommandsNeverCoalesce
    BY DEF Protocol, CommandsInTurn, Over, MayRead, CommandsNeverCoalesce
  <1>. QED BY <1>1, ProtocolHolds, PTL

\* stop_worker waits only for a worker that has written its last message.
THEOREM StopDrains == Spec => []NothingLeftToDrain
  <1>1. Protocol => NothingLeftToDrain
    BY DEF Protocol, AnswersInTurn, NothingLeftToDrain
  <1>. QED BY <1>1, ProtocolHolds, PTL

\* On every path on which the worker is not killed, its temporary output directory is
\* kept only if keepOutputs was set, and removed only if it was not or if run() failed
\* before EnergyPlus did anything.
THEOREM OutputsKept == Spec => []OutputsAsPromised
  <1>1. Protocol => OutputsAsPromised
    BY DEF Protocol, DirectoryShape, OutputsAsPromised
  <1>. QED BY <1>1, ProtocolHolds, PTL

-----------------------------------------------------------------------------
(* The checks of the host against those of the worker.                     *)

LEMMA ProductMonotone ==
    ASSUME NEW a \in Int, NEW b \in Int, NEW z \in Nat, a <= b
    PROVE  a * z <= b * z
  <1>1. PICK d \in Nat : b = a + d
    <2>1. b - a \in Nat /\ b = a + (b - a)
      OBVIOUS
    <2>. QED BY <2>1
  <1>2. b * z = a * z + d * z
    BY <1>1
  <1>3. d * z \in Nat /\ a * z \in Int
    BY <1>1
  <1>. QED BY <1>2, <1>3

\* A step within a stop time within the RunPeriod is within the RunPeriod.
LEMMA StopMonotone ==
    ASSUME NEW point \in Points, NEW h \in Sizes, NEW stop \in Int,
           NEW end \in StopTimes, stop <= end, WithinStop(point, h, stop)
    PROVE  WithinStop(point, h, end)
  <1>. USE SpecialFloats, ZoneStepAssumption, PipesAssumption
  <1>1. CASE NaN \in {point, h} \/ h = Infinity
    BY <1>1 DEF WithinStop
  <1>2. CASE NaN \notin {point, h} /\ h # Infinity
    <2>1. h \in Int /\ stop \notin {NaN, Infinity} /\ end \in Int /\ end \notin {NaN, Infinity}
      BY <1>2
    <2>2. point # Infinity /\ point \in Int
      BY <1>2
    <2>3. (point + h - stop) * ZoneStep <= Magnitude(h) * Eps
      BY <1>2, <2>1, <2>2 DEF WithinStop
    <2>4. (point + h - end) * ZoneStep <= (point + h - stop) * ZoneStep
      BY <2>1, <2>2, ProductMonotone
    <2>5. Magnitude(h) * Eps \in Int
      BY <2>1, ToleranceAssumption DEF Magnitude
    <2>6. (point + h - end) * ZoneStep <= Magnitude(h) * Eps
      <3>1. /\ (point + h - end) * ZoneStep \in Int
            /\ (point + h - stop) * ZoneStep \in Int
        BY <2>1, <2>2
      <3>. QED BY <2>3, <2>4, <2>5, <3>1
    <2>. QED BY <1>2, <2>1, <2>2, <2>6 DEF WithinStop
  <1>. QED BY <1>1, <1>2

\* The worker refuses nothing the host has let through, unless its stop time is a
\* NaN: proved for as long as the configuration stays what it was.
THEOREM ChecksSuffice == "config" \notin Faults => (Spec => []HostChecksSuffice)
  <1>. SUFFICES ASSUME "config" \notin Faults PROVE Spec => []HostChecksSuffice
    OBVIOUS
  <1>1. Init => HostChecksSuffice
    BY DEF Init, WorkerInit, HostChecksSuffice
  <1>2. TypeOK /\ Ownership /\ Protocol /\ HostChecksSuffice /\ [Next]_vars => HostChecksSuffice'
    <2>. SUFFICES ASSUME TypeOK, Ownership, Protocol, HostChecksSuffice, [Next]_vars,
                         pc' = "reject"
                  PROVE  experimentStop' = NaN
      BY DEF HostChecksSuffice
    <2>1. CASE pc = "reject"
      <3>1. experimentStop = NaN /\ call \in {"writeStep", "awaitStep"} /\ proc = "alive"
        BY <2>1 DEF HostChecksSuffice, Protocol, CommandsInTurn, WorkerShape, Over, TypeOK,
                    PipesTypeOK
      <3>2. experimentStop' = experimentStop
        <4>1. CASE UNCHANGED hostVars
          BY <4>1 DEF hostVars, valueVars
        <4>2. CASE HostReturns
          BY <3>1, <4>2, <2>1
          DEF HostReturns, WaitForWorker, Reap, HostProceeds, SendInitialize, SkipLog,
              ReceiveReady, InitializationFails, SendStep, FinishWrite,
              ReceiveStepComplete, StepDiscarded, StepFails, SendShutdown, Drain,
              DrainAtEnd, Busy, Continue, valueVars, hostVars
        <4>3. CASE HostCalls
          <5>1. call = "idle"
            BY <4>3, <2>1
            DEF HostCalls, ExitInitializationMode, WorkerFresh, ImporterCalls, Callable,
                SpawnWorker, Instantiate, SetupExperiment, EnterInitializationMode, SetReal,
                SetBoolean, SetString, RejectArgument, ExitInitializationWrongly, SpawnFails,
                RefuseStep, CallFails, DoStep, FinishWithoutWorker, StopWorker, Ownership
          <5>. QED BY <3>1, <5>1
        <4>. QED BY <4>1, <4>2, <4>3
                 DEF Next, WorkerRuns, WorkerCrashes, ImporterKilled, vars
      <3>. QED BY <3>1, <3>2
    <2>2. CASE pc # "reject"
      <3>1. RejectCommand /\ UNCHANGED hostVars
        <4>1. ~HostCalls /\ ~HostReturns /\ ~WorkerCrashes /\ ~ImporterKilled /\ ~UNCHANGED vars
          BY <2>2 DEF HostCalls, ExitInitializationMode, HostReturns, WaitForWorker,
             WorkerFresh, WorkerCrashes, ImporterKilled, workerVars, vars
        <4>. QED BY <2>2, <4>1
             DEF Next, WorkerRuns, WorkerStep, Boot, Initialized, BeginWarmupTimestep,
                 ReportHandleError, BeginRunTimestep, SendReady, SendReadyFails, AcceptStep,
                 SendRejection, ReceiveShutdown, EndZoneTimestep, SendStepComplete, EmitLog,
                 ChangeEnvironment, EnergyPlusReturns, SendTerminated, AfterFarewell,
                 SendFailure, Exit, Simulate, ApplyInputs, StopSimulation
      <3>2. stdin # <<>> /\ Head(stdin) = stdin[1] /\ ~Over /\ stdin[1].kind # "Shutdown"
        <4>1. stdin # <<>> /\ Head(stdin) = stdin[1]
          BY <3>1, ReadFacts DEF RejectCommand, TypeOK, PipesTypeOK
        <4>. QED BY <3>1, <4>1 DEF RejectCommand, At, Over, Protocol, WorkerShape
      <3>3. call \in {"writeStep", "awaitStep"}
        BY <3>1, <3>2 DEF Protocol, CommandsInTurn, RejectCommand, At
      <3>4. /\ stdin[1].kind = "Step" /\ stdin[1].point = request.point
            /\ stdin[1].size = request.size /\ workerTime = currentTime
        BY <3>2, <3>3 DEF Protocol, ClocksInTurn
      <3>5. ~StepAccepted(stdin[1])
        BY <3>1, <3>2, <3>4 DEF RejectCommand
      <3>6. Acceptable(request.point, request.size)
        BY <3>3 DEF Protocol, ExperimentShape
      <3>0. workerStop = StopTime /\ modelStop = StopTime
        BY PipesAssumption DEF TypeOK, HostTypeOK, WorkerTypeOK
      <3>7. ~WithinStop(request.point, request.size, StopTime)
        BY <3>0, <3>4, <3>5, <3>6 DEF StepAccepted, Acceptable
      <3>8. request.point \in Points /\ request.size \in Sizes
        <4>1. Head(stdin) \in Commands
          BY <3>2, HeadCommand DEF TypeOK
        <4>. QED BY <3>2, <3>4, <4>1, StepCommand
      <3>9. experimentStop \in Int => FALSE
        <4>. SUFFICES ASSUME experimentStop \in Int PROVE FALSE
          OBVIOUS
        <4>1. EffectiveStop = experimentStop
          BY StopsAssumption DEF EffectiveStop
        <4>2. experimentStop <= StopTime
          <5>1. Attainable(experimentStop)
            BY <3>3 DEF Ownership, Protocol, ExperimentShape
          <5>2. StopTimes = {StopTime} /\ StopTime \in Int
            BY PipesAssumption, ZoneStepAssumption
          <5>. QED BY <5>1, <5>2, SpecialFloats, StopsAssumption
                   DEF Attainable, BeyondRunPeriod
        <4>. QED BY <3>6, <3>7, <3>8, <4>1, <4>2, StopMonotone, ZoneStepAssumption
                 DEF Acceptable
      <3>10. experimentStop # None
        BY <3>0, <3>6, <3>7 DEF Acceptable, EffectiveStop
      <3>11. experimentStop = NaN
        BY <3>9, <3>10, StopsAssumption DEF TypeOK, HostTypeOK
      <3>. QED BY <3>1, <3>11 DEF hostVars, valueVars
    <2>. QED BY <2>1, <2>2
  <1>. QED BY <1>1, <1>2, TypeCorrect, OwnershipHolds, ProtocolHolds, PTL DEF Spec
=============================================================================
