-------------------------- MODULE WorkerRunsProofs --------------------------
(***************************************************************************)
(* Proof that a worker whose run does anything RunContract allows is the   *)
(* worker of WorkerService, for any other workers, jobs, error codes and   *)
(* retry budget.                                                           *)
(***************************************************************************)
EXTENDS WorkerRuns, WorkerServiceProofs

\* Me and its run are in step: WorkerService's position "sent" is a run that has
\* delivered, and Me never comes to a call while an earlier run is still going on.
InStep ==
  /\ \A s \in {"run", "sent"} : stage = s <=> pc[Me] = s
  /\ pc[Me] \notin {"run", "sent", "down", "exited"} => stage = "idle"

\* A position for every worker, and what the steps of Me need of the types.
PositionsFit == Me \in Workers /\ pc \in [Workers -> {"poll", "notify", "down", "exited"} \union Working]

StepFits == PositionsFit /\ InStep

\* Everybody waits for work, and no run has begun.
LEMMA StepFitsInit == RunsInit => StepFits
  BY MeAssumption DEF RunsInit, Init, Run!Init, StepFits, PositionsFit, InStep, Working

\* A worker's statement moves that worker.
LEMMA OnlyItMoves ==
  ASSUME PositionsFit, NEW w \in Workers, Step(w) \/ RunRaises(w) \/ Crash(w) \/ Restart(w)
  PROVE  PositionsFit' /\ \A v \in Workers \ {w} : pc'[v] = pc[v]
  BY DEF PositionsFit, Working, Step, Dequeue, FindsNothing, AfterReturn, Record, MarkStarted,
         MediaReachesChat, RunCompletes, RunFails, RunReturns, MarkCompleted, Retry, MarkFailed,
         NotifyFailed, RunRaises, Crash, Dies, Restart

\* A call is mark_started; the runner of Me is free for it.
LEMMA CallsFit == ASSUME StepFits, Calls PROVE StepFits' /\ MarkStarted(Me)
<1>1. pc' = [pc EXCEPT ![Me] = "run"] /\ stage' = "run" /\ MarkStarted(Me)
  BY DEF Calls, MarkStarted, Run!Start
<1> QED
  BY <1>1 DEF StepFits, PositionsFit, InStep, Working

\* A delivery within the run is MediaReachesChat.
LEMMA DeliveryFits == ASSUME StepFits, RunDelivers PROVE StepFits' /\ MediaReachesChat(Me)
<1>1. stage = "run" /\ stage' = "sent" /\ pc' = [pc EXCEPT ![Me] = "sent"]
  BY DEF RunDelivers, Run!Deliver
<1>2. pc[Me] = "run"
  BY <1>1 DEF StepFits, InStep
<1>3. MediaReachesChat(Me)
  BY <1>2 DEF RunDelivers, MediaReachesChat
<1> QED
  BY <1>1, <1>3 DEF StepFits, PositionsFit, InStep, Working

\* A run completes only after a delivery, and fails after one only in the upload:
\* what process_one takes is what WorkerService lets a run return there.
LEMMA ReturnFits ==
  ASSUME StepFits, RunIsOver
  PROVE  StepFits' /\ (RunCompletes(Me) \/ RunFails(Me))
<1>1. stage' = "idle" /\ pc' = [pc EXCEPT ![Me] = "settle"] /\ RunReturns(Me, returned')
  BY DEF RunIsOver, Run!Complete, Run!Fail, RunReturns, Taken
<1>2. RunCompletes(Me) \/ RunFails(Me)
  <2>1. CASE Run!Complete
    <3>1. pc[Me] = "sent" /\ returned' = "ok"
      BY <2>1 DEF StepFits, InStep, Run!Complete
    <3> QED
      BY <1>1, <3>1 DEF RunCompletes
  <2>2. CASE stage = "run" /\ returned' \in RunErrors
    <3>1. pc[Me] = "run"
      BY <2>2 DEF StepFits, InStep
    <3> QED
      BY <1>1, <2>2, <3>1 DEF RunFails
  <2>3. CASE stage = "sent" /\ returned' = "TELEGRAM_UPLOAD_FAILED"
    <3>1. pc[Me] = "sent"
      BY <2>3 DEF StepFits, InStep
    <3> QED
      BY <1>1, <2>3, <3>1, MeAssumption DEF RunFails
  <2> QED
    BY <2>1, <2>2, <2>3 DEF RunIsOver, Run!Fail
<1> QED
  BY <1>1, <1>2 DEF StepFits, PositionsFit, InStep, Working

\* An exception leaves a run only before it delivers, and ends the process.
LEMMA EscapeFits == ASSUME StepFits, RunEscapes PROVE StepFits' /\ RunRaises(Me)
<1>1. stage = "run" /\ stage' = "idle" /\ Dies(Me)
  BY DEF RunEscapes, Run!Raise
<1>2. RunRaises(Me)
  BY <1>1 DEF RunEscapes, RunRaises, StepFits, InStep
<1>3. PositionsFit' /\ pc'[Me] \in {"down", "exited"}
  BY <1>1 DEF Dies, StepFits, PositionsFit, Working
<1> QED
  BY <1>1, <1>2, <1>3 DEF StepFits, InStep

\* A death takes the run along.
LEMMA DeathFits == ASSUME StepFits, DiesWithRun PROVE StepFits' /\ Crash(Me)
<1>1. stage' = "dead" /\ Crash(Me) /\ Dies(Me)
  BY DEF DiesWithRun, Run!Crash, Crash
<1>2. PositionsFit' /\ pc'[Me] \in {"down", "exited"}
  BY <1>1 DEF Dies, StepFits, PositionsFit, Working
<1> QED
  BY <1>1, <1>2 DEF StepFits, InStep

\* The next process begins without a run.
LEMMA RestartFits == ASSUME StepFits, StartsAfresh PROVE StepFits' /\ Restart(Me)
<1>1. stage' = "idle" /\ Restart(Me) /\ pc' = [pc EXCEPT ![Me] = "poll"]
  BY DEF StartsAfresh, Restart
<1> QED
  BY <1>1 DEF StepFits, PositionsFit, InStep, Working

\* Its other statements begin and end where no run is going on.
LEMMA OwnStepFits ==
  ASSUME StepFits, OwnStep
  PROVE  StepFits' /\ Step(Me)
<1>1. Step(Me) /\ stage' = stage
  BY DEF OwnStep, Step, runVars
<1>2. PositionsFit'
  BY <1>1, OnlyItMoves DEF StepFits, PositionsFit
<1>3. /\ pc[Me] \notin {"run", "sent", "down", "exited"}
      /\ pc'[Me] \notin {"run", "sent"}
  BY DEF OwnStep, StepFits, PositionsFit, Dequeue, FindsNothing, AfterReturn, Record,
         MarkCompleted, Retry, MarkFailed, NotifyFailed
<1> QED
  BY <1>1, <1>2, <1>3 DEF StepFits, InStep

\* Another worker leaves Me and its run where they are.
LEMMA OthersStepFits ==
  ASSUME StepFits, NEW w \in Workers \ {Me}, UNCHANGED runVars,
         Step(w) \/ RunRaises(w) \/ Crash(w) \/ Restart(w)
  PROVE  StepFits'
<1>1. PositionsFit' /\ pc'[Me] = pc[Me]
  BY OnlyItMoves, MeAssumption DEF StepFits
<1>2. UNCHANGED stage
  BY DEF runVars
<1> QED
  BY <1>1, <1>2 DEF StepFits, InStep

\* So does the bot.
LEMMA EnqueueFits ==
  ASSUME StepFits, NEW j \in Jobs, Enqueue(j), UNCHANGED runVars
  PROVE  StepFits'
<1>1. UNCHANGED <<pc, stage>>
  BY DEF Enqueue, runVars
<1> QED
  BY <1>1 DEF StepFits, PositionsFit, InStep

\* Every step keeps the two in step and is a step of WorkerService.
LEMMA RunsStepFits ==
  ASSUME StepFits, [RunsNext]_allVars
  PROVE  StepFits' /\ [Next]_vars
<1>1. CASE UNCHANGED allVars
  <2>1. UNCHANGED <<pc, stage>> /\ UNCHANGED vars
    BY <1>1 DEF allVars, vars, runVars
  <2> QED
    BY <2>1 DEF StepFits, PositionsFit, InStep
<1>2. Me \in Workers
  BY MeAssumption
<1>3. CASE MyStep
  <2>1. CASE Calls \/ RunDelivers \/ RunIsOver
    BY <1>2, <2>1, CallsFit, DeliveryFits, ReturnFits DEF Next, Step
  <2>2. CASE OwnStep
    BY <1>2, <2>2, OwnStepFits DEF Next
  <2> QED
    BY <1>3, <2>1, <2>2 DEF MyStep
<1>4. CASE RunEscapes \/ DiesWithRun \/ StartsAfresh
  BY <1>2, <1>4, EscapeFits, DeathFits, RestartFits DEF Next
<1>5. ASSUME NEW w \in Workers \ {Me},
             OthersStep(w) \/ ((RunRaises(w) \/ Crash(w) \/ Restart(w)) /\ UNCHANGED runVars)
      PROVE  StepFits' /\ Next
  <2>1. UNCHANGED runVars /\ (Step(w) \/ RunRaises(w) \/ Crash(w) \/ Restart(w))
    BY <1>5 DEF OthersStep
  <2> QED
    BY <2>1, OthersStepFits DEF Next
<1>6. ASSUME NEW j \in Jobs, Enqueue(j), UNCHANGED runVars
      PROVE  StepFits' /\ Next
  BY <1>6, EnqueueFits DEF Next
<1> QED
  BY <1>1, <1>3, <1>4, <1>5, <1>6 DEF RunsNext

\* Me is never at a call while a run of it goes on, nor is a run ever on its own.
THEOREM RunsStayInStep == RunsSpec => []InStep
<1>1. StepFits => InStep
  BY DEF StepFits
<1>2. StepFits /\ [RunsNext]_allVars => StepFits'
  BY RunsStepFits
<1> QED
  BY <1>1, <1>2, StepFitsInit, PTL DEF RunsSpec

\* WorkerService leaves out nothing that a run may do within its contract; with
\* ContractIsImplemented and LifecycleIsImplemented, from the engines to the chat.
THEOREM ServiceIsImplemented == RunsSpec => ImplementsService
<1>1. StepFits /\ [RunsNext]_allVars => StepFits' /\ [Next]_vars
  BY RunsStepFits
<1>2. RunsInit => Init
  BY DEF RunsInit
<1> QED
  BY <1>1, <1>2, StepFitsInit, PTL DEF RunsSpec, ImplementsService, Spec

\* So the properties of jobs, rows and chats hold with the runs played out, whatever
\* they do within their contract: one owner, true rows, the retry budget.
THEOREM RunsKeepJobsSafe ==
  RunsSpec => [](TypeOK /\ Custody /\ RowMatchesChat /\ RetryBudget)
<1>1. RunsSpec => Spec
  BY ServiceIsImplemented DEF ImplementsService
<1> QED
  BY <1>1, TypeCorrect, OneOwner, RowsTellTheTruth, BudgetIsKept, PTL

\* And the end of the chain: with such runs, workers and queue are the lifecycle
\* that a chat sees, and settled jobs are left alone.
THEOREM RunsImplementLifecycle == RunsSpec => ImplementsLifecycle /\ SettledIsFinal
<1>1. RunsSpec => Spec
  BY ServiceIsImplemented DEF ImplementsService
<1> QED
  BY <1>1, LifecycleIsImplemented, SettledStaysSettled
=============================================================================
