----------------------------- MODULE WorkerRuns -----------------------------
(***************************************************************************)
(* A worker and the runner it calls.  WorkerService sees runner.run from   *)
(* outside and JobRunner the worker; each assumes something of the other.  *)
(* Here one worker, Me, calls a run that may do all that RunContract       *)
(* allows, and takes what comes back as process_one does, which cannot     *)
(* know whether media had been sent.  The others are as in WorkerService,  *)
(* which the whole implements: nothing a run may do is left out there.     *)
(***************************************************************************)
EXTENDS WorkerService

CONSTANT Me   (* the worker whose runs are played out *)

ASSUME MeAssumption == Me \in Workers /\ "TELEGRAM_UPLOAD_FAILED" \in RunErrors

VARIABLES
  stage,     (* how far the run of Me is: the variables of RunContract *)
  returned

Run == INSTANCE RunContract

runVars == <<stage, returned>>
allVars == <<vars, runVars>>

RunsInit == Init /\ Run!Init

-----------------------------------------------------------------------------

\* self.runner.run(job), after mark_started.
Calls == MarkStarted(Me) /\ Run!Start

\* The run has Telegram accept media; process_one learns nothing of it.
RunDelivers ==
  /\ Run!Deliver
  /\ uploads' = [uploads EXCEPT ![job[Me]] = @ + 1]
  /\ pc' = [pc EXCEPT ![Me] = "sent"]
  /\ UNCHANGED <<accepted, queue, rowVars, localVars, runs, notices, abandoned, boundVars>>

\* Mutant: the status of the result is not looked at.
TakenAsDone(value) == "ok"

\* What process_one reads in a result: completed with media, or its error.
Taken(value) == value

\* result = self.runner.run(job): the run is over.
RunIsOver == (Run!Complete \/ Run!Fail) /\ RunReturns(Me, Taken(returned'))

\* An exception leaves run, and process_one, and the process.
RunEscapes ==
  /\ escapes < MaxEscapes
  /\ escapes' = escapes + 1
  /\ UNCHANGED crashes
  /\ Run!Raise /\ Dies(Me)

\* The process dies, its run with it.
DiesWithRun == Crash(Me) /\ Run!Crash

\* The next process has no run yet.
StartsAfresh == Restart(Me) /\ stage' = "idle" /\ returned' = "none"

\* The statements of Me that are not about a run.
OwnStep ==
  /\ \/ Dequeue(Me) \/ FindsNothing(Me) \/ Record(Me)
     \/ MarkCompleted(Me) \/ Retry(Me) \/ MarkFailed(Me) \/ NotifyFailed(Me)
  /\ UNCHANGED runVars

\* The statements of Me, the run's among them.
MyStep == Calls \/ RunDelivers \/ RunIsOver \/ OwnStep

\* The other workers.
OthersStep(w) == Step(w) /\ UNCHANGED runVars

RunsNext ==
  \/ MyStep \/ RunEscapes \/ DiesWithRun \/ StartsAfresh
  \/ \E w \in Workers \ {Me} :
       OthersStep(w) \/ ((RunRaises(w) \/ Crash(w) \/ Restart(w)) /\ UNCHANGED runVars)
  \/ \E j \in Jobs : Enqueue(j) /\ UNCHANGED runVars

RunsSpec == RunsInit /\ [][RunsNext]_allVars

\* Each worker process keeps executing (its engines and HTTP calls return), and
\* Docker restarts a loop worker that died.  Nothing makes a process crash.
RunsFairness ==
  /\ WF_allVars(MyStep) /\ WF_allVars(StartsAfresh)
  /\ \A w \in Workers \ {Me} :
       WF_allVars(OthersStep(w)) /\ WF_allVars(Restart(w) /\ UNCHANGED runVars)

FairRunsSpec == RunsSpec /\ RunsFairness

-----------------------------------------------------------------------------
(* Properties                                                              *)

\* Whatever a run does within its contract, process_one with that run is the
\* worker of WorkerService, so all that holds there holds here.
ImplementsService == Spec
=============================================================================
