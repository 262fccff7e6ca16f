---------------------------- MODULE WorkerService ----------------------------
(***************************************************************************)
(* The download queue and the worker processes that drain it.              *)
(*                                                                         *)
(* The bot pushes a job on a Redis list and forgets it; a worker pops it   *)
(* (the pop removes it), records it in Postgres, runs it up to MaxAttempts *)
(* times and writes its outcome.  A worker is one process executing        *)
(* WorkerService.process_one in a loop (run_worker) or once (process-once, *)
(* the set OneShot).  One action per statement that changes shared state,  *)
(* so that workers interleave between any two of them and a process may    *)
(* die between any two of them.                                            *)
(*                                                                         *)
(* runner.run is seen here from outside: it may put media in the chat, and *)
(* it returns a completed result, returns an error, or raises.  A call to  *)
(* Redis or Postgres that raises ends the process as well: it is a Crash   *)
(* before or after the call's effect.                                      *)
(***************************************************************************)
EXTENDS Naturals, Sequences, SequencesExt, FiniteSets, DownloadErrors

CONSTANTS
  Jobs,         (* the jobs the bot may enqueue; ids are uuid4, hence unique *)
  Workers,      (* the worker processes                                      *)
  OneShot,      (* those started with process-once, which exit after one job *)
  MaxAttempts,  (* RetryPolicy.max_attempts                                  *)
  RunErrors,    (* the error codes runner.run may return                     *)
  MaxCrashes,   (* bound: processes killed from outside                      *)
  MaxEscapes,   (* bound: exceptions that leave runner.run                   *)
  NoJob         (* "not working on any job"                                  *)

ASSUME WorkerAssumption ==
  /\ OneShot \subseteq Workers
  /\ MaxAttempts \in Nat \ {0}
  /\ RunErrors \subseteq ErrorCodes
  /\ MaxCrashes \in Nat
  /\ MaxEscapes \in Nat
  /\ NoJob \notin Jobs

VARIABLES
  accepted,    (* jobs the bot has enqueued                                *)
  queue,       (* the Redis list: LPUSH appends here, RPOP takes the head  *)
  status,      (* status[j]: the download_jobs row of j, "none" if no row  *)
  errorCode,   (* errorCode[j]: its error_code column                      *)
  pc,          (* pc[w]: the statement of process_one worker w is at       *)
  job,         (* job[w]: the job w popped, or NoJob                       *)
  attempt,     (* attempt[w]: the local variable attempt                   *)
  result,      (* result[w]: the local result: "ok", an error code, "none" *)
  runs,        (* history: runs[j] counts the calls of runner.run for j    *)
  uploads,     (* history: the runs in which media of j reached the chat   *)
  notices,     (* history: failure notifications the chat received for j   *)
  abandoned,   (* history: jobs whose worker died holding them             *)
  crashes,     (* counts Crash, at most MaxCrashes                         *)
  escapes      (* counts RunRaises, at most MaxEscapes                     *)

rowVars == <<status, errorCode>>
localVars == <<job, attempt, result>>
historyVars == <<runs, uploads, notices, abandoned>>
boundVars == <<crashes, escapes>>
vars == <<accepted, queue, rowVars, pc, localVars, historyVars, boundVars>>

Terminal == {"completed", "failed"}

\* The statements at which a worker holds a job whose outcome is not yet written.
Working == {"record", "start", "run", "sent", "settle"}

Queued == ToSet(queue)

Held(j) == \E w \in Workers : pc[w] \in Working /\ job[w] = j

Init ==
  /\ accepted = {}
  /\ queue = << >>
  /\ status = [j \in Jobs |-> "none"]
  /\ errorCode = [j \in Jobs |-> "none"]
  /\ pc = [w \in Workers |-> "poll"]
  /\ job = [w \in Workers |-> NoJob]
  /\ attempt = [w \in Workers |-> 1]
  /\ result = [w \in Workers |-> "none"]
  /\ runs = [j \in Jobs |-> 0]
  /\ uploads = [j \in Jobs |-> 0]
  /\ notices = [j \in Jobs |-> 0]
  /\ abandoned = {}
  /\ crashes = 0
  /\ escapes = 0

-----------------------------------------------------------------------------
(* The bot: build_public_download_job and queue.enqueue.  No row is written. *)

Enqueue(j) ==
  /\ j \notin accepted
  /\ accepted' = accepted \union {j}
  /\ queue' = Append(queue, j)
  /\ UNCHANGED <<rowVars, pc, localVars, historyVars, boundVars>>

-----------------------------------------------------------------------------
(* process_one                                                             *)

\* Where a worker goes when process_one returns.
AfterReturn(w) == IF w \in OneShot THEN "exited" ELSE "poll"

\* Mutant: the payload is read and left on the list.
Peeked(q) == q

\* What remains of the list after RPOP.
Popped(q) == Tail(q)

\* job = self.queue.dequeue(): the payload leaves Redis for this process only.
Dequeue(w) ==
  /\ pc[w] = "poll"
  /\ queue # << >>
  /\ job' = [job EXCEPT ![w] = Head(queue)]
  /\ queue' = Popped(queue)
  /\ pc' = [pc EXCEPT ![w] = "record"]
  /\ attempt' = [attempt EXCEPT ![w] = 1]
  /\ result' = [result EXCEPT ![w] = "none"]
  /\ UNCHANGED <<accepted, rowVars, historyVars, boundVars>>

\* Mutant: a worker that finds the queue empty leaves its loop.
StopsWhenEmpty(w) ==
  /\ pc[w] = "poll"
  /\ queue = << >>
  /\ pc' = [pc EXCEPT ![w] = "exited"]
  /\ UNCHANGED <<accepted, queue, rowVars, localVars, historyVars, boundVars>>

\* The queue is empty: process_one returns False.  A loop worker sleeps and
\* polls again (a stuttering step), a one-shot worker exits.
FindsNothing(w) ==
  /\ pc[w] = "poll"
  /\ queue = << >>
  /\ pc' = [pc EXCEPT ![w] = AfterReturn(w)]
  /\ UNCHANGED <<accepted, queue, rowVars, localVars, historyVars, boundVars>>

\* get_job(...) is None -> create_queued_job(...), ON CONFLICT DO NOTHING.
Record(w) ==
  /\ pc[w] = "record"
  /\ status' = [status EXCEPT ![job[w]] = IF @ = "none" THEN "queued" ELSE @]
  /\ pc' = [pc EXCEPT ![w] = "start"]
  /\ UNCHANGED <<accepted, queue, errorCode, localVars, historyVars, boundVars>>

\* mark_started: an UPDATE with no guard on the status it replaces.
MarkStarted(w) ==
  /\ pc[w] = "start"
  /\ status' = [status EXCEPT ![job[w]] = "started"]
  /\ runs' = [runs EXCEPT ![job[w]] = @ + 1]
  /\ pc' = [pc EXCEPT ![w] = "run"]
  /\ UNCHANGED <<accepted, queue, errorCode, localVars, uploads, notices,
                 abandoned, boundVars>>

\* Inside runner.run: Telegram accepts the first media message of this run.
MediaReachesChat(w) ==
  /\ pc[w] = "run"
  /\ uploads' = [uploads EXCEPT ![job[w]] = @ + 1]
  /\ pc' = [pc EXCEPT ![w] = "sent"]
  /\ UNCHANGED <<accepted, queue, rowVars, localVars, runs, notices, abandoned,
                 boundVars>>

RunReturns(w, value) ==
  /\ result' = [result EXCEPT ![w] = value]
  /\ pc' = [pc EXCEPT ![w] = "settle"]
  /\ UNCHANGED <<accepted, queue, rowVars, job, attempt, historyVars, boundVars>>

\* Mutant: the run is reported complete without having sent anything.
CompletesUnsent(w) == pc[w] \in {"run", "sent"} /\ RunReturns(w, "ok")

\* Every file of the result was sent.
RunCompletes(w) == pc[w] = "sent" /\ RunReturns(w, "ok")

\* Once a message has been accepted, only the upload of a later file can fail.
RunFails(w) ==
  \/ /\ pc[w] = "run"
     /\ \E code \in RunErrors : RunReturns(w, code)
  \/ /\ pc[w] = "sent"
     /\ "TELEGRAM_UPLOAD_FAILED" \in RunErrors
     /\ RunReturns(w, "TELEGRAM_UPLOAD_FAILED")

\* Mutants: one attempt too many, one too few.
RetriesOnceMore(code, n) == Retryable(code) /\ n <= MaxAttempts

RetriesOnceLess(code, n) == Retryable(code) /\ n + 1 < MaxAttempts

\* RetryPolicy.should_retry.
ShouldRetry(code, n) == Retryable(code) /\ n < MaxAttempts

\* mark_completed; process_one returns.
MarkCompleted(w) ==
  /\ pc[w] = "settle"
  /\ result[w] = "ok"
  /\ status' = [status EXCEPT ![job[w]] = "completed"]
  /\ errorCode' = [errorCode EXCEPT ![job[w]] = "none"]
  /\ pc' = [pc EXCEPT ![w] = AfterReturn(w)]
  /\ job' = [job EXCEPT ![w] = NoJob]
  /\ UNCHANGED <<accepted, queue, attempt, result, historyVars, boundVars>>

\* attempt += 1 and back to mark_started, at once and in the same process.
Retry(w) ==
  /\ pc[w] = "settle"
  /\ result[w] # "ok"
  /\ ShouldRetry(result[w], attempt[w])
  /\ attempt' = [attempt EXCEPT ![w] = @ + 1]
  /\ pc' = [pc EXCEPT ![w] = "start"]
  /\ UNCHANGED <<accepted, queue, rowVars, job, result, historyVars, boundVars>>

\* mark_failed; process_one goes on to the notification.
MarkFailed(w) ==
  /\ pc[w] = "settle"
  /\ result[w] # "ok"
  /\ ~ShouldRetry(result[w], attempt[w])
  /\ status' = [status EXCEPT ![job[w]] = "failed"]
  /\ errorCode' = [errorCode EXCEPT ![job[w]] = result[w]]
  /\ pc' = [pc EXCEPT ![w] = "notify"]
  /\ UNCHANGED <<accepted, queue, localVars, historyVars, boundVars>>

\* Mutant: a notification whose answer is lost is sent again.
NotifyUntilAnswered(w) ==
  /\ pc[w] = "notify"
  /\ notices' = [notices EXCEPT ![job[w]] = @ + 1]
  /\ \/ pc' = [pc EXCEPT ![w] = AfterReturn(w)] /\ job' = [job EXCEPT ![w] = NoJob]
     \/ UNCHANGED <<pc, job>>
  /\ UNCHANGED <<accepted, queue, rowVars, attempt, result, runs, uploads,
                 abandoned, boundVars>>

\* _notify_failed: the message arrives, or the exception is swallowed; either
\* way process_one returns and the notification is not tried again.
NotifyFailed(w) ==
  /\ pc[w] = "notify"
  /\ \/ notices' = [notices EXCEPT ![job[w]] = @ + 1]
     \/ UNCHANGED notices
  /\ pc' = [pc EXCEPT ![w] = AfterReturn(w)]
  /\ job' = [job EXCEPT ![w] = NoJob]
  /\ UNCHANGED <<accepted, queue, rowVars, attempt, result, runs, uploads,
                 abandoned, boundVars>>

-----------------------------------------------------------------------------
(* The end of a process.  run_worker catches nothing, so an exception that *)
(* leaves process_one ends it like a kill does; Docker starts it again     *)
(* (restart: unless-stopped).  The job it held exists nowhere else.        *)

\* Mutant: whatever the process held is put back on the list.
DiesRequeueing(w) ==
  /\ queue' = IF job[w] # NoJob THEN Append(queue, job[w]) ELSE queue
  /\ pc' = [pc EXCEPT ![w] = IF w \in OneShot THEN "exited" ELSE "down"]
  /\ job' = [job EXCEPT ![w] = NoJob]
  /\ UNCHANGED <<accepted, rowVars, attempt, result, historyVars>>

Dies(w) ==
  /\ abandoned' = IF pc[w] \in Working THEN abandoned \union {job[w]} ELSE abandoned
  /\ pc' = [pc EXCEPT ![w] = IF w \in OneShot THEN "exited" ELSE "down"]
  /\ job' = [job EXCEPT ![w] = NoJob]
  /\ UNCHANGED <<accepted, queue, rowVars, attempt, result, runs, uploads, notices>>

RunRaises(w) ==
  /\ pc[w] = "run"
  /\ escapes < MaxEscapes
  /\ escapes' = escapes + 1
  /\ UNCHANGED crashes
  /\ Dies(w)

Crash(w) ==
  /\ pc[w] \notin {"down", "exited"}
  /\ crashes < MaxCrashes
  /\ crashes' = crashes + 1
  /\ UNCHANGED escapes
  /\ Dies(w)

Restart(w) ==
  /\ pc[w] = "down"
  /\ pc' = [pc EXCEPT ![w] = "poll"]
  /\ UNCHANGED <<accepted, queue, rowVars, localVars, historyVars, boundVars>>

-----------------------------------------------------------------------------

\* What worker w does by itself: the next statement of process_one.
Step(w) ==
  \/ Dequeue(w) \/ FindsNothing(w) \/ Record(w) \/ MarkStarted(w)
  \/ MediaReachesChat(w) \/ RunCompletes(w) \/ RunFails(w)
  \/ MarkCompleted(w) \/ Retry(w) \/ MarkFailed(w) \/ NotifyFailed(w)

Next ==
  \/ \E j \in Jobs : Enqueue(j)
  \/ \E w \in Workers : Step(w) \/ RunRaises(w) \/ Crash(w) \/ Restart(w)

Spec == Init /\ [][Next]_vars

-----------------------------------------------------------------------------
(* Properties                                                              *)

TypeOK ==
  /\ accepted \in SUBSET Jobs
  /\ queue \in Seq(Jobs)
  /\ status \in [Jobs -> {"none", "queued", "started"} \union Terminal]
  /\ errorCode \in [Jobs -> {"none"} \union ErrorCodes]
  /\ pc \in [Workers -> {"poll", "notify", "down", "exited"} \union Working]
  /\ job \in [Workers -> Jobs \union {NoJob}]
  /\ attempt \in [Workers -> 1..MaxAttempts]
  /\ result \in [Workers -> {"ok", "none"} \union ErrorCodes]
  /\ runs \in [Jobs -> Nat]
  /\ uploads \in [Jobs -> Nat]
  /\ notices \in [Jobs -> Nat]
  /\ abandoned \in SUBSET Jobs
  /\ crashes \in 0..MaxCrashes
  /\ escapes \in 0..MaxEscapes

\* A job is in one place only: it is queued once, or one worker is running it,
\* or it is settled, or it was abandoned, or the bot has not accepted it.  Two
\* workers draining the same list never share a job, and no accepted job
\* disappears without the death of a process (process_one, RedisJobQueue).
Exclusive(j) ==
  /\ j \in Queued => ~Held(j) /\ status[j] = "none" /\ j \notin abandoned
  /\ Held(j) => status[j] \notin Terminal /\ j \notin abandoned
  /\ status[j] \in Terminal => j \notin abandoned

Accounted(j) ==
  j \in accepted <=>
    j \in Queued \/ Held(j) \/ status[j] \in Terminal \/ j \in abandoned

Custody ==
  /\ IsInjective(queue)
  /\ \A v, w \in Workers : job[v] = job[w] /\ job[v] # NoJob => v = w
  /\ \A j \in Jobs : Exclusive(j) /\ Accounted(j)

\* What the row says is what the chat saw: a completed job has media in the
\* chat and no failure notice, a notice is sent at most once and only for a
\* failed row (mark_completed, mark_failed, _notify_failed).
RowMatchesChat ==
  \A j \in Jobs :
    /\ status[j] = "completed" => uploads[j] > 0 /\ notices[j] = 0
    /\ notices[j] <= 1
    /\ notices[j] = 1 => status[j] = "failed"

\* The retry budget: over all workers and all restarts a job is run at most
\* MaxAttempts times, media is sent in no more runs than that, and it fails
\* with a retryable error only when the budget is spent (should_retry, the
\* loop of process_one).
RetryBudget ==
  \A j \in Jobs :
    /\ uploads[j] <= runs[j]
    /\ runs[j] <= MaxAttempts
    /\ status[j] = "failed" => (Retryable(errorCode[j]) => runs[j] = MaxAttempts)

\* A settled job is never touched again: mark_started replaces any status, so
\* this rests on no other worker holding the job.
SettledIsFinal ==
  [][\A j \in Jobs : status[j] \in Terminal =>
       /\ status'[j] = status[j]
       /\ errorCode'[j] = errorCode[j]
       /\ runs'[j] = runs[j]
       /\ uploads'[j] = uploads[j]]_vars

\* If workers keep executing and Docker restarts them (RunsFairness), every
\* accepted job is settled unless its worker died.
EveryJobEnds ==
  \A j \in Jobs :
    j \in accepted ~> (status[j] \in Terminal \/ j \in abandoned)

\* The implementation of JobLifecycle: what each job's state means there.
PhaseOf(j) ==
  IF j \notin accepted THEN "new"
  ELSE IF status[j] \in Terminal THEN status[j]
  ELSE IF j \in abandoned THEN "abandoned"
  ELSE IF j \in Queued THEN "queued"
  ELSE "working"

Lifecycle ==
  INSTANCE JobLifecycle WITH
    phase <- [j \in Jobs |-> PhaseOf(j)],
    copies <- uploads,
    notices <- notices

\* Queue, workers, retries, crashes and restarts together behave like the
\* one-owner lifecycle of JobLifecycle.
ImplementsLifecycle == Lifecycle!Spec

\* "Mark job complete or failed" and "on final failure ... sends one clear
\* failure notification": every job the bot accepted gets an outcome.
JobsReachAnOutcome == \A j \in Jobs : j \in accepted ~> status[j] \in Terminal
=============================================================================
