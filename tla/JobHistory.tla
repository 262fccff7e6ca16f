----------------------------- MODULE JobHistory -----------------------------
(***************************************************************************)
(* The times in the download_jobs rows of one user, and the order in which *)
(* /history shows them.                                                    *)
(*                                                                         *)
(* created_at, started_at and finished_at are all CURRENT_TIMESTAMP on the *)
(* connection of the worker that writes them, which is when that           *)
(* connection's open transaction began.  Each commit of                    *)
(* PostgresDownloadJobRepository is followed by a SELECT (_require_job)    *)
(* that opens the next transaction and leaves it open.                     *)
(***************************************************************************)
EXTENDS Naturals, Sequences, SequencesExt

CONSTANTS
  Jobs,          (* jobs of one user                            *)
  Loopers,       (* worker processes that loop (run_worker)     *)
  OneShots,      (* worker processes started with process-once  *)
  MaxAttempts,   (* RetryPolicy.max_attempts                    *)
  Limit,         (* how many jobs /history shows                *)
  MaxTime,       (* bound of the clock                          *)
  MaxRestarts,   (* bound of worker deaths                      *)
  NoJob          (* not working on any job                      *)

ASSUME HistoryAssumption ==
  /\ Loopers \cap OneShots = {}
  /\ MaxAttempts \in Nat \ {0}
  /\ Limit \in Nat \ {0}
  /\ MaxTime \in Nat
  /\ MaxRestarts \in Nat
  /\ NoJob \notin Jobs

Workers == Loopers \union OneShots
Idle == MaxTime + 1        \* no transaction is open
Never == MaxTime + 2       \* a column that is NULL

VARIABLES
  now,        (* the real time                                           *)
  began,      (* began[w]: when the open transaction of w began, or Idle *)
  pc,         (* poll | record | start | run | done                      *)
  job,        (* job[w]: the job in hand                                 *)
  attempt,    (* attempt[w]                                              *)
  taken,      (* the jobs that have left the queue                       *)
  rows,       (* rows[j]: status and the three time columns              *)
  recorded,   (* history: recorded[w], the jobs in the order w inserted them *)
  entered,    (* history: entered[j], when the last runner.run began     *)
  settled,    (* history: settled[j], when the outcome was written       *)
  restarts

vars == <<now, began, pc, job, attempt, taken, rows, recorded, entered, settled,
          restarts>>

NoRow == [status |-> "none", created |-> Never, started |-> Never, finished |-> Never]

Init ==
  /\ now = 0
  /\ began = [w \in Workers |-> Idle]
  /\ pc = [w \in Workers |-> "poll"]
  /\ job = [w \in Workers |-> NoJob]
  /\ attempt = [w \in Workers |-> 1]
  /\ taken = {}
  /\ rows = [j \in Jobs |-> NoRow]
  /\ recorded = [w \in Workers |-> << >>]
  /\ entered = [j \in Jobs |-> Never]
  /\ settled = [j \in Jobs |-> Never]
  /\ restarts = 0

\* CURRENT_TIMESTAMP on the connection of worker w.
Timestamp(w) == IF began[w] = Idle THEN now ELSE began[w]

\* Mutant: the commit leaves the old transaction time in place.
KeepsTransaction(w) == began

\* A commit and the SELECT of _require_job.
AfterCommit(w) == [began EXCEPT ![w] = now]

\* dequeue, and get_job: a SELECT, which opens a transaction if none is open.
Take(w, j) ==
  /\ pc[w] = "poll"
  /\ j \notin taken
  /\ taken' = taken \union {j}
  /\ job' = [job EXCEPT ![w] = j]
  /\ attempt' = [attempt EXCEPT ![w] = 1]
  /\ pc' = [pc EXCEPT ![w] = "record"]
  /\ began' = [began EXCEPT ![w] = Timestamp(w)]
  /\ UNCHANGED <<now, rows, recorded, entered, settled, restarts>>

\* create_queued_job
Record(w) ==
  /\ pc[w] = "record"
  /\ rows' = [rows EXCEPT ![job[w]] =
                [NoRow EXCEPT !.status = "queued", !.created = Timestamp(w)]]
  /\ recorded' = [recorded EXCEPT ![w] = Append(@, job[w])]
  /\ pc' = [pc EXCEPT ![w] = "start"]
  /\ began' = AfterCommit(w)
  /\ UNCHANGED <<now, job, attempt, entered, settled, taken, restarts>>

\* What mark_started makes of a row: COALESCE keeps the first started_at.
Started(row, time) ==
  [row EXCEPT !.status = "started", !.started = IF @ = Never THEN time ELSE @]

\* mark_started
Start(w) ==
  /\ pc[w] = "start"
  /\ rows' = [rows EXCEPT ![job[w]] = Started(@, Timestamp(w))]
  /\ entered' = [entered EXCEPT ![job[w]] = now]
  /\ pc' = [pc EXCEPT ![w] = "run"]
  /\ began' = AfterCommit(w)
  /\ UNCHANGED <<now, job, attempt, recorded, settled, taken, restarts>>

\* Mutant: one attempt too many.
RetriesOnceMore(w) ==
  /\ pc[w] = "run"
  /\ attempt[w] <= MaxAttempts
  /\ attempt' = [attempt EXCEPT ![w] = @ + 1]
  /\ pc' = [pc EXCEPT ![w] = "start"]
  /\ UNCHANGED <<now, began, job, rows, recorded, entered, settled, taken,
                 restarts>>

\* The run failed and is repeated.
Retry(w) ==
  /\ pc[w] = "run"
  /\ attempt[w] < MaxAttempts
  /\ attempt' = [attempt EXCEPT ![w] = @ + 1]
  /\ pc' = [pc EXCEPT ![w] = "start"]
  /\ UNCHANGED <<now, began, job, rows, recorded, entered, settled, taken,
                 restarts>>

\* mark_completed or mark_failed; process_one returns.
Settle(w) ==
  /\ pc[w] = "run"
  /\ \E outcome \in {"completed", "failed"} :
       rows' = [rows EXCEPT ![job[w]].status = outcome, ![job[w]].finished = Timestamp(w)]
  /\ settled' = [settled EXCEPT ![job[w]] = now]
  /\ pc' = [pc EXCEPT ![w] = IF w \in OneShots THEN "done" ELSE "poll"]
  /\ job' = [job EXCEPT ![w] = NoJob]
  /\ began' = AfterCommit(w)
  /\ UNCHANGED <<now, attempt, recorded, entered, taken, restarts>>

\* A looping worker dies with its connection and is started again; the job it
\* held is not taken up again.
Restart(w) ==
  /\ w \in Loopers
  /\ restarts < MaxRestarts
  /\ restarts' = restarts + 1
  /\ pc' = [pc EXCEPT ![w] = "poll"]
  /\ job' = [job EXCEPT ![w] = NoJob]
  /\ began' = [began EXCEPT ![w] = Idle]
  /\ UNCHANGED <<now, attempt, rows, recorded, entered, settled, taken>>

Tick ==
  /\ now < MaxTime
  /\ now' = now + 1
  /\ UNCHANGED <<began, pc, job, attempt, rows, recorded, entered, settled,
                 taken, restarts>>

Next ==
  \/ \E w \in Workers :
       \/ \E j \in Jobs : Take(w, j)
       \/ Record(w) \/ Start(w) \/ Retry(w) \/ Settle(w) \/ Restart(w)
  \/ Tick

Spec == Init /\ [][Next]_vars

-----------------------------------------------------------------------------
(* /history: list_recent_jobs_for_telegram_user                            *)

Listed == UNION {ToSet(recorded[w]) : w \in Workers}

\* Mutant: ORDER BY created_at, the oldest first.
OldestFirst ==
  {shown \in SUBSET Listed :
     \A j \in Listed \ shown :
       /\ Cardinality(shown) = Limit
       /\ \A k \in shown : rows[k].created <= rows[j].created}

\* The answers ORDER BY created_at DESC LIMIT allows (ties in any order).
Histories ==
  {shown \in SUBSET Listed :
     \A j \in Listed \ shown :
       /\ Cardinality(shown) = Limit
       /\ \A k \in shown : rows[k].created >= rows[j].created}

-----------------------------------------------------------------------------
(* Properties                                                              *)

Times == 0..MaxTime \union {Never}

TypeOK ==
  /\ now \in 0..MaxTime
  /\ began \in [Workers -> 0..MaxTime \union {Idle}]
  /\ pc \in [Workers -> {"poll", "record", "start", "run", "done"}]
  /\ job \in [Workers -> Jobs \union {NoJob}]
  /\ attempt \in [Workers -> 1..MaxAttempts]
  /\ taken \subseteq Jobs
  /\ rows \in [Jobs -> [status : {"none", "queued", "started", "completed", "failed"},
                        created : Times, started : Times, finished : Times]]
  /\ recorded \in [Workers -> Seq(Jobs)]
  /\ entered \in [Jobs -> Times]
  /\ settled \in [Jobs -> Times]
  /\ restarts \in 0..MaxRestarts

\* However stale the worker's clock is, the times of a row are in order, none
\* is in the future, and finished_at lies within the job's last run.
StampsAreOrdered ==
  \A j \in Jobs : rows[j].status # "none" =>
    /\ rows[j].created <= now
    /\ rows[j].started # Never => rows[j].created <= rows[j].started
    /\ rows[j].finished # Never =>
         /\ rows[j].started <= rows[j].finished
         /\ entered[j] <= rows[j].finished
         /\ rows[j].finished <= settled[j]

\* /history shows the jobs each worker recorded last, through its restarts: a job
\* it leaves out was recorded before every job of that worker it shows, or carries
\* the same created_at.  (Two workers date their jobs by clocks that lag by
\* different times, so between workers there is no such order.)
NewestIsShown ==
  \A shown \in Histories, w \in Workers :
    \A m, n \in DOMAIN recorded[w] :
      recorded[w][m] \notin shown /\ recorded[w][n] \in shown =>
        m < n \/ rows[recorded[w][m]].created = rows[recorded[w][n]].created
=============================================================================
