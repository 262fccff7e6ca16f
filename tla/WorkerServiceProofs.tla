------------------------ MODULE WorkerServiceProofs ------------------------
(***************************************************************************)
(* Proofs that the safety properties of WorkerService hold for any set of  *)
(* jobs and workers and any retry budget, and that it implements           *)
(* JobLifecycle.  IndInv is inductive; the rest follows from it.           *)
(***************************************************************************)
EXTENDS WorkerService, SequenceTheorems, TLAPS

\* What a worker's position says about the job it holds.
HolderKnows(w) ==
  /\ job[w] # NoJob <=> pc[w] \in Working \union {"notify"}
  /\ pc[w] = "record" => status[job[w]] = "none" /\ attempt[w] = 1
  /\ pc[w] = "start" =>
       /\ status[job[w]] \in {"queued", "started"}
       /\ runs[job[w]] = attempt[w] - 1
  /\ pc[w] \in {"run", "sent", "settle"} =>
       status[job[w]] = "started" /\ runs[job[w]] = attempt[w]
  /\ pc[w] = "run" => uploads[job[w]] < runs[job[w]]
  /\ pc[w] = "sent" => uploads[job[w]] > 0
  /\ pc[w] = "settle" =>
       /\ result[w] # "none"
       /\ result[w] = "ok" => uploads[job[w]] > 0
  /\ pc[w] = "notify" => status[job[w]] = "failed" /\ notices[job[w]] = 0

\* What a job's history may be, given its row.
HistoryFits(j) ==
  /\ status[j] = "none" => runs[j] = 0
  /\ uploads[j] <= runs[j]
  /\ runs[j] <= MaxAttempts
  /\ notices[j] > 0 => status[j] = "failed" /\ notices[j] = 1
  /\ status[j] = "completed" => uploads[j] > 0
  /\ j \notin accepted => status[j] = "none"
  /\ status[j] = "failed" =>
       /\ errorCode[j] # "none"
       /\ Retryable(errorCode[j]) => runs[j] = MaxAttempts

\* The inductive invariant of the proofs: Custody and the two above.
IndInv ==
  /\ TypeOK
  /\ Custody
  /\ \A w \in Workers : HolderKnows(w)
  /\ \A j \in Jobs : HistoryFits(j)

\* What LPUSH does to the list: one more entry, and no duplicate if it is new.
LEMMA PushFacts ==
  ASSUME NEW S, NEW q \in Seq(S), NEW e \in S
  PROVE  /\ Append(q, e) \in Seq(S)
         /\ ToSet(Append(q, e)) = ToSet(q) \union {e}
         /\ IsInjective(q) /\ e \notin ToSet(q) => IsInjective(Append(q, e))
<1>1. /\ Append(q, e) \in Seq(S)
      /\ Len(q) \in Nat
      /\ DOMAIN q = 1..Len(q)
      /\ DOMAIN Append(q, e) = 1..(Len(q) + 1)
      /\ \A i \in 1..Len(q) : Append(q, e)[i] = q[i]
      /\ Append(q, e)[Len(q) + 1] = e
  BY LenProperties
<1>2. 1..(Len(q) + 1) = 1..Len(q) \union {Len(q) + 1}
  BY <1>1
<1>3. ToSet(Append(q, e)) = ToSet(q) \union {e}
  BY <1>1, <1>2 DEF ToSet
<1>4. IsInjective(q) /\ e \notin ToSet(q) => IsInjective(Append(q, e))
  BY <1>1, <1>2 DEF ToSet, IsInjective
<1> QED
  BY <1>1, <1>3, <1>4

\* What RPOP does to a list without duplicates: the head is taken, the rest stays.
LEMMA PopFacts ==
  ASSUME NEW S, NEW q \in Seq(S), q # << >>, IsInjective(q)
  PROVE  /\ Head(q) \in S
         /\ Tail(q) \in Seq(S)
         /\ Head(q) \in ToSet(q)
         /\ ToSet(Tail(q)) = ToSet(q) \ {Head(q)}
         /\ IsInjective(Tail(q))
<1>1. /\ Len(q) \in Nat \ {0}
      /\ q \in [1..Len(q) -> S]
      /\ DOMAIN q = 1..Len(q)
      /\ Head(q) = q[1]
  BY EmptySeq, LenProperties
<1>2. /\ Head(q) \in S
      /\ Tail(q) \in Seq(S)
      /\ Len(Tail(q)) = Len(q) - 1
      /\ \A i \in 1..Len(Tail(q)) : Tail(q)[i] = q[i + 1]
  BY HeadTailProperties
<1>3. DOMAIN Tail(q) = 1..(Len(q) - 1)
  BY <1>2, LenProperties
<1>4. Head(q) \in ToSet(q)
  BY <1>1 DEF ToSet
<1>5. IsInjective(Tail(q))
  BY <1>1, <1>2, <1>3 DEF IsInjective
<1>6. ToSet(Tail(q)) \subseteq ToSet(q) \ {Head(q)}
  BY <1>1, <1>2, <1>3 DEF ToSet, IsInjective
<1>7. ASSUME NEW x \in ToSet(q) \ {Head(q)}
      PROVE  x \in ToSet(Tail(q))
  <2>1. PICK i \in 1..Len(q) : x = q[i]
    BY <1>1 DEF ToSet
  <2>2. i # 1
    BY <1>1, <2>1
  <2>3. i - 1 \in 1..(Len(q) - 1) /\ Tail(q)[i - 1] = q[i]
    BY <1>1, <1>2, <2>1, <2>2
  <2> QED
    BY <1>3, <2>1, <2>3 DEF ToSet
<1> QED
  BY <1>2, <1>4, <1>5, <1>6, <1>7

USE DEF Working, Terminal

\* Nothing is queued or held, and no job has a row.
LEMMA InitIndInv == Init => IndInv
<1> SUFFICES ASSUME Init PROVE IndInv
  OBVIOUS
<1>1. TypeOK
  BY WorkerAssumption DEF Init, TypeOK
<1>2. Custody
  BY DEF Init, Custody, Exclusive, Accounted, Held, Queued, ToSet, IsInjective
<1>3. \A w \in Workers : HolderKnows(w)
  BY DEF Init, HolderKnows
<1>4. \A j \in Jobs : HistoryFits(j)
  BY WorkerAssumption DEF Init, HistoryFits
<1> QED
  BY <1>1, <1>2, <1>3, <1>4 DEF IndInv

\* A worker inside process_one holds a job.
LEMMA HolderHasJob ==
  ASSUME IndInv, NEW w \in Workers, pc[w] \in Working \union {"notify"}
  PROVE  job[w] \in Jobs
  BY DEF IndInv, TypeOK, HolderKnows

\* Record keeps the inductive invariant.
LEMMA RecordKeeps ==
  ASSUME IndInv, NEW w \in Workers, Record(w)
  PROVE  IndInv'
<1> USE WorkerAssumption DEF IndInv
<1>1. TypeOK'
  BY DEF TypeOK, Record, boundVars, rowVars, localVars, historyVars
<1>2. Custody'
  BY DEF TypeOK, Record, Custody, Exclusive, Accounted, Held, Queued, HolderKnows, boundVars, rowVars, localVars, historyVars
<1>3. \A v \in Workers : HolderKnows(v)'
  BY DEF TypeOK, Record, Custody, Exclusive, Accounted, Held, HolderKnows, HistoryFits, boundVars, rowVars, localVars, historyVars
<1>4. \A j \in Jobs : HistoryFits(j)'
  BY DEF TypeOK, Record, Custody, Exclusive, Accounted, Held, HolderKnows, HistoryFits, boundVars, rowVars, localVars, historyVars
<1> QED
  BY <1>1, <1>2, <1>3, <1>4

\* MarkStarted keeps the inductive invariant.
LEMMA MarkStartedKeeps ==
  ASSUME IndInv, NEW w \in Workers, MarkStarted(w)
  PROVE  IndInv'
<1> USE WorkerAssumption DEF IndInv
<1>1. TypeOK'
  <2>1. job[w] \in Jobs
    BY HolderHasJob DEF MarkStarted
  <2>2. runs' \in [Jobs -> Nat] /\ status' \in [Jobs -> {"none", "queued", "started"} \union Terminal]
    BY <2>1 DEF TypeOK, MarkStarted
  <2> QED
    BY <2>2 DEF TypeOK, MarkStarted, boundVars, rowVars, localVars, historyVars
<1>2. Custody'
  BY DEF TypeOK, MarkStarted, Custody, Exclusive, Accounted, Held, Queued, HolderKnows, boundVars, rowVars, localVars, historyVars
<1>3. \A v \in Workers : HolderKnows(v)'
  BY DEF TypeOK, MarkStarted, Custody, Exclusive, Accounted, Held, HolderKnows, HistoryFits, boundVars, rowVars, localVars, historyVars
<1>4. \A j \in Jobs : HistoryFits(j)'
  BY DEF TypeOK, MarkStarted, Custody, Exclusive, Accounted, Held, HolderKnows, HistoryFits, boundVars, rowVars, localVars, historyVars
<1> QED
  BY <1>1, <1>2, <1>3, <1>4

\* MediaReachesChat keeps the inductive invariant.
LEMMA MediaReachesChatKeeps ==
  ASSUME IndInv, NEW w \in Workers, MediaReachesChat(w)
  PROVE  IndInv'
<1> USE WorkerAssumption DEF IndInv
<1>1. TypeOK'
  BY HolderHasJob DEF TypeOK, MediaReachesChat, boundVars, rowVars, localVars, historyVars
<1>2. Custody'
  BY DEF TypeOK, MediaReachesChat, Custody, Exclusive, Accounted, Held, Queued, HolderKnows, boundVars, rowVars, localVars, historyVars
<1>3. \A v \in Workers : HolderKnows(v)'
  BY DEF TypeOK, MediaReachesChat, Custody, Exclusive, Accounted, Held, HolderKnows, HistoryFits, boundVars, rowVars, localVars, historyVars
<1>4. \A j \in Jobs : HistoryFits(j)'
  BY DEF TypeOK, MediaReachesChat, Custody, Exclusive, Accounted, Held, HolderKnows, HistoryFits, boundVars, rowVars, localVars, historyVars
<1> QED
  BY <1>1, <1>2, <1>3, <1>4

\* RunCompletes keeps the inductive invariant.
LEMMA RunCompletesKeeps ==
  ASSUME IndInv, NEW w \in Workers, RunCompletes(w)
  PROVE  IndInv'
<1> USE WorkerAssumption DEF IndInv
<1>1. TypeOK'
  BY DEF TypeOK, RunCompletes, RunReturns, boundVars, rowVars, localVars, historyVars
<1>2. Custody'
  BY DEF TypeOK, RunCompletes, RunReturns, Custody, Exclusive, Accounted, Held, Queued, HolderKnows, boundVars, rowVars, localVars, historyVars
<1>3. \A v \in Workers : HolderKnows(v)'
  BY DEF TypeOK, RunCompletes, RunReturns, Custody, Exclusive, Accounted, Held, HolderKnows, HistoryFits, boundVars, rowVars, localVars, historyVars
<1>4. \A j \in Jobs : HistoryFits(j)'
  BY DEF TypeOK, RunCompletes, RunReturns, Custody, Exclusive, Accounted, Held, HolderKnows, HistoryFits, boundVars, rowVars, localVars, historyVars
<1> QED
  BY <1>1, <1>2, <1>3, <1>4

\* MarkCompleted keeps the inductive invariant.
LEMMA MarkCompletedKeeps ==
  ASSUME IndInv, NEW w \in Workers, MarkCompleted(w)
  PROVE  IndInv'
<1> USE WorkerAssumption DEF IndInv
<1>1. TypeOK'
  BY DEF TypeOK, MarkCompleted, AfterReturn, boundVars, rowVars, localVars, historyVars
<1>2. Custody'
  BY DEF TypeOK, MarkCompleted, AfterReturn, Custody, Exclusive, Accounted, Held, Queued, HolderKnows, boundVars, rowVars, localVars, historyVars
<1>3. \A v \in Workers : HolderKnows(v)'
  BY DEF TypeOK, MarkCompleted, AfterReturn, Custody, Exclusive, Accounted, Held, HolderKnows, HistoryFits, boundVars, rowVars, localVars, historyVars
<1>4. \A j \in Jobs : HistoryFits(j)'
  BY DEF TypeOK, MarkCompleted, AfterReturn, Custody, Exclusive, Accounted, Held, HolderKnows, HistoryFits, boundVars, rowVars, localVars, historyVars
<1> QED
  BY <1>1, <1>2, <1>3, <1>4

\* Retry keeps the inductive invariant.
LEMMA RetryKeeps ==
  ASSUME IndInv, NEW w \in Workers, Retry(w)
  PROVE  IndInv'
<1> USE WorkerAssumption DEF IndInv
<1>1. TypeOK'
  BY DEF TypeOK, Retry, ShouldRetry, boundVars, rowVars, localVars, historyVars
<1>2. Custody'
  BY DEF TypeOK, Retry, ShouldRetry, Custody, Exclusive, Accounted, Held, Queued, HolderKnows, boundVars, rowVars, localVars, historyVars
<1>3. \A v \in Workers : HolderKnows(v)'
  BY DEF TypeOK, Retry, ShouldRetry, Custody, Exclusive, Accounted, Held, HolderKnows, HistoryFits, boundVars, rowVars, localVars, historyVars
<1>4. \A j \in Jobs : HistoryFits(j)'
  BY DEF TypeOK, Retry, ShouldRetry, Custody, Exclusive, Accounted, Held, HolderKnows, HistoryFits, boundVars, rowVars, localVars, historyVars
<1> QED
  BY <1>1, <1>2, <1>3, <1>4

\* MarkFailed keeps the inductive invariant.
LEMMA MarkFailedKeeps ==
  ASSUME IndInv, NEW w \in Workers, MarkFailed(w)
  PROVE  IndInv'
<1> USE WorkerAssumption DEF IndInv
<1>1. TypeOK'
  BY DEF TypeOK, MarkFailed, ShouldRetry, boundVars, rowVars, localVars, historyVars
<1>2. Custody'
  BY DEF TypeOK, MarkFailed, ShouldRetry, Custody, Exclusive, Accounted, Held, Queued, HolderKnows, boundVars, rowVars, localVars, historyVars
<1>3. \A v \in Workers : HolderKnows(v)'
  BY DEF TypeOK, MarkFailed, ShouldRetry, Custody, Exclusive, Accounted, Held, HolderKnows, HistoryFits, boundVars, rowVars, localVars, historyVars
<1>4. \A j \in Jobs : HistoryFits(j)'
  BY DEF TypeOK, MarkFailed, ShouldRetry, Custody, Exclusive, Accounted, Held, HolderKnows, HistoryFits, boundVars, rowVars, localVars, historyVars
<1> QED
  BY <1>1, <1>2, <1>3, <1>4

\* NotifyFailed keeps the inductive invariant.
LEMMA NotifyFailedKeeps ==
  ASSUME IndInv, NEW w \in Workers, NotifyFailed(w)
  PROVE  IndInv'
<1> USE WorkerAssumption DEF IndInv
<1>1. TypeOK'
  BY DEF TypeOK, NotifyFailed, AfterReturn, boundVars, rowVars, localVars, historyVars
<1>2. Custody'
  BY DEF TypeOK, NotifyFailed, AfterReturn, Custody, Exclusive, Accounted, Held, Queued, HolderKnows, boundVars, rowVars, localVars, historyVars
<1>3. \A v \in Workers : HolderKnows(v)'
  <2> SUFFICES ASSUME NEW v \in Workers PROVE HolderKnows(v)'
    OBVIOUS
  <2>1. job[w] \in Jobs
    BY HolderHasJob DEF NotifyFailed
  <2>2. CASE v = w
    BY <2>2 DEF TypeOK, NotifyFailed, AfterReturn, HolderKnows
  <2>3. CASE v # w
    <3>1. /\ job'[v] = job[v] /\ pc'[v] = pc[v]
          /\ UNCHANGED <<status, runs, uploads, attempt, result>>
      BY <2>3 DEF TypeOK, NotifyFailed, boundVars, rowVars, localVars, historyVars
    <3>2. job[v] # NoJob => job[v] # job[w]
      BY <2>1, <2>3 DEF Custody
    <3>3. job[v] # NoJob => notices'[job[v]] = notices[job[v]]
      BY <3>2 DEF TypeOK, NotifyFailed
    <3> QED
      BY <3>1, <3>3 DEF HolderKnows
  <2> QED
    BY <2>2, <2>3
<1>4. \A j \in Jobs : HistoryFits(j)'
  <2>1. job[w] \in Jobs /\ status[job[w]] = "failed" /\ notices[job[w]] = 0
    BY HolderHasJob DEF NotifyFailed, HolderKnows
  <2>2. notices' \in [Jobs -> Nat] /\ notices'[job[w]] \in {0, 1}
        /\ \A j \in Jobs \ {job[w]} : notices'[j] = notices[j]
    <3>1. CASE UNCHANGED notices
      BY <2>1, <3>1 DEF TypeOK
    <3>2. CASE notices' = [notices EXCEPT ![job[w]] = @ + 1]
      BY <2>1, <3>2 DEF TypeOK
    <3> QED
      BY <3>1, <3>2 DEF NotifyFailed
  <2> QED
    BY <2>1, <2>2 DEF NotifyFailed, HistoryFits, rowVars
<1> QED
  BY <1>1, <1>2, <1>3, <1>4

\* RunRaises keeps the inductive invariant.
LEMMA RunRaisesKeeps ==
  ASSUME IndInv, NEW w \in Workers, RunRaises(w)
  PROVE  IndInv'
<1> USE WorkerAssumption DEF IndInv
<1>1. TypeOK'
  BY HolderHasJob DEF TypeOK, RunRaises, Dies, boundVars, rowVars, localVars, historyVars
<1>2. Custody'
  BY DEF TypeOK, RunRaises, Dies, Custody, Exclusive, Accounted, Held, Queued, HolderKnows, boundVars, rowVars, localVars, historyVars
<1>3. \A v \in Workers : HolderKnows(v)'
  BY DEF TypeOK, RunRaises, Dies, Custody, Exclusive, Accounted, Held, HolderKnows, HistoryFits, boundVars, rowVars, localVars, historyVars
<1>4. \A j \in Jobs : HistoryFits(j)'
  BY DEF TypeOK, RunRaises, Dies, Custody, Exclusive, Accounted, Held, HolderKnows, HistoryFits, boundVars, rowVars, localVars, historyVars
<1> QED
  BY <1>1, <1>2, <1>3, <1>4

\* Crash keeps the inductive invariant.
LEMMA CrashKeeps ==
  ASSUME IndInv, NEW w \in Workers, Crash(w)
  PROVE  IndInv'
<1> USE WorkerAssumption DEF IndInv
<1>1. TypeOK'
  BY HolderHasJob DEF TypeOK, Crash, Dies, boundVars, rowVars, localVars, historyVars
<1>2. Custody'
  BY DEF TypeOK, Crash, Dies, Custody, Exclusive, Accounted, Held, Queued, HolderKnows, boundVars, rowVars, localVars, historyVars
<1>3. \A v \in Workers : HolderKnows(v)'
  BY DEF TypeOK, Crash, Dies, Custody, Exclusive, Accounted, Held, HolderKnows, HistoryFits, boundVars, rowVars, localVars, historyVars
<1>4. \A j \in Jobs : HistoryFits(j)'
  BY DEF TypeOK, Crash, Dies, Custody, Exclusive, Accounted, Held, HolderKnows, HistoryFits, boundVars, rowVars, localVars, historyVars
<1> QED
  BY <1>1, <1>2, <1>3, <1>4

\* A worker that returns an error, whichever of the two disjuncts it comes from.
LEMMA RunFailsKeeps ==
  ASSUME IndInv, NEW w \in Workers, RunFails(w)
  PROVE  IndInv'
<1> USE WorkerAssumption DEF IndInv
<1>1. PICK code \in RunErrors : pc[w] \in {"run", "sent"} /\ RunReturns(w, code)
  BY DEF RunFails
<1>2. code \in ErrorCodes /\ code # "none" /\ code # "ok"
  BY <1>1 DEF ErrorCodes
<1>3. TypeOK'
  BY <1>1, <1>2 DEF TypeOK, RunReturns, boundVars, rowVars, localVars, historyVars
<1>4. Custody'
  <2>1. \A j \in Jobs : Held(j)' <=> Held(j)
    BY <1>1 DEF TypeOK, RunReturns, Held, boundVars, rowVars, localVars, historyVars
  <2> QED
    BY <1>1, <2>1 DEF RunReturns, Custody, Exclusive, Accounted, Queued, boundVars, rowVars, localVars, historyVars
<1>5. \A v \in Workers : HolderKnows(v)'
  BY <1>1, <1>2 DEF TypeOK, RunReturns, HolderKnows, HistoryFits, boundVars, rowVars, localVars, historyVars
<1>6. \A j \in Jobs : HistoryFits(j)'
  BY <1>1 DEF RunReturns, HistoryFits, boundVars, rowVars, localVars, historyVars
<1> QED
  BY <1>3, <1>4, <1>5, <1>6

\* Restart keeps the inductive invariant: no job changes hands.
LEMMA RestartKeeps ==
  ASSUME IndInv, NEW w \in Workers, Restart(w)
  PROVE  IndInv'
<1> USE WorkerAssumption DEF IndInv
<1>1. TypeOK'
  BY DEF TypeOK, Restart, boundVars, rowVars, localVars, historyVars
<1>2. Custody'
  <2>1. \A j \in Jobs : Held(j)' <=> Held(j)
    BY DEF TypeOK, Restart, Held, boundVars, rowVars, localVars, historyVars
  <2> QED
    BY <2>1 DEF Restart, Custody, Exclusive, Accounted, Queued, boundVars, rowVars, localVars, historyVars
<1>3. \A v \in Workers : HolderKnows(v)'
  BY DEF TypeOK, Restart, HolderKnows, boundVars, rowVars, localVars, historyVars
<1>4. \A j \in Jobs : HistoryFits(j)'
  BY DEF Restart, HistoryFits, boundVars, rowVars, localVars, historyVars
<1> QED
  BY <1>1, <1>2, <1>3, <1>4

\* FindsNothing keeps the inductive invariant: no job changes hands.
LEMMA FindsNothingKeeps ==
  ASSUME IndInv, NEW w \in Workers, FindsNothing(w)
  PROVE  IndInv'
<1> USE WorkerAssumption DEF IndInv
<1>1. TypeOK'
  BY DEF TypeOK, FindsNothing, AfterReturn, boundVars, rowVars, localVars, historyVars
<1>2. Custody'
  <2>1. \A j \in Jobs : Held(j)' <=> Held(j)
    BY DEF TypeOK, FindsNothing, AfterReturn, Held, boundVars, rowVars, localVars, historyVars
  <2> QED
    BY <2>1 DEF FindsNothing, Custody, Exclusive, Accounted, Queued, boundVars, rowVars, localVars, historyVars
<1>3. \A v \in Workers : HolderKnows(v)'
  BY DEF TypeOK, FindsNothing, AfterReturn, HolderKnows, boundVars, rowVars, localVars, historyVars
<1>4. \A j \in Jobs : HistoryFits(j)'
  BY DEF FindsNothing, HistoryFits, boundVars, rowVars, localVars, historyVars
<1> QED
  BY <1>1, <1>2, <1>3, <1>4

\* Dequeue keeps the inductive invariant: the head changes hands.
LEMMA DequeueKeeps ==
  ASSUME IndInv, NEW w \in Workers, Dequeue(w)
  PROVE  IndInv'
<1> USE WorkerAssumption DEF IndInv
<1> DEFINE j == Head(queue)
<1>1. /\ j \in Jobs /\ j \in Queued /\ queue' \in Seq(Jobs)
      /\ Queued' = Queued \ {j} /\ IsInjective(queue')
  BY PopFacts DEF TypeOK, Custody, Dequeue, Popped, Queued
<1>2. /\ status[j] = "none" /\ ~Held(j) /\ j \notin abandoned /\ j \in accepted
      /\ \A v \in Workers : job[v] # j
  <2>1. status[j] = "none" /\ ~Held(j) /\ j \notin abandoned /\ j \in accepted
    BY <1>1 DEF Custody, Exclusive, Accounted
  <2>2. ASSUME NEW v \in Workers, job[v] = j PROVE FALSE
    <3>1. pc[v] \in Working \union {"notify"}
      BY <1>1, <2>2, WorkerAssumption DEF HolderKnows
    <3> QED
      BY <2>1, <2>2, <3>1 DEF Held, HolderKnows
  <2> QED
    BY <2>1, <2>2
<1>3. job[w] = NoJob /\ job'[w] = j /\ pc'[w] = "record" /\ attempt'[w] = 1
  BY DEF TypeOK, Dequeue, HolderKnows
<1>4. \A v \in Workers \ {w} : /\ job'[v] = job[v] /\ pc'[v] = pc[v]
                               /\ attempt'[v] = attempt[v] /\ result'[v] = result[v]
  BY DEF TypeOK, Dequeue
<1>5. UNCHANGED <<accepted, rowVars, historyVars, boundVars>>
  BY DEF Dequeue
<1>6. TypeOK'
  BY <1>1, <1>5 DEF TypeOK, Dequeue, boundVars, rowVars, localVars, historyVars
<1>7. Custody'
  <2>1. \A k \in Jobs : Held(k)' <=> Held(k) \/ k = j
    BY <1>3, <1>4 DEF Held, HolderKnows
  <2>2. \A k \in Jobs : Exclusive(k)' /\ Accounted(k)'
    BY <1>1, <1>2, <1>5, <2>1 DEF Custody, Exclusive, Accounted, rowVars, historyVars
  <2>3. \A u, v \in Workers : job'[u] = job'[v] /\ job'[u] # NoJob => u = v
    BY <1>2, <1>3, <1>4 DEF Custody
  <2> QED
    BY <1>1, <2>2, <2>3 DEF Custody
<1>8. \A v \in Workers : HolderKnows(v)'
  <2>1. HolderKnows(w)'
    BY <1>1, <1>2, <1>3, <1>5 DEF HolderKnows, rowVars, historyVars
  <2>2. \A v \in Workers \ {w} : HolderKnows(v)'
    BY <1>4, <1>5 DEF HolderKnows, rowVars, historyVars
  <2> QED
    BY <2>1, <2>2
<1>9. \A k \in Jobs : HistoryFits(k)'
  BY <1>5 DEF HistoryFits, boundVars, rowVars, localVars, historyVars
<1> QED
  BY <1>6, <1>7, <1>8, <1>9

\* Enqueue keeps the inductive invariant: a job no one knew enters the queue.
LEMMA EnqueueKeeps ==
  ASSUME IndInv, NEW j \in Jobs, Enqueue(j)
  PROVE  IndInv'
<1> USE WorkerAssumption DEF IndInv
<1>1. /\ j \notin Queued /\ ~Held(j) /\ status[j] = "none" /\ j \notin abandoned
  BY DEF Enqueue, Custody, Accounted, HistoryFits
<1>2. queue' \in Seq(Jobs) /\ Queued' = Queued \union {j} /\ IsInjective(queue')
  BY <1>1, PushFacts DEF TypeOK, Custody, Enqueue, Queued
<1>3. accepted' = accepted \union {j}
      /\ UNCHANGED <<rowVars, pc, localVars, historyVars, boundVars>>
  BY DEF Enqueue
<1>4. TypeOK'
  BY <1>2, <1>3 DEF TypeOK, boundVars, rowVars, localVars, historyVars
<1>5. Custody'
  <2>1. \A k \in Jobs : Held(k)' <=> Held(k)
    BY <1>3 DEF Held, localVars
  <2> QED
    BY <1>1, <1>2, <1>3, <2>1 DEF Custody, Exclusive, Accounted, boundVars, rowVars, localVars, historyVars
<1>6. \A v \in Workers : HolderKnows(v)'
  BY <1>3 DEF HolderKnows, boundVars, rowVars, localVars, historyVars
<1>7. \A k \in Jobs : HistoryFits(k)'
  BY <1>1, <1>3 DEF HistoryFits, boundVars, rowVars, localVars, historyVars
<1> QED
  BY <1>4, <1>5, <1>6, <1>7

\* IndInv is inductive.
LEMMA NextKeepsIndInv == IndInv /\ [Next]_vars => IndInv'
<1> SUFFICES ASSUME IndInv, [Next]_vars PROVE IndInv'
  OBVIOUS
<1>1. CASE UNCHANGED vars
  BY <1>1 DEF vars, boundVars, rowVars, localVars, historyVars, IndInv, TypeOK, Custody, Exclusive, Accounted, Held,
     Queued, HolderKnows, HistoryFits
<1>2. ASSUME NEW j \in Jobs, Enqueue(j) PROVE IndInv'
  BY <1>2, EnqueueKeeps
<1>3. ASSUME NEW w \in Workers, Step(w) PROVE IndInv'
  BY <1>3, DequeueKeeps, FindsNothingKeeps, RecordKeeps, MarkStartedKeeps,
     MediaReachesChatKeeps, RunCompletesKeeps, RunFailsKeeps, MarkCompletedKeeps,
     RetryKeeps, MarkFailedKeeps, NotifyFailedKeeps DEF Step
<1>4. ASSUME NEW w \in Workers, RunRaises(w) \/ Crash(w) \/ Restart(w) PROVE IndInv'
  BY <1>4, RunRaisesKeeps, CrashKeeps, RestartKeeps
<1> QED
  BY <1>1, <1>2, <1>3, <1>4 DEF Next

\* The inductive invariant holds in every reachable state.
THEOREM Inductive == Spec => []IndInv
  BY InitIndInv, NextKeepsIndInv, PTL DEF Spec

\* Every variable keeps its type.
THEOREM TypeCorrect == Spec => []TypeOK
<1>1. IndInv => TypeOK
  BY DEF IndInv
<1> QED
  BY <1>1, Inductive, PTL

\* A job is always in exactly one place: however many workers drain the queue
\* and however often they die, no job is run by two of them and none is lost
\* unless its own worker died.
THEOREM OneOwner == Spec => []Custody
<1>1. IndInv => Custody
  BY DEF IndInv
<1> QED
  BY <1>1, Inductive, PTL

\* A completed row means that media reached the chat, a notice that the row is
\* failed, and there is at most one.
THEOREM RowsTellTheTruth == Spec => []RowMatchesChat
<1>1. IndInv => RowMatchesChat
  BY DEF IndInv, TypeOK, HistoryFits, RowMatchesChat
<1> QED
  BY <1>1, Inductive, PTL

\* No job is run more often than the retry budget, and a retryable failure is
\* final only when the budget is spent.
THEOREM BudgetIsKept == Spec => []RetryBudget
<1>1. IndInv => RetryBudget
  BY DEF IndInv, HistoryFits, RetryBudget
<1> QED
  BY <1>1, Inductive, PTL

\* One step leaves a settled job alone: the worker it could come from no longer
\* holds it, and no other worker ever does.
LEMMA StepLeavesSettledAlone ==
  ASSUME IndInv, [Next]_vars, NEW j \in Jobs, status[j] \in Terminal
  PROVE  /\ status'[j] = status[j]
         /\ errorCode'[j] = errorCode[j]
         /\ runs'[j] = runs[j]
         /\ uploads'[j] = uploads[j]
<1>1. \A w \in Workers : pc[w] \in Working => job[w] # j
  BY DEF IndInv, Custody, Exclusive, Held
<1>2. CASE UNCHANGED vars
  BY <1>2 DEF vars, boundVars, rowVars, localVars, historyVars
<1>3. ASSUME NEW k \in Jobs, Enqueue(k) PROVE UNCHANGED <<rowVars, historyVars>>
  BY <1>3 DEF Enqueue
<1>4. ASSUME NEW w \in Workers, Step(w)
      PROVE  /\ status'[j] = status[j] /\ errorCode'[j] = errorCode[j]
             /\ runs'[j] = runs[j] /\ uploads'[j] = uploads[j]
  <2>1. pc[w] \in Working => job[w] # j
    BY <1>1
  <2> QED
    BY <1>4, <2>1 DEF Step, IndInv, TypeOK, Dequeue, FindsNothing, Record, MarkStarted,
       MediaReachesChat, RunCompletes, RunFails, RunReturns, MarkCompleted, Retry,
       MarkFailed, NotifyFailed, boundVars, rowVars, localVars, historyVars
<1>5. ASSUME NEW w \in Workers, RunRaises(w) \/ Crash(w) \/ Restart(w)
      PROVE  UNCHANGED <<rowVars, runs, uploads>>
  BY <1>5 DEF RunRaises, Crash, Dies, Restart, historyVars
<1> QED
  BY <1>2, <1>3, <1>4, <1>5 DEF Next, rowVars, historyVars

\* Once a row is completed or failed, no worker, retry, crash or restart changes
\* it, runs the job again or sends its media again.
THEOREM SettledStaysSettled == Spec => SettledIsFinal
<1>1. IndInv /\ [Next]_vars =>
        [\A j \in Jobs : status[j] \in Terminal =>
           /\ status'[j] = status[j]
           /\ errorCode'[j] = errorCode[j]
           /\ runs'[j] = runs[j]
           /\ uploads'[j] = uploads[j]]_vars
  BY StepLeavesSettledAlone
<1> QED
  BY <1>1, Inductive, PTL DEF Spec, SettledIsFinal

-----------------------------------------------------------------------------
(* Refinement of JobLifecycle: the initial state is an initial state of the  *)
(* lifecycle, and each step is a lifecycle step of one job or changes        *)
(* nothing the lifecycle sees.  It rests on IndInv.                          *)

USE DEF Working, Terminal

\* Where a job is decides its phase.
LEMMA PhaseFacts ==
  ASSUME IndInv, NEW j \in Jobs
  PROVE  /\ j \notin accepted <=> PhaseOf(j) = "new"
         /\ j \in Queued <=> PhaseOf(j) = "queued"
         /\ Held(j) <=> PhaseOf(j) = "working"
         /\ status[j] \in Terminal <=> PhaseOf(j) = status[j]
         /\ j \in abandoned <=> PhaseOf(j) = "abandoned"
<1>1. /\ Exclusive(j) /\ Accounted(j)
      /\ j \notin accepted => status[j] = "none"
      /\ status[j] \in {"none", "queued", "started"} \union Terminal
  BY DEF IndInv, TypeOK, Custody, HistoryFits
<1>2. CASE j \notin accepted
  BY <1>1, <1>2 DEF PhaseOf, Accounted
<1>3. CASE j \in accepted
  BY <1>1, <1>3 DEF PhaseOf, Accounted, Exclusive
<1> QED
  BY <1>2, <1>3

\* A change of one job's phase is a move of the lifecycle.
LEMMA MoveOf ==
  ASSUME NEW j \in Jobs, NEW from, NEW to,
         PhaseOf(j) = from, PhaseOf(j)' = to,
         \A k \in Jobs \ {j} : PhaseOf(k)' = PhaseOf(k)
  PROVE  Lifecycle!Move(j, from, to)
  BY DEF Lifecycle!Move

\* A step that changes no phase, sends no media and no notice is a stutter.
LEMMA StutterOf ==
  ASSUME UNCHANGED <<uploads, notices>>, \A k \in Jobs : PhaseOf(k)' = PhaseOf(k)
  PROVE  UNCHANGED Lifecycle!vars
  BY DEF Lifecycle!vars

\* What the phase of a job depends on.
LEMMA SamePhase ==
  ASSUME NEW k \in Jobs, UNCHANGED <<accepted, queue, abandoned>>,
         \/ status'[k] = status[k]
         \/ status[k] \notin Terminal /\ status'[k] \notin Terminal
  PROVE  PhaseOf(k)' = PhaseOf(k)
  BY DEF PhaseOf, Queued

\* The bot's enqueue is Accept.
LEMMA EnqueueAccepts ==
  ASSUME IndInv, NEW j \in Jobs, Enqueue(j)
  PROVE  Lifecycle!Accept(j)
<1>1. Queued' = Queued \union {j}
  BY PushFacts DEF IndInv, TypeOK, Enqueue, Queued
<1>2. accepted' = accepted \union {j} /\ j \notin accepted
      /\ UNCHANGED <<status, abandoned, uploads, notices>>
  BY DEF Enqueue, rowVars, historyVars
<1>3. PhaseOf(j) = "new"
  BY <1>2, PhaseFacts
<1>4. PhaseOf(j)' = "queued"
  <2>1. status[j] = "none" /\ j \notin abandoned
    BY <1>2 DEF IndInv, Custody, Accounted, HistoryFits
  <2> QED
    BY <1>1, <1>2, <2>1 DEF PhaseOf
<1>5. \A k \in Jobs \ {j} : PhaseOf(k)' = PhaseOf(k)
  BY <1>1, <1>2 DEF PhaseOf
<1> QED
  BY <1>2, <1>3, <1>4, <1>5, MoveOf DEF Lifecycle!Accept

\* The pop is Take, of the job at the head of the list.
LEMMA DequeueTakes ==
  ASSUME IndInv, NEW w \in Workers, Dequeue(w)
  PROVE  \E j \in Jobs : Lifecycle!Take(j)
<1>1. PICK j \in Jobs : j \in Queued /\ Queued' = Queued \ {j}
  BY PopFacts DEF IndInv, TypeOK, Custody, Dequeue, Popped, Queued
<1>2. UNCHANGED <<accepted, status, abandoned, uploads, notices>>
  BY DEF Dequeue, rowVars, historyVars
<1>3. PhaseOf(j) = "queued"
  BY <1>1, PhaseFacts
<1>4. PhaseOf(j)' = "working"
  <2>1. j \in accepted /\ status[j] = "none" /\ j \notin abandoned
    BY <1>1 DEF IndInv, Custody, Accounted, Exclusive
  <2> QED
    BY <1>1, <1>2, <2>1 DEF PhaseOf
<1>5. \A k \in Jobs \ {j} : PhaseOf(k)' = PhaseOf(k)
  BY <1>1, <1>2 DEF PhaseOf
<1>6. Lifecycle!Take(j)
  BY <1>1, <1>2, <1>3, <1>4, <1>5, MoveOf DEF Lifecycle!Take
<1> QED
  BY <1>1, <1>6

\* The worker's own bookkeeping is not visible in the lifecycle.
LEMMA BookkeepingStutters ==
  ASSUME IndInv, NEW w \in Workers,
         \/ FindsNothing(w) \/ Record(w) \/ MarkStarted(w) \/ RunCompletes(w)
         \/ RunFails(w) \/ Retry(w) \/ Restart(w)
  PROVE  UNCHANGED Lifecycle!vars
<1>1. UNCHANGED <<accepted, queue, abandoned, uploads, notices>>
  BY DEF FindsNothing, Record, MarkStarted, RunCompletes, RunFails, RunReturns,
         Retry, Restart, historyVars
<1>2. ASSUME NEW k \in Jobs
      PROVE  \/ status'[k] = status[k]
             \/ status[k] \notin Terminal /\ status'[k] \notin Terminal
  <2>1. CASE UNCHANGED status
    BY <2>1
  <2>2. CASE Record(w) \/ MarkStarted(w)
    <3>1. job[w] \in Jobs /\ status[job[w]] \notin Terminal
      BY <2>2, HolderHasJob DEF Record, MarkStarted, IndInv, Custody, Exclusive, Held
    <3> QED
      BY <2>2, <3>1 DEF Record, MarkStarted, IndInv, TypeOK
  <2> QED
    BY <2>1, <2>2 DEF FindsNothing, RunCompletes, RunFails, RunReturns, Retry, Restart,
       rowVars
<1>3. \A k \in Jobs : PhaseOf(k)' = PhaseOf(k)
  BY <1>1, <1>2, SamePhase
<1> QED
  BY <1>1, <1>3, StutterOf

\* The first message Telegram accepts in a run is Deliver.
LEMMA UploadDelivers ==
  ASSUME IndInv, NEW w \in Workers, MediaReachesChat(w)
  PROVE  \E j \in Jobs : Lifecycle!Deliver(j)
<1>1. PICK j \in Jobs : j = job[w] /\ Held(j)
  BY HolderHasJob DEF MediaReachesChat, Held
<1>2. PhaseOf(j) = "working"
  BY <1>1, PhaseFacts
<1>3. uploads[j] < MaxAttempts
  BY <1>1, WorkerAssumption
     DEF MediaReachesChat, IndInv, TypeOK, HolderKnows, HistoryFits
<1>4. \A k \in Jobs : PhaseOf(k)' = PhaseOf(k)
  BY SamePhase DEF MediaReachesChat, rowVars
<1>5. notices' = notices /\ uploads' = [uploads EXCEPT ![j] = @ + 1]
  BY <1>1 DEF MediaReachesChat
<1>6. Lifecycle!Deliver(j)
  BY <1>1, <1>2, <1>3, <1>4, <1>5 DEF Lifecycle!Deliver
<1> QED
  BY <1>1, <1>6

\* mark_completed is Complete, mark_failed is Fail.
LEMMA OutcomeSettles ==
  ASSUME IndInv, NEW w \in Workers, MarkCompleted(w) \/ MarkFailed(w)
  PROVE  \E j \in Jobs : Lifecycle!Complete(j) \/ Lifecycle!Fail(j)
<1>1. PICK j \in Jobs : j = job[w] /\ Held(j) /\ pc[w] = "settle"
  BY HolderHasJob DEF MarkCompleted, MarkFailed, Held
<1>2. PhaseOf(j) = "working" /\ j \in accepted
  BY <1>1, PhaseFacts DEF IndInv, Custody, Accounted
<1>3. UNCHANGED <<accepted, queue, abandoned, uploads, notices>>
  BY DEF MarkCompleted, MarkFailed, historyVars
<1>4. \A k \in Jobs \ {j} : status'[k] = status[k]
  BY <1>1 DEF MarkCompleted, MarkFailed, IndInv, TypeOK
<1>5. \A k \in Jobs \ {j} : PhaseOf(k)' = PhaseOf(k)
  BY <1>3, <1>4, SamePhase
<1>6. CASE MarkCompleted(w)
  <2>1. PhaseOf(j)' = "completed"
    BY <1>1, <1>2, <1>3, <1>6 DEF MarkCompleted, PhaseOf, IndInv, TypeOK
  <2>2. uploads[j] > 0
    BY <1>1, <1>6 DEF MarkCompleted, IndInv, HolderKnows
  <2>3. Lifecycle!Complete(j)
    BY <1>1, <1>2, <1>3, <1>5, <2>1, <2>2, MoveOf DEF Lifecycle!Complete
  <2> QED
    BY <1>1, <2>3
<1>7. CASE MarkFailed(w)
  <2>1. PhaseOf(j)' = "failed"
    BY <1>1, <1>2, <1>3, <1>7 DEF MarkFailed, PhaseOf, IndInv, TypeOK
  <2>2. Lifecycle!Fail(j)
    BY <1>1, <1>2, <1>3, <1>5, <2>1, MoveOf DEF Lifecycle!Fail
  <2> QED
    BY <1>1, <2>2
<1> QED
  BY <1>6, <1>7

\* A notification that arrives is Announce; one that does not is invisible.
LEMMA NotificationAnnounces ==
  ASSUME IndInv, NEW w \in Workers, NotifyFailed(w)
  PROVE  (\E j \in Jobs : Lifecycle!Announce(j)) \/ UNCHANGED Lifecycle!vars
<1>1. PICK j \in Jobs : j = job[w] /\ status[j] = "failed" /\ notices[j] = 0
  BY HolderHasJob DEF NotifyFailed, IndInv, HolderKnows
<1>2. PhaseOf(j) = "failed"
  BY <1>1, PhaseFacts
<1>3. UNCHANGED <<accepted, queue, status, abandoned, uploads>>
  BY DEF NotifyFailed, rowVars
<1>4. \A k \in Jobs : PhaseOf(k)' = PhaseOf(k)
  BY <1>3, SamePhase
<1>5. CASE UNCHANGED notices
  BY <1>3, <1>4, <1>5, StutterOf
<1>6. CASE notices' = [notices EXCEPT ![job[w]] = @ + 1]
  <2>1. notices' = [notices EXCEPT ![j] = 1]
    <3>1. notices[job[w]] + 1 = 1
      BY <1>1
    <3>2. notices' = [notices EXCEPT ![j] = notices[job[w]] + 1]
      BY <1>1, <1>6
    <3> QED
      BY <3>1, <3>2
  <2>2. Lifecycle!Announce(j)
    BY <1>1, <1>2, <1>3, <1>4, <2>1 DEF Lifecycle!Announce
  <2> QED
    BY <1>1, <2>2
<1> QED
  BY <1>5, <1>6 DEF NotifyFailed

\* The death of a worker abandons the job it was working on, if any.
LEMMA DeathAbandons ==
  ASSUME IndInv, NEW w \in Workers, Dies(w)
  PROVE  (\E j \in Jobs : Lifecycle!Abandon(j)) \/ UNCHANGED Lifecycle!vars
<1>1. UNCHANGED <<accepted, queue, status, uploads, notices>>
  BY DEF Dies, rowVars
<1>2. CASE pc[w] \notin Working
  <2>1. abandoned' = abandoned
    BY <1>2 DEF Dies
  <2>2. \A k \in Jobs : PhaseOf(k)' = PhaseOf(k)
    BY <1>1, <2>1, SamePhase
  <2> QED
    BY <1>1, <2>2, StutterOf
<1>3. CASE pc[w] \in Working
  <2>1. PICK j \in Jobs : j = job[w] /\ Held(j)
    BY <1>3, HolderHasJob DEF Held
  <2>2. abandoned' = abandoned \union {j}
    BY <1>3, <2>1 DEF Dies
  <2>3. PhaseOf(j) = "working" /\ j \in accepted /\ status[j] \notin Terminal
    BY <2>1, PhaseFacts DEF IndInv, Custody, Accounted, Exclusive
  <2>4. PhaseOf(j)' = "abandoned"
    BY <1>1, <2>2, <2>3 DEF PhaseOf
  <2>5. \A k \in Jobs \ {j} : PhaseOf(k)' = PhaseOf(k)
    BY <1>1, <2>2 DEF PhaseOf, Queued
  <2>6. Lifecycle!Abandon(j)
    BY <1>1, <2>1, <2>3, <2>4, <2>5, MoveOf DEF Lifecycle!Abandon
  <2> QED
    BY <2>1, <2>6
<1> QED
  BY <1>2, <1>3

\* At the start every job is new.
LEMMA InitMaps == Init => Lifecycle!Init
  BY DEF Init, Lifecycle!Init, PhaseOf

\* Every step is a step of the lifecycle or a stutter.
LEMMA StepMaps ==
  ASSUME IndInv, [Next]_vars
  PROVE  [Lifecycle!Next]_Lifecycle!vars
<1>1. CASE UNCHANGED vars
  <2>1. UNCHANGED <<accepted, queue, abandoned, status, uploads, notices>>
    BY <1>1 DEF vars, rowVars, historyVars
  <2>2. \A k \in Jobs : PhaseOf(k)' = PhaseOf(k)
    BY <2>1, SamePhase
  <2> QED
    BY <2>1, <2>2, StutterOf
<1>2. ASSUME NEW j \in Jobs, Enqueue(j) PROVE Lifecycle!Next
  BY <1>2, EnqueueAccepts DEF Lifecycle!Next
<1>3. ASSUME NEW w \in Workers, Step(w) PROVE [Lifecycle!Next]_Lifecycle!vars
  <2>1. CASE Dequeue(w)
    BY <2>1, DequeueTakes DEF Lifecycle!Next
  <2>2. CASE \/ FindsNothing(w) \/ Record(w) \/ MarkStarted(w) \/ RunCompletes(w)
             \/ RunFails(w) \/ Retry(w)
    BY <2>2, BookkeepingStutters
  <2>3. CASE MediaReachesChat(w)
    BY <2>3, UploadDelivers DEF Lifecycle!Next
  <2>4. CASE MarkCompleted(w) \/ MarkFailed(w)
    BY <2>4, OutcomeSettles DEF Lifecycle!Next
  <2>5. CASE NotifyFailed(w)
    BY <2>5, NotificationAnnounces DEF Lifecycle!Next
  <2> QED
    BY <1>3, <2>1, <2>2, <2>3, <2>4, <2>5 DEF Step
<1>4. ASSUME NEW w \in Workers, RunRaises(w) \/ Crash(w)
      PROVE  [Lifecycle!Next]_Lifecycle!vars
  <2>1. Dies(w)
    BY <1>4 DEF RunRaises, Crash
  <2> QED
    BY <2>1, DeathAbandons DEF Lifecycle!Next
<1>5. ASSUME NEW w \in Workers, Restart(w) PROVE UNCHANGED Lifecycle!vars
  BY <1>5, BookkeepingStutters
<1> QED
  BY <1>1, <1>2, <1>3, <1>4, <1>5 DEF Next

\* Queue, workers, retries, deaths and restarts together behave like the
\* one-owner lifecycle of JobLifecycle.
THEOREM LifecycleIsImplemented == Spec => ImplementsLifecycle
<1>1. IndInv /\ [Next]_vars => [Lifecycle!Next]_Lifecycle!vars
  BY StepMaps
<1> QED
  BY <1>1, InitMaps, Inductive, PTL DEF Spec, ImplementsLifecycle, Lifecycle!Spec
=============================================================================
