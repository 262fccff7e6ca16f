-------------------------- MODULE JobHistoryProofs --------------------------
(***************************************************************************)
(* Proofs that the times of JobHistory stay in order and that /history     *)
(* shows what a worker recorded last, for any jobs, workers, attempts and  *)
(* restarts.  The argument is HoldersFit: the transaction time of the      *)
(* worker that holds a job lies after every time its row already has.      *)
(***************************************************************************)
EXTENDS JobHistory, SequenceTheorems, TLAPS

\* A worker's transaction did not begin in the future.
ClocksFit == \A w \in Workers : began[w] # Idle => began[w] <= now

\* A job is held by one worker, and its row is as far as that worker.
HoldersFit ==
  /\ \A w, v \in Workers : job[w] = job[v] /\ job[w] # NoJob => w = v
  /\ \A j \in Jobs \ taken : rows[j].status = "none"
  /\ \A w \in Workers :
       /\ job[w] = NoJob <=> pc[w] \in {"poll", "done"}
       /\ job[w] # NoJob => job[w] \in taken
       /\ pc[w] = "record" => rows[job[w]].status = "none"
       /\ pc[w] \in {"start", "run"} =>
            /\ began[w] # Idle
            /\ rows[job[w]].status # "none" /\ rows[job[w]].finished = Never
            /\ rows[job[w]].created <= began[w]
            /\ rows[job[w]].started # Never => rows[job[w]].started <= began[w]
       /\ pc[w] = "run" => /\ rows[job[w]].started # Never
                           /\ entered[job[w]] <= began[w]

\* A worker's jobs were dated in the order it recorded them, none later than the
\* time its connection reads now.
ListsFit ==
  \A w \in Workers :
    /\ \A n \in DOMAIN recorded[w] :
         /\ rows[recorded[w][n]].status # "none"
         /\ rows[recorded[w][n]].created <= Timestamp(w)
    /\ \A m, n \in DOMAIN recorded[w] : m < n =>
         rows[recorded[w][m]].created <= rows[recorded[w][n]].created

HistoryInv == TypeOK /\ ClocksFit /\ HoldersFit /\ StampsAreOrdered /\ ListsFit
-----------------------------------------------------------------------------
(* Lemmas                                                                  *)

\* Appending leaves the earlier elements in place.
LEMMA AppendFacts ==
  ASSUME NEW S, NEW q \in Seq(S), NEW e \in S
  PROVE  /\ Append(q, e) \in Seq(S)
         /\ DOMAIN Append(q, e) = 1..Len(q) + 1
         /\ DOMAIN q = 1..Len(q) /\ Len(q) \in Nat
         /\ \A i \in 1..Len(q) : Append(q, e)[i] = q[i]
         /\ Append(q, e)[Len(q) + 1] = e
  BY LenProperties

\* The elements of a worker's list are jobs.
LEMMA RecordedAreJobs ==
  ASSUME TypeOK, NEW w \in Workers, NEW n \in DOMAIN recorded[w]
  PROVE  recorded[w][n] \in Jobs
<1>1. recorded[w] \in Seq(Jobs)
  BY DEF TypeOK
<1> QED
  BY <1>1, ElementOfSeq, LenProperties

\* The columns of a row.
LEMMA RowFacts ==
  ASSUME TypeOK, NEW k \in Jobs
  PROVE  /\ rows[k].status \in {"none", "queued", "started", "completed", "failed"}
         /\ rows[k].created \in Times /\ rows[k].started \in Times /\ rows[k].finished \in Times
         /\ rows[k].created \in Nat /\ rows[k].started \in Nat
<1>1. rows[k] \in [status : {"none", "queued", "started", "completed", "failed"},
                   created : Times, started : Times, finished : Times]
  BY DEF TypeOK
<1> HIDE DEF Times
<1>2. /\ rows[k].status \in {"none", "queued", "started", "completed", "failed"}
      /\ rows[k].created \in Times /\ rows[k].started \in Times /\ rows[k].finished \in Times
  BY <1>1
<1>3. Times \subseteq Nat
  BY HistoryAssumption DEF Times, Never
<1> QED
  BY <1>2, <1>3

\* A row stays a row when the outcome is written.
LEMMA OutcomeOfRow ==
  ASSUME NEW S, NEW T, NEW x \in S, NEW y \in T,
         NEW r \in [status : S, created : T, started : T, finished : T]
  PROVE  [r EXCEPT !.status = x, !.finished = y]
           \in [status : S, created : T, started : T, finished : T]
  OBVIOUS

\* What a connection reads as the time.
LEMMA TimestampIsPast ==
  ASSUME TypeOK, ClocksFit, NEW w \in Workers
  PROVE  /\ Timestamp(w) \in 0..MaxTime /\ Timestamp(w) <= now
         /\ began[w] # Idle => Timestamp(w) = began[w]
  BY HistoryAssumption DEF TypeOK, ClocksFit, Timestamp, Idle

\* No job has a worker, a row or a time.
LEMMA InitHistoryInv == Init => HistoryInv
<1> SUFFICES ASSUME Init PROVE HistoryInv
  OBVIOUS
<1> USE HistoryAssumption DEF Init
<1>1. TypeOK
  BY DEF TypeOK, NoRow, Times, Idle, Never
<1>2. ClocksFit /\ HoldersFit /\ StampsAreOrdered
  BY DEF ClocksFit, HoldersFit, StampsAreOrdered, NoRow
<1>3. ListsFit
  BY DEF ListsFit
<1> QED
  BY <1>1, <1>2, <1>3 DEF HistoryInv
-----------------------------------------------------------------------------
(* The actions                                                             *)

\* A job that is taken had no worker, and its row has no times yet.
LEMMA TakeKeeps ==
  ASSUME HistoryInv, NEW w \in Workers, NEW j \in Jobs, Take(w, j)
  PROVE  HistoryInv'
<1> USE HistoryAssumption DEF HistoryInv
<1>1. Timestamp(w) \in 0..MaxTime /\ Timestamp(w) <= now
  BY TimestampIsPast
<1>2. TypeOK'
  BY <1>1 DEF TypeOK, Take
<1>3. ClocksFit'
  BY <1>1 DEF TypeOK, ClocksFit, Take
<1>4. HoldersFit'
  BY <1>1 DEF TypeOK, HoldersFit, Take
<1>5. StampsAreOrdered'
  BY DEF StampsAreOrdered, Take
<1>6. ListsFit'
  <2>1. \A v \in Workers : Timestamp(v)' = Timestamp(v)
    BY <1>1 DEF TypeOK, Take, Timestamp, Idle
  <2> QED
    BY <2>1 DEF ListsFit, Take
<1> QED
  BY <1>2, <1>3, <1>4, <1>5, <1>6

\* The row is dated by the transaction of its only worker, which may open with it.
LEMMA RecordKeeps ==
  ASSUME HistoryInv, NEW w \in Workers, Record(w)
  PROVE  HistoryInv'
<1> USE HistoryAssumption DEF HistoryInv
<1> DEFINE j == job[w]
           row == [NoRow EXCEPT !.status = "queued", !.created = Timestamp(w)]
<1>1. Timestamp(w) \in 0..MaxTime /\ Timestamp(w) <= now
  BY TimestampIsPast
<1>2. /\ j \in Jobs /\ rows[j].status = "none" /\ now \in 0..MaxTime
      /\ rows' = [rows EXCEPT ![j] = row]
      /\ recorded' = [recorded EXCEPT ![w] = Append(@, j)]
      /\ pc' = [pc EXCEPT ![w] = "start"] /\ began' = [began EXCEPT ![w] = now]
      /\ UNCHANGED <<now, job, attempt, entered, settled, taken, restarts>>
  BY DEF Record, HoldersFit, TypeOK, AfterCommit
<1>3. /\ row.status = "queued" /\ row.created = Timestamp(w)
      /\ row.started = Never /\ row.finished = Never
      /\ row \in [status : {"none", "queued", "started", "completed", "failed"},
                  created : Times, started : Times, finished : Times]
  BY <1>1 DEF NoRow, Times
<1> HIDE DEF row
<1>4. \A k \in Jobs : rows'[k] = IF k = j THEN row ELSE rows[k]
  BY <1>2 DEF TypeOK
<1>5. TypeOK'
  <2>1. rows' \in [Jobs -> [status : {"none", "queued", "started", "completed", "failed"},
                           created : Times, started : Times, finished : Times]]
    BY <1>2, <1>3 DEF TypeOK
  <2>2. recorded' \in [Workers -> Seq(Jobs)]
    BY <1>2, AppendFacts DEF TypeOK
  <2> QED
    BY <1>2, <2>1, <2>2 DEF TypeOK
<1>6. ClocksFit'
  BY <1>2 DEF TypeOK, ClocksFit, Idle
<1>7. HoldersFit'
  <2>1. now # Idle /\ Timestamp(w) <= now
    BY <1>1, <1>2 DEF Idle
  <2>2. \A v \in Workers \ {w} : job[v] # NoJob => job[v] # j
    BY <1>2 DEF HoldersFit
  <2>3. \A k \in Jobs \ taken' : rows'[k].status = "none"
    BY <1>2, <1>4 DEF HoldersFit, Record
  <2>4. ASSUME NEW v \in Workers \ {w}
        PROVE  /\ pc'[v] = pc[v] /\ began'[v] = began[v] /\ job'[v] = job[v]
               /\ job[v] # NoJob => job[v] \in Jobs /\ rows'[job[v]] = rows[job[v]]
    BY <1>2, <1>4, <2>2 DEF TypeOK
  <2>5. pc'[w] = "start" /\ began'[w] = now
    BY <1>2 DEF TypeOK
  <2>6. \A v \in Workers : job'[v] = NoJob <=> pc'[v] \in {"poll", "done"}
    BY <1>2, <2>4, <2>5 DEF HoldersFit
  <2> QED
    BY <1>2, <1>3, <1>4, <2>1, <2>3, <2>4, <2>5, <2>6 DEF HoldersFit
<1>8. StampsAreOrdered'
  BY <1>1, <1>2, <1>3, <1>4 DEF StampsAreOrdered
<1>9. ListsFit'
  <2>1. ASSUME NEW v \in Workers, NEW n \in DOMAIN recorded[v]
        PROVE  /\ recorded[v][n] \in Jobs /\ recorded[v][n] # j
               /\ rows'[recorded[v][n]] = rows[recorded[v][n]]
    BY <1>2, <1>4, RecordedAreJobs DEF ListsFit
  <2>2. ASSUME NEW v \in Workers \ {w}
        PROVE  recorded'[v] = recorded[v] /\ Timestamp(v)' = Timestamp(v)
    BY <1>2 DEF TypeOK, Timestamp
  <2>3. recorded[w] \in Seq(Jobs) /\ recorded'[w] = Append(recorded[w], j)
    BY <1>2 DEF TypeOK
  <2>4. /\ DOMAIN recorded'[w] = 1..Len(recorded[w]) + 1
        /\ DOMAIN recorded[w] = 1..Len(recorded[w]) /\ Len(recorded[w]) \in Nat
        /\ \A n \in 1..Len(recorded[w]) : recorded'[w][n] = recorded[w][n]
        /\ recorded'[w][Len(recorded[w]) + 1] = j
    BY <1>2, <2>3, AppendFacts
  <2>5. Timestamp(w)' = now
    BY <1>2 DEF TypeOK, Timestamp, Idle
  <2>6. \A n \in DOMAIN recorded'[w] :
          /\ rows'[recorded'[w][n]].status # "none"
          /\ rows'[recorded'[w][n]].created <= Timestamp(w)
    <3>1. rows'[j] = row
      BY <1>2, <1>4
    <3>2. \A n \in 1..Len(recorded[w]) : rows'[recorded'[w][n]] = rows[recorded[w][n]]
      BY <2>1, <2>4
    <3>3. ASSUME NEW n \in 1..Len(recorded[w])
          PROVE  /\ rows'[recorded'[w][n]].status # "none"
                 /\ rows'[recorded'[w][n]].created <= Timestamp(w)
      BY <2>4, <3>2 DEF ListsFit
    <3>4. row.status # "none" /\ row.created <= Timestamp(w)
      BY <1>1, <1>3
    <3>5. DOMAIN recorded'[w] = 1..Len(recorded[w]) \union {Len(recorded[w]) + 1}
      BY <2>4
    <3> QED
      BY <2>4, <3>1, <3>3, <3>4, <3>5
  <2>7. \A m, n \in DOMAIN recorded'[w] : m < n =>
          rows'[recorded'[w][m]].created <= rows'[recorded'[w][n]].created
    <3>1. SUFFICES ASSUME NEW m \in DOMAIN recorded'[w], NEW n \in DOMAIN recorded'[w], m < n
                   PROVE  rows'[recorded'[w][m]].created <= rows'[recorded'[w][n]].created
      OBVIOUS
    <3>2. m \in 1..Len(recorded[w]) /\ rows'[recorded'[w][m]] = rows[recorded[w][m]]
      BY <2>1, <2>4, <3>1
    <3>3. CASE n = Len(recorded[w]) + 1
      BY <1>2, <1>3, <1>4, <2>4, <2>6, <3>1, <3>2, <3>3
    <3>4. CASE n \in 1..Len(recorded[w])
      BY <2>1, <2>4, <3>1, <3>2, <3>4 DEF ListsFit
    <3> QED
      BY <2>4, <3>3, <3>4
  <2>8. \A n \in DOMAIN recorded'[w] : rows'[recorded'[w][n]].created <= Timestamp(w)'
    <3>1. SUFFICES ASSUME NEW n \in DOMAIN recorded'[w]
                   PROVE  rows'[recorded'[w][n]].created <= now
      BY <2>5
    <3>2. rows'[recorded'[w][n]].created \in Nat
      <4>1. CASE n = Len(recorded[w]) + 1
        BY <1>1, <1>2, <1>3, <1>4, <2>4, <4>1
      <4>2. CASE n \in 1..Len(recorded[w])
        <5>1. recorded[w][n] \in Jobs /\ rows'[recorded'[w][n]] = rows[recorded[w][n]]
          BY <2>1, <2>4, <4>2
        <5> QED
          BY <5>1, RowFacts
      <4> QED
        BY <2>4, <3>1, <4>1, <4>2
    <3>3. rows'[recorded'[w][n]].created <= Timestamp(w)
      BY <2>6, <3>1
    <3> DEFINE created == rows'[recorded'[w][n]].created
    <3> HIDE DEF created
    <3>4. created \in Nat /\ created <= Timestamp(w)
      BY <3>2, <3>3 DEF created
    <3>5. created <= now
      BY <1>1, <1>2, <3>4
    <3> QED
      BY <3>5 DEF created
  <2> QED
    BY <2>1, <2>2, <2>6, <2>7, <2>8 DEF ListsFit
<1> QED
  BY <1>5, <1>6, <1>7, <1>8, <1>9

\* A start is dated no earlier than the row, by the same worker's transaction.
LEMMA StartKeeps ==
  ASSUME HistoryInv, NEW w \in Workers, Start(w)
  PROVE  HistoryInv'
<1> USE HistoryAssumption DEF HistoryInv
<1> DEFINE j == job[w]
           row == Started(rows[j], Timestamp(w))
<1>1. Timestamp(w) \in 0..MaxTime /\ Timestamp(w) <= now /\ Timestamp(w) = began[w]
  BY TimestampIsPast DEF Start, HoldersFit
<1>2. /\ j \in Jobs /\ j # NoJob /\ now \in 0..MaxTime
      /\ rows[j].status # "none" /\ rows[j].finished = Never
      /\ rows[j].created <= began[w]
      /\ rows[j].started # Never => rows[j].started <= began[w]
      /\ rows' = [rows EXCEPT ![j] = row]
      /\ entered' = [entered EXCEPT ![j] = now]
      /\ pc' = [pc EXCEPT ![w] = "run"] /\ began' = [began EXCEPT ![w] = now]
      /\ UNCHANGED <<now, job, attempt, recorded, settled, taken, restarts>>
  BY DEF Start, HoldersFit, TypeOK, AfterCommit
<1>3. /\ row.status = "started" /\ row.created = rows[j].created /\ row.finished = Never
      /\ row.started = IF rows[j].started = Never THEN Timestamp(w) ELSE rows[j].started
      /\ row \in [status : {"none", "queued", "started", "completed", "failed"},
                  created : Times, started : Times, finished : Times]
  <2>1. rows[j] \in [status : {"none", "queued", "started", "completed", "failed"},
                     created : Times, started : Times, finished : Times]
    BY <1>2 DEF TypeOK
  <2>2. Timestamp(w) \in Times
    BY <1>1 DEF Times
  <2> HIDE DEF Times
  <2>3. /\ row.status = "started"
        /\ row.created = rows[j].created /\ row.finished = rows[j].finished
        /\ row.started = IF rows[j].started = Never THEN Timestamp(w) ELSE rows[j].started
    BY <2>1 DEF Started
  <2>4. row \in [status : {"none", "queued", "started", "completed", "failed"},
                created : Times, started : Times, finished : Times]
    BY <2>1, <2>2 DEF Started
  <2> QED
    BY <1>2, <2>3, <2>4
<1> HIDE DEF row
<1>4. \A k \in Jobs : rows'[k] = IF k = j THEN row ELSE rows[k]
  BY <1>2 DEF TypeOK
<1>5. row.started # Never /\ row.started <= now /\ row.created <= now
      /\ (StampsAreOrdered => row.created <= row.started)
  <2>1. rows[j].created \in Nat /\ rows[j].started \in Nat /\ Never \notin 0..MaxTime
    BY <1>2 DEF TypeOK, Times, Never
  <2>2. StampsAreOrdered /\ rows[j].started # Never => rows[j].created <= rows[j].started
    BY <1>2 DEF StampsAreOrdered
  <2> QED
    BY <1>1, <1>2, <1>3, <2>1, <2>2
<1>6. TypeOK'
  <2>1. rows' \in [Jobs -> [status : {"none", "queued", "started", "completed", "failed"},
                           created : Times, started : Times, finished : Times]]
    BY <1>2, <1>3 DEF TypeOK
  <2>2. entered' \in [Jobs -> Times]
    BY <1>2 DEF TypeOK, Times
  <2> QED
    BY <1>2, <2>1, <2>2 DEF TypeOK
<1>7. ClocksFit'
  BY <1>2 DEF TypeOK, ClocksFit, Idle
<1>8. HoldersFit'
  <2>1. now # Idle
    BY <1>2 DEF Idle
  <2>2. \A v \in Workers \ {w} : job[v] # NoJob => job[v] # j
    BY <1>2 DEF HoldersFit
  <2>3. \A k \in Jobs \ taken' : rows'[k].status = "none"
    BY <1>2, <1>4 DEF HoldersFit
  <2>4. ASSUME NEW v \in Workers \ {w}
        PROVE  /\ pc'[v] = pc[v] /\ began'[v] = began[v] /\ job'[v] = job[v]
               /\ job[v] # NoJob => /\ job[v] \in Jobs /\ rows'[job[v]] = rows[job[v]]
                                    /\ entered'[job[v]] = entered[job[v]]
    BY <1>2, <1>4, <2>2 DEF TypeOK
  <2>5. pc'[w] = "run" /\ began'[w] = now /\ entered'[j] = now
    BY <1>2 DEF TypeOK
  <2>6. \A v \in Workers : job'[v] = NoJob <=> pc'[v] \in {"poll", "done"}
    BY <1>2, <2>4, <2>5 DEF HoldersFit
  <2> QED
    BY <1>2, <1>3, <1>4, <1>5, <2>1, <2>3, <2>4, <2>5, <2>6 DEF HoldersFit
<1>9. StampsAreOrdered'
  <2>1. \A k \in Jobs \ {j} : entered'[k] = entered[k]
    BY <1>2 DEF TypeOK
  <2> QED
    BY <1>2, <1>3, <1>4, <1>5, <2>1 DEF StampsAreOrdered
<1>10. ListsFit'
  <2>1. ASSUME NEW v \in Workers, NEW n \in DOMAIN recorded[v]
        PROVE  /\ rows'[recorded[v][n]].status # "none"
               /\ rows'[recorded[v][n]].created = rows[recorded[v][n]].created
               /\ rows[recorded[v][n]].created \in Nat
    BY <1>2, <1>3, <1>4, RecordedAreJobs DEF ListsFit, TypeOK, Times, Never
  <2>2. \A v \in Workers : Timestamp(v) \in Nat /\ Timestamp(v)' \in Nat /\ Timestamp(v) <= Timestamp(v)'
    <3>1. \A v \in Workers \ {w} : Timestamp(v)' = Timestamp(v)
      BY <1>2 DEF TypeOK, Timestamp
    <3>2. Timestamp(w)' = now
      BY <1>2 DEF TypeOK, Timestamp, Idle
    <3>3. \A v \in Workers : Timestamp(v) \in 0..MaxTime
      BY TimestampIsPast
    <3> QED
      BY <1>1, <1>2, <3>1, <3>2, <3>3
  <2>3. \A v \in Workers : recorded'[v] = recorded[v]
    BY <1>2
  <2> QED
    BY <2>1, <2>2, <2>3 DEF ListsFit
<1> QED
  BY <1>6, <1>7, <1>8, <1>9, <1>10

\* A retry writes no time; the worker's transaction is the one it had.
LEMMA RetryKeeps ==
  ASSUME HistoryInv, NEW w \in Workers, Retry(w)
  PROVE  HistoryInv'
<1> USE HistoryAssumption DEF HistoryInv
<1>1. /\ pc[w] = "run" /\ attempt[w] < MaxAttempts
      /\ attempt' = [attempt EXCEPT ![w] = @ + 1] /\ pc' = [pc EXCEPT ![w] = "start"]
      /\ UNCHANGED <<now, began, job, rows, recorded, entered, settled, taken, restarts>>
  BY DEF Retry
<1>2. TypeOK'
  BY <1>1 DEF TypeOK
<1>3. HoldersFit'
  BY <1>1 DEF TypeOK, HoldersFit
<1>4. ClocksFit' /\ StampsAreOrdered' /\ ListsFit'
  BY <1>1 DEF ClocksFit, StampsAreOrdered, ListsFit, Timestamp
<1> QED
  BY <1>2, <1>3, <1>4

\* The end is dated no earlier than the start, and the job leaves its worker.
LEMMA SettleKeeps ==
  ASSUME HistoryInv, NEW w \in Workers, Settle(w)
  PROVE  HistoryInv'
<1> USE HistoryAssumption DEF HistoryInv
<1> DEFINE j == job[w]
<1>1. Timestamp(w) \in 0..MaxTime /\ Timestamp(w) <= now /\ Timestamp(w) = began[w]
  BY TimestampIsPast DEF Settle, HoldersFit
<1>2. PICK outcome \in {"completed", "failed"} :
        rows' = [rows EXCEPT ![j].status = outcome, ![j].finished = Timestamp(w)]
  BY DEF Settle
<1>3. /\ j \in Jobs /\ j # NoJob /\ now \in 0..MaxTime
      /\ rows[j].status # "none" /\ rows[j].created <= began[w]
      /\ rows[j].started # Never /\ rows[j].started <= began[w]
      /\ entered[j] <= began[w]
      /\ settled' = [settled EXCEPT ![j] = now]
      /\ pc' = [pc EXCEPT ![w] = IF w \in OneShots THEN "done" ELSE "poll"]
      /\ job' = [job EXCEPT ![w] = NoJob] /\ began' = [began EXCEPT ![w] = now]
      /\ UNCHANGED <<now, attempt, recorded, entered, taken, restarts>>
  BY DEF Settle, HoldersFit, TypeOK, AfterCommit
<1>4. /\ \A k \in Jobs \ {j} : rows'[k] = rows[k]
      /\ rows'[j].status = outcome /\ rows'[j].finished = Timestamp(w)
      /\ rows'[j].created = rows[j].created /\ rows'[j].started = rows[j].started
  BY <1>2, <1>3 DEF TypeOK
<1>5. TypeOK'
  <2>1. rows' \in [Jobs -> [status : {"none", "queued", "started", "completed", "failed"},
                           created : Times, started : Times, finished : Times]]
    <3>1. rows[j] \in [status : {"none", "queued", "started", "completed", "failed"},
                       created : Times, started : Times, finished : Times]
      BY <1>3 DEF TypeOK
    <3>2. Timestamp(w) \in Times
      BY <1>1 DEF Times
    <3> HIDE DEF Times
    <3>3. [rows[j] EXCEPT !.status = outcome, !.finished = Timestamp(w)]
            \in [status : {"none", "queued", "started", "completed", "failed"},
                 created : Times, started : Times, finished : Times]
      BY <3>1, <3>2, OutcomeOfRow
    <3>4. rows' = [rows EXCEPT ![j] =
                     [rows[j] EXCEPT !.status = outcome, !.finished = Timestamp(w)]]
      BY <1>2, <1>3 DEF TypeOK
    <3> QED
      BY <1>3, <3>3, <3>4 DEF TypeOK
  <2>2. settled' \in [Jobs -> Times]
    BY <1>3 DEF TypeOK, Times
  <2> QED
    BY <1>3, <2>1, <2>2 DEF TypeOK
<1>6. ClocksFit'
  BY <1>3 DEF TypeOK, ClocksFit, Idle
<1>7. HoldersFit'
  <2>1. \A v \in Workers \ {w} : job[v] # NoJob => job[v] # j
    BY <1>3 DEF HoldersFit
  <2>2. \A k \in Jobs \ taken' : rows'[k].status = "none"
    <3>1. j \in taken
      BY <1>3 DEF HoldersFit
    <3> QED
      BY <1>3, <1>4, <3>1 DEF HoldersFit
  <2>3. ASSUME NEW v \in Workers \ {w}
        PROVE  /\ pc'[v] = pc[v] /\ began'[v] = began[v] /\ job'[v] = job[v]
               /\ job[v] # NoJob => job[v] \in Jobs /\ rows'[job[v]] = rows[job[v]]
    BY <1>3, <1>4, <2>1 DEF TypeOK
  <2>4. pc'[w] \in {"done", "poll"} /\ job'[w] = NoJob
    BY <1>3 DEF TypeOK
  <2>5. \A v \in Workers : job'[v] = NoJob <=> pc'[v] \in {"poll", "done"}
    BY <2>3, <2>4 DEF HoldersFit
  <2> QED
    BY <1>3, <2>2, <2>3, <2>4, <2>5 DEF HoldersFit
<1>8. StampsAreOrdered'
  <2>1. /\ \A k \in Jobs \ {j} : settled'[k] = settled[k]
        /\ settled'[j] = now
    BY <1>3 DEF TypeOK
  <2>2. rows[j].created \in Nat /\ rows[j].started \in Nat /\ began[w] \in Nat
    BY <1>1, <1>3 DEF TypeOK, Times, Never
  <2>3. rows[j].created <= now /\ rows[j].created <= rows[j].started
    BY <1>3 DEF StampsAreOrdered
  <2> QED
    BY <1>1, <1>3, <1>4, <2>1, <2>2, <2>3 DEF StampsAreOrdered
<1>9. ListsFit'
  <2>1. ASSUME NEW v \in Workers, NEW n \in DOMAIN recorded[v]
        PROVE  /\ rows'[recorded[v][n]].status # "none"
               /\ rows'[recorded[v][n]].created = rows[recorded[v][n]].created
               /\ rows[recorded[v][n]].created \in Nat
    <3>1. recorded[v][n] \in Jobs /\ rows[recorded[v][n]].status # "none"
      BY <2>1, RecordedAreJobs DEF ListsFit
    <3>2. rows[recorded[v][n]].created \in Nat
      BY <3>1, RowFacts
    <3>3. outcome # "none"
      BY <1>2
    <3> QED
      BY <1>4, <3>1, <3>2, <3>3
  <2>2. \A v \in Workers : Timestamp(v) \in Nat /\ Timestamp(v)' \in Nat /\ Timestamp(v) <= Timestamp(v)'
    <3>1. \A v \in Workers \ {w} : Timestamp(v)' = Timestamp(v)
      BY <1>3 DEF TypeOK, Timestamp
    <3>2. Timestamp(w)' = now
      BY <1>3 DEF TypeOK, Timestamp, Idle
    <3>3. \A v \in Workers : Timestamp(v) \in 0..MaxTime
      BY TimestampIsPast
    <3> QED
      BY <1>1, <1>3, <3>1, <3>2, <3>3
  <2>3. \A v \in Workers : recorded'[v] = recorded[v]
    BY <1>3
  <2> QED
    BY <2>1, <2>2, <2>3 DEF ListsFit
<1> QED
  BY <1>5, <1>6, <1>7, <1>8, <1>9

\* A restart drops the job and the transaction of one worker.
LEMMA RestartKeeps ==
  ASSUME HistoryInv, NEW w \in Workers, Restart(w)
  PROVE  HistoryInv'
<1> USE HistoryAssumption DEF HistoryInv
<1>1. /\ restarts < MaxRestarts /\ restarts' = restarts + 1
      /\ pc' = [pc EXCEPT ![w] = "poll"] /\ job' = [job EXCEPT ![w] = NoJob]
      /\ began' = [began EXCEPT ![w] = Idle]
      /\ UNCHANGED <<now, attempt, rows, recorded, entered, settled, taken>>
  BY DEF Restart
<1>2. TypeOK' /\ ClocksFit' /\ StampsAreOrdered'
  BY <1>1 DEF TypeOK, ClocksFit, StampsAreOrdered
<1>3. HoldersFit'
  BY <1>1 DEF TypeOK, HoldersFit
<1>4. ListsFit'
  <2>1. \A v \in Workers : Timestamp(v) \in Nat /\ Timestamp(v)' \in Nat /\ Timestamp(v) <= Timestamp(v)'
    <3>1. \A v \in Workers \ {w} : Timestamp(v)' = Timestamp(v)
      BY <1>1 DEF TypeOK, Timestamp
    <3>2. Timestamp(w)' = now
      BY <1>1 DEF TypeOK, Timestamp
    <3>3. \A v \in Workers : Timestamp(v) \in 0..MaxTime /\ Timestamp(v) <= now
      BY TimestampIsPast
    <3> QED
      BY <3>1, <3>2, <3>3 DEF TypeOK
  <2>2. \A v \in Workers : \A n \in DOMAIN recorded[v] : rows[recorded[v][n]].created \in Nat
    <3>1. \A k \in Jobs : rows[k].created \in Nat
      BY DEF TypeOK, Times, Never
    <3> QED
      BY <3>1, RecordedAreJobs
  <2> QED
    BY <1>1, <2>1, <2>2 DEF ListsFit
<1> QED
  BY <1>2, <1>3, <1>4

\* Time passes, and what lay in the past still does.
LEMMA TickKeeps ==
  ASSUME HistoryInv, Tick
  PROVE  HistoryInv'
<1> USE HistoryAssumption DEF HistoryInv
<1>1. /\ now < MaxTime /\ now' = now + 1 /\ now \in Nat
      /\ UNCHANGED <<began, pc, job, attempt, rows, recorded, entered, settled, taken, restarts>>
  BY DEF Tick, TypeOK
<1>2. TypeOK'
  BY <1>1 DEF TypeOK
<1>3. ClocksFit' /\ HoldersFit'
  BY <1>1 DEF TypeOK, ClocksFit, HoldersFit, Idle
<1>4. StampsAreOrdered'
  <2>1. \A j \in Jobs : rows[j].created \in Nat
    BY DEF TypeOK, Times, Never
  <2> QED
    BY <1>1, <2>1 DEF StampsAreOrdered
<1>5. ListsFit'
  <2>1. \A v \in Workers : Timestamp(v) \in Nat /\ Timestamp(v)' \in Nat /\ Timestamp(v) <= Timestamp(v)'
    BY <1>1, TimestampIsPast DEF Timestamp, TypeOK, Idle
  <2>2. \A v \in Workers : \A n \in DOMAIN recorded[v] : rows[recorded[v][n]].created \in Nat
    <3>1. \A k \in Jobs : rows[k].created \in Nat
      BY DEF TypeOK, Times, Never
    <3> QED
      BY <3>1, RecordedAreJobs
  <2> QED
    BY <1>1, <2>1, <2>2 DEF ListsFit
<1> QED
  BY <1>2, <1>3, <1>4, <1>5

\* Nothing changes.
LEMMA StutterKeeps ==
  ASSUME HistoryInv, UNCHANGED vars
  PROVE  HistoryInv'
  BY DEF vars, HistoryInv, TypeOK, ClocksFit, HoldersFit, StampsAreOrdered, ListsFit, Timestamp

\* Every step keeps the invariant: one lemma for each action.
LEMMA NextKeepsHistoryInv == HistoryInv /\ [Next]_vars => HistoryInv'
<1> SUFFICES ASSUME HistoryInv, [Next]_vars PROVE HistoryInv'
  OBVIOUS
<1>1. ASSUME NEW w \in Workers, NEW j \in Jobs, Take(w, j) PROVE HistoryInv'
  BY <1>1, TakeKeeps
<1>2. ASSUME NEW w \in Workers, Record(w) \/ Start(w) \/ Retry(w) \/ Settle(w) \/ Restart(w)
      PROVE  HistoryInv'
  BY <1>2, RecordKeeps, StartKeeps, RetryKeeps, SettleKeeps, RestartKeeps
<1>3. CASE Tick
  BY <1>3, TickKeeps
<1>4. CASE UNCHANGED vars
  BY <1>4, StutterKeeps
<1> QED
  BY <1>1, <1>2, <1>3, <1>4 DEF Next
-----------------------------------------------------------------------------
(* Theorems                                                                *)

\* The inductive invariant holds in every behaviour.
THEOREM HistoryInductive == Spec => []HistoryInv
  BY InitHistoryInv, NextKeepsHistoryInv, PTL DEF Spec

\* Type correctness of rows, clocks and workers; with it, no more attempts than
\* RetryPolicy allows.
THEOREM HistoryTypeCorrect == Spec => []TypeOK
<1>1. HistoryInv => TypeOK
  BY DEF HistoryInv
<1> QED
  BY <1>1, HistoryInductive, PTL

\* created_at, started_at and finished_at are in order and never in the future,
\* whatever transactions the workers' connections have open.
THEOREM StampsStayOrdered == Spec => []StampsAreOrdered
<1>1. HistoryInv => StampsAreOrdered
  BY DEF HistoryInv
<1> QED
  BY <1>1, HistoryInductive, PTL

\* Among the jobs one worker recorded, /history leaves out the oldest.
THEOREM NewestStaysShown == Spec => []NewestIsShown
<1>1. HistoryInv => NewestIsShown
  <2>1. SUFFICES ASSUME HistoryInv, NEW shown \in Histories, NEW w \in Workers,
                        NEW m \in DOMAIN recorded[w], NEW n \in DOMAIN recorded[w],
                        recorded[w][m] \notin shown, recorded[w][n] \in shown
                 PROVE  m < n \/ rows[recorded[w][m]].created = rows[recorded[w][n]].created
    BY DEF NewestIsShown
  <2>2. recorded[w] \in Seq(Jobs) /\ TypeOK /\ ListsFit
    BY <2>1 DEF HistoryInv, TypeOK
  <2>3. m \in Nat /\ n \in Nat
    BY <2>1, <2>2, LenProperties
  <2>4. recorded[w][m] \in Listed
    BY DEF Listed, ToSet
  <2>5. rows[recorded[w][n]].created >= rows[recorded[w][m]].created
    BY <2>1, <2>4 DEF Histories
  <2>6. n < m => rows[recorded[w][n]].created <= rows[recorded[w][m]].created
    BY <2>1, <2>2 DEF ListsFit
  <2>7. /\ rows[recorded[w][n]].created \in Nat
        /\ rows[recorded[w][m]].created \in Nat
    BY <2>1, <2>2, RecordedAreJobs, RowFacts
  <2> QED
    BY <2>1, <2>3, <2>5, <2>6, <2>7
<1> QED
  BY <1>1, HistoryInductive, PTL
=============================================================================
