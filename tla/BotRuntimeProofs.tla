-------------------------- MODULE BotRuntimeProofs --------------------------
(***************************************************************************)
(* Proofs that the safety properties of BotRuntime hold for any users,     *)
(* platforms and requests, and any number of updates, deaths and faults.   *)
(* A handler has an effect and a reply; AnswerFits says what the reply on  *)
(* its way still has to do with the update and the jobs, DeliveriesFit how *)
(* far the jobs of an update have got ahead of the deaths of the bot, and  *)
(* EffectsFit which requests can have an effect at all.                    *)
(***************************************************************************)
EXTENDS BotRuntime, FiniteSetTheorems, SequenceTheorems, TLAPS

\* Users write to the bot themselves or in the group; what was not sent is not handled.
LogFits ==
  /\ Len(log) <= MaxUpdates
  /\ \A i \in Updates : log[i].chat \in {log[i].user, Group}
  /\ \A i \in 1..MaxUpdates : i > Len(log) => ended[i] = "pending"

JobsFit == jobs \in Seq([user : Users, chat : Users \union {Group}, from : Nat])

\* The reply on its way belongs to the update at hand: account data to the private
\* chat of its sender, "queued" to a job made from it.
AnswerFits ==
  pc = "reply" =>
    /\ next <= fetched
    /\ answer.text \in AccountTexts => Current.chat = Current.user /\ answer.user = Current.user
    /\ answer.text = "queued" =>
         \E n \in DOMAIN jobs :
           jobs[n].from = next /\ jobs[n].chat = Current.chat /\ jobs[n].user = answer.user
    /\ HasEffect(next) => answer.text \in {"queued", "link"}

\* A request that is answered with a job or a link, if it is answered.
Effective(update) ==
  \/ update.request.command = "connect" /\ Private(update)
  \/ update.request.command = "text" /\ update.request.link = "supported"

EffectsFit ==
  /\ \A l \in links : l.from \in Updates
  /\ \A i \in Updates : HasEffect(i) => Effective(log[i])

JobsOf(i) == {n \in DOMAIN jobs : jobs[n].from = i}

\* An update that is still to be handled has no more jobs than the bot has died.
DeliveriesFit ==
  \A i \in Updates :
    /\ Cardinality(JobsOf(i)) <= 1 + crashes
    /\ i > next \/ (i = next /\ pc # "reply") => Cardinality(JobsOf(i)) <= crashes

BotInv ==
  /\ TypeOK /\ LogFits /\ JobsFit /\ AnswerFits
  /\ AccountsStayPrivate /\ JobsAreTheSenders /\ DeliveriesFit
  /\ EffectsFit /\ EffectsAreTold
-----------------------------------------------------------------------------
(* Lemmas                                                                  *)

\* Appending leaves the earlier elements in place.
LEMMA AppendFacts ==
  ASSUME NEW S, NEW q \in Seq(S), NEW e \in S
  PROVE  /\ Append(q, e) \in Seq(S)
         /\ Len(Append(q, e)) = Len(q) + 1
         /\ DOMAIN Append(q, e) = 1..Len(q) + 1
         /\ DOMAIN q = 1..Len(q)
         /\ \A i \in 1..Len(q) : Append(q, e)[i] = q[i]
         /\ Append(q, e)[Len(q) + 1] = e
  BY LenProperties

\* A set of positions of a list is finite.
LEMMA JobsOfIsFinite ==
  ASSUME JobsFit, NEW i
  PROVE  IsFiniteSet(JobsOf(i)) /\ Cardinality(JobsOf(i)) \in Nat
<1>1. IsFiniteSet(1..Len(jobs))
  BY LenProperties, FS_Interval DEF JobsFit
<1>2. JobsOf(i) \subseteq 1..Len(jobs)
  BY LenProperties DEF JobsOf, JobsFit
<1> QED
  BY <1>1, <1>2, FS_Subset, FS_CardinalityType

\* The update at hand is one that was sent.
LEMMA CurrentIsSent ==
  ASSUME BotInv, next <= fetched
  PROVE  /\ next \in Updates /\ next \in 1..MaxUpdates
         /\ Current = log[next]
         /\ Current \in [user : Users, chat : Users \union {Group}, request : Requests]
         /\ Current.chat \in {Current.user, Group}
<1>1. /\ next \in Nat /\ next >= 1 /\ fetched \in Nat /\ fetched <= Len(log)
      /\ Len(log) \in Nat /\ Len(log) <= MaxUpdates
      /\ log \in Seq([user : Users, chat : Users \union {Group}, request : Requests])
  BY DEF BotInv, TypeOK, LogFits
<1>2. next \in 1..Len(log)
  BY <1>1
<1>3. log[next] \in [user : Users, chat : Users \union {Group}, request : Requests]
  BY <1>1, <1>2, ElementOfSeq
<1>4. log[next].chat \in {log[next].user, Group}
  BY <1>2 DEF BotInv, LogFits, Updates
<1>5. next \in 1..MaxUpdates
  BY <1>1, BotAssumption
<1> QED
  BY <1>2, <1>3, <1>4, <1>5 DEF Current, Updates

\* No update has been polled, and no reply is on its way.
LEMMA InitBotInv == Init => BotInv
<1> SUFFICES ASSUME Init PROVE BotInv
  OBVIOUS
<1> USE BotAssumption DEF Init
<1>1. log = << >> /\ Len(log) = 0 /\ jobs = << >> /\ DOMAIN jobs = {} /\ Updates = {}
  BY DEF Updates
<1>2. TypeOK
  BY <1>1 DEF TypeOK
<1>3. LogFits /\ JobsFit /\ AnswerFits
  BY <1>1 DEF LogFits, JobsFit, AnswerFits
<1>4. AccountsStayPrivate /\ JobsAreTheSenders /\ DeliveriesFit
  BY <1>1 DEF AccountsStayPrivate, JobsAreTheSenders, DeliveriesFit
<1>5. EffectsFit /\ EffectsAreTold
  <2>1. UntoldEffects = {} /\ faults = 0 /\ crashes = 0
    BY <1>1 DEF UntoldEffects
  <2>2. Cardinality({}) = 0
    BY FS_EmptySet
  <2> QED
    BY <1>1, <2>1, <2>2 DEF EffectsFit, EffectsAreTold
<1> QED
  BY <1>2, <1>3, <1>4, <1>5 DEF BotInv
-----------------------------------------------------------------------------
(* The effect of a handler                                                 *)

\* What the effects of all handlers have in common.
EffectFits ==
  /\ \/ jobs' = jobs
     \/ pc = "idle" /\ next <= fetched /\ jobs' = Append(jobs, JobFor(Current))
  /\ \A l \in links' :
       \/ l \in links
       \/ pc = "idle" /\ l.chat = l.user /\ l.from = next /\ Effective(Current)
  /\ links \subseteq links'
  /\ jobs' # jobs => Effective(Current)
  /\ sessions' \in [Users -> [Platforms -> {"none", "connected", "revoked"}]]

\* A handler that only answers has no effect.
LEMMA NoEffectFits == BotInv /\ UNCHANGED effectVars => EffectFits
  BY DEF EffectFits, effectVars, BotInv, TypeOK

\* A link is made in the private chat of the user it is for.
LEMMA CreatesTokenFits == BotInv /\ CreatesToken => EffectFits
<1> SUFFICES ASSUME BotInv, CreatesToken PROVE EffectFits
  OBVIOUS
<1>1. next <= fetched /\ Current.chat # Group
  BY DEF CreatesToken, Account, Asks, RefusedHere, Private
<1>2. Current.chat = Current.user
  BY <1>1, CurrentIsSent
<1>3. pc = "idle" /\ Effective(Current)
  BY DEF CreatesToken, Account, Asks, RefusedHere, Effective
<1> QED
  BY <1>2, <1>3 DEF CreatesToken, EffectFits, BotInv, TypeOK

\* A revoked row stays a row of the table of sessions.
LEMMA RevokesFits == BotInv /\ Revokes => EffectFits
<1> SUFFICES ASSUME BotInv, Revokes PROVE EffectFits
  OBVIOUS
<1>1. Current.request.platform \in Platforms
  BY DEF Revokes, NamesPlatform
<1>2. next <= fetched
  BY DEF Revokes, Account, Asks
<1>3. Current.user \in Users
  BY <1>2, CurrentIsSent
<1> QED
  BY <1>1, <1>3 DEF Revokes, EffectFits, BotInv, TypeOK

\* The job that is put on the queue is the one of the update at hand.
LEMMA EnqueuesFits == BotInv /\ Enqueues => EffectFits
  BY DEF Enqueues, Addressed, Asks, EffectFits, Effective, BotInv, TypeOK

\* A new job keeps what is known of the jobs.
LEMMA JobsKept ==
  ASSUME BotInv, EffectFits
  PROVE  /\ JobsFit'
         /\ \A n \in DOMAIN jobs : n \in DOMAIN jobs' /\ jobs'[n] = jobs[n]
         /\ \A n \in DOMAIN jobs' : n \in DOMAIN jobs \/ jobs'[n] = JobFor(Current)
<1>1. CASE jobs' = jobs
  BY <1>1 DEF BotInv, JobsFit
<1>2. CASE pc = "idle" /\ next <= fetched /\ jobs' = Append(jobs, JobFor(Current))
  <2>1. JobFor(Current) \in [user : Users, chat : Users \union {Group}, from : Nat]
    BY <1>2, CurrentIsSent DEF JobFor, Updates
  <2>2. jobs \in Seq([user : Users, chat : Users \union {Group}, from : Nat])
    BY DEF BotInv, JobsFit
  <2>3. /\ jobs' \in Seq([user : Users, chat : Users \union {Group}, from : Nat])
        /\ DOMAIN jobs' = 1..Len(jobs) + 1 /\ DOMAIN jobs = 1..Len(jobs)
        /\ \A i \in 1..Len(jobs) : jobs'[i] = jobs[i]
        /\ jobs'[Len(jobs) + 1] = JobFor(Current)
    BY <1>2, <2>1, <2>2, AppendFacts
  <2>4. Len(jobs) \in Nat
    BY <2>2, LenProperties
  <2> QED
    BY <2>3, <2>4 DEF JobsFit
<1> QED
  BY <1>1, <1>2 DEF EffectFits

\* An effect adds at most one job, and that to the update at hand.
LEMMA OneMoreJob ==
  ASSUME BotInv, EffectFits, NEW i \in Nat
  PROVE  /\ Cardinality(JobsOf(i)') \in Nat
         /\ Cardinality(JobsOf(i)') <= Cardinality(JobsOf(i)) + 1
         /\ i # next \/ pc # "idle" => Cardinality(JobsOf(i)') = Cardinality(JobsOf(i))
<1>1. IsFiniteSet(JobsOf(i)) /\ Cardinality(JobsOf(i)) \in Nat
  BY JobsOfIsFinite DEF BotInv
<1>2. CASE jobs' = jobs
  BY <1>1, <1>2 DEF JobsOf
<1>3. CASE pc = "idle" /\ next <= fetched /\ jobs' = Append(jobs, JobFor(Current))
  <2>1. JobFor(Current) \in [user : Users, chat : Users \union {Group}, from : Nat]
    BY <1>3, CurrentIsSent DEF JobFor, Updates
  <2>2. jobs \in Seq([user : Users, chat : Users \union {Group}, from : Nat])
    BY DEF BotInv, JobsFit
  <2>3. /\ DOMAIN jobs' = 1..Len(jobs) + 1 /\ DOMAIN jobs = 1..Len(jobs)
        /\ \A k \in 1..Len(jobs) : jobs'[k] = jobs[k]
        /\ jobs'[Len(jobs) + 1].from = next
    BY <1>3, <2>1, <2>2, AppendFacts DEF JobFor
  <2>4. Len(jobs) \in Nat
    BY <2>2, LenProperties
  <2>5. JobsOf(i)' = IF i = next THEN JobsOf(i) \union {Len(jobs) + 1} ELSE JobsOf(i)
    BY <2>3, <2>4 DEF JobsOf
  <2>6. Len(jobs) + 1 \notin JobsOf(i)
    BY <2>3, <2>4 DEF JobsOf
  <2>7. CASE i = next
    <3>1. Cardinality(JobsOf(i) \union {Len(jobs) + 1}) = Cardinality(JobsOf(i)) + 1
      BY <1>1, <2>6, FS_AddElement
    <3> QED
      BY <1>1, <1>3, <2>5, <2>7, <3>1
  <2>8. CASE i # next
    BY <1>1, <2>5, <2>8
  <2> QED
    BY <2>7, <2>8
<1> QED
  BY <1>2, <1>3 DEF EffectFits

\* The invariants about jobs that no step but a change of the log, the answer or
\* the count of deaths can disturb.
LEMMA JobsAreKept ==
  ASSUME BotInv, EffectFits, UNCHANGED log,
         \A r \in replies' : r \in replies \/
           /\ pc = "reply" /\ r.from = next /\ r.chat = Current.chat
           /\ r.text = answer.text /\ r.user = answer.user
  PROVE  JobsAreTheSenders' /\ AccountsStayPrivate'
<1>1. /\ \A n \in DOMAIN jobs : n \in DOMAIN jobs' /\ jobs'[n] = jobs[n]
      /\ \A n \in DOMAIN jobs' : n \in DOMAIN jobs \/ jobs'[n] = JobFor(Current)
  BY JobsKept
<1>2. /\ JobFor(Current).user = log[JobFor(Current).from].user
      /\ JobFor(Current).chat = log[JobFor(Current).from].chat
  BY DEF JobFor, Current
<1>3. \A n \in DOMAIN jobs' : jobs'[n].user = log'[jobs'[n].from].user
                             /\ jobs'[n].chat = log'[jobs'[n].from].chat
  BY <1>1, <1>2 DEF BotInv, JobsAreTheSenders
<1>4. ASSUME NEW r \in replies', r.text = "queued"
      PROVE  \E n \in DOMAIN jobs' :
               jobs'[n].from = r.from /\ jobs'[n].chat = r.chat /\ jobs'[n].user = r.user
  <2>1. \E n \in DOMAIN jobs :
           jobs[n].from = r.from /\ jobs[n].chat = r.chat /\ jobs[n].user = r.user
    BY <1>4 DEF BotInv, JobsAreTheSenders, AnswerFits
  <2> QED
    BY <1>1, <2>1
<1>5. JobsAreTheSenders'
  BY <1>3, <1>4 DEF JobsAreTheSenders
<1>6. AccountsStayPrivate'
  BY DEF AccountsStayPrivate, BotInv, AnswerFits, EffectFits
<1> QED
  BY <1>5, <1>6

\* What an effect changes is the update at hand, and that one asked for it.
LEMMA OneMoreEffect ==
  ASSUME BotInv, EffectFits, next <= fetched, UNCHANGED log
  PROVE  /\ \A i : HasEffect(i)' => HasEffect(i) \/ (pc = "idle" /\ i = next)
         /\ EffectsFit'
<1>1. /\ \A n \in DOMAIN jobs' : n \in DOMAIN jobs \/ jobs'[n] = JobFor(Current)
      /\ \A n \in DOMAIN jobs : n \in DOMAIN jobs' /\ jobs'[n] = jobs[n]
  BY JobsKept
<1>2. pc # "idle" => jobs' = jobs
  BY DEF EffectFits
<1>3. next \in Updates /\ Current = log[next] /\ Updates' = Updates
  BY CurrentIsSent DEF Updates
<1>4. \A i : HasEffect(i)' => HasEffect(i) \/ (pc = "idle" /\ i = next)
  BY <1>1, <1>2 DEF HasEffect, EffectFits, JobFor
<1>5. \A i : HasEffect(i)' => HasEffect(i) \/ (i = next /\ Effective(Current))
  BY <1>1 DEF HasEffect, EffectFits, JobFor
<1>6. \A l \in links' : l.from \in Updates'
  BY <1>3 DEF EffectFits, BotInv, EffectsFit
<1>7. \A i \in Updates' : HasEffect(i)' => Effective(log[i])
  BY <1>3, <1>5 DEF BotInv, EffectsFit
<1>8. EffectsFit'
  BY <1>3, <1>6, <1>7 DEF EffectsFit, Effective, Private
<1> QED
  BY <1>4, <1>8

\* The untold effects are finitely many.
LEMMA UntoldIsFinite ==
  ASSUME BotInv
  PROVE  /\ IsFiniteSet(UntoldEffects) /\ Cardinality(UntoldEffects) \in Nat
         /\ Cardinality(UntoldEffects) <= faults + crashes
         /\ faults \in Nat /\ crashes \in Nat
<1>1. IsFiniteSet(Updates)
  BY LenProperties, FS_Interval DEF Updates, BotInv, TypeOK
<1>2. UntoldEffects \subseteq Updates
  BY DEF UntoldEffects
<1>3. faults \in Nat /\ crashes \in Nat
  BY BotAssumption DEF BotInv, TypeOK
<1> QED
  BY <1>1, <1>2, <1>3, FS_Subset, FS_CardinalityType DEF BotInv, EffectsAreTold

\* A set that gains one element at most gains one at most in number.
LEMMA OneMoreElement ==
  ASSUME NEW A, IsFiniteSet(A), NEW B, NEW x, NEW m \in Nat, NEW n \in Nat,
         Cardinality(A) <= m,
         \/ B \subseteq A /\ n >= m
         \/ B \subseteq A \union {x} /\ n >= m + 1
  PROVE  Cardinality(B) <= n
<1>1. Cardinality(A) \in Nat
  BY FS_CardinalityType
<1>2. PICK more : more = A \union {x}
  OBVIOUS
<1>3. IsFiniteSet(more) /\ Cardinality(more) \in Nat /\ Cardinality(more) <= Cardinality(A) + 1
  <2>1. /\ IsFiniteSet(more)
        /\ \/ Cardinality(more) = Cardinality(A)
           \/ Cardinality(more) = Cardinality(A) + 1
    BY <1>2, FS_AddElement
  <2> QED
    BY <1>1, <2>1
<1>4. CASE B \subseteq A /\ n >= m
  <2>1. Cardinality(B) \in Nat /\ Cardinality(B) <= Cardinality(A)
    BY <1>4, FS_Subset, FS_CardinalityType
  <2> QED
    BY <1>1, <1>4, <2>1
<1>5. CASE B \subseteq more /\ n >= m + 1
  <2>1. Cardinality(B) \in Nat /\ Cardinality(B) <= Cardinality(more)
    BY <1>3, <1>5, FS_Subset, FS_CardinalityType
  <2> QED
    BY <1>1, <1>3, <1>5, <2>1
<1> QED
  BY <1>2, <1>4, <1>5

\* A step that leaves no further effect untold keeps the bound, and so does one
\* that leaves the update at hand untold and counts a fault or a death.
LEMMA ToldIsKept ==
  ASSUME BotInv, faults' \in Nat, crashes' \in Nat,
         \/ UntoldEffects' \subseteq UntoldEffects /\ faults' + crashes' >= faults + crashes
         \/ /\ UntoldEffects' \subseteq UntoldEffects \union {next}
            /\ faults' + crashes' >= faults + crashes + 1
  PROVE  EffectsAreTold'
<1>1. PICK now, later, update, m, n :
        /\ now = UntoldEffects /\ later = UntoldEffects' /\ update = next
        /\ m = faults + crashes /\ n = faults' + crashes'
  OBVIOUS
<1>2. IsFiniteSet(now) /\ Cardinality(now) <= m /\ m \in Nat
  BY <1>1, UntoldIsFinite
<1>3. n \in Nat
  <2>1. PICK f, c : f = faults' /\ c = crashes'
    OBVIOUS
  <2>2. f \in Nat /\ c \in Nat /\ n = f + c
    BY <1>1, <2>1
  <2> QED
    BY <2>2
<1>4. \/ later \subseteq now /\ n >= m
      \/ later \subseteq now \union {update} /\ n >= m + 1
  BY <1>1
<1>5. Cardinality(later) <= n
  BY <1>2, <1>3, <1>4, OneMoreElement
<1> QED
  BY <1>1, <1>5 DEF EffectsAreTold

\* A step that leaves effects and replies alone, and no reply half-way, leaves as
\* many untold.
LEMMA SameEffects ==
  ASSUME BotInv, UNCHANGED <<log, jobs, links, replies, next, crashes>>,
         pc' = pc \/ pc = "down", faults' \in {faults, faults + 1}
  PROVE  EffectsFit' /\ EffectsAreTold'
<1>1. EffectsFit'
  BY DEF BotInv, EffectsFit, HasEffect, Updates, Effective, Private
<1>2. UntoldEffects' \subseteq UntoldEffects
  BY DEF UntoldEffects, HasEffect, Told, Updates
<1>3. /\ faults' \in Nat /\ crashes' \in Nat
      /\ faults' + crashes' >= faults + crashes
  BY UntoldIsFinite
<1> QED
  BY <1>1, <1>2, <1>3, ToldIsKept
-----------------------------------------------------------------------------
(* The two ways in which a step of a handler leaves it                     *)

\* A handler that has done its work and awaits the reply keeps the invariant.
LEMMA AnswersKeeps ==
  ASSUME BotInv, NEW text, NEW user, pc = "idle", next <= fetched,
         Answers(text, user), EffectFits,
         text \in AccountTexts => Current.chat = Current.user /\ user = Current.user,
         text = "queued" => jobs' = Append(jobs, JobFor(Current)) /\ user = Current.user,
         Effective(Current) => text \in {"queued", "link"}
  PROVE  BotInv'
<1>1. /\ pc' = "reply" /\ answer' = [text |-> text, user |-> user]
      /\ UNCHANGED <<broken, log, confirmed, fetched, next, replies, ended, crashes, faults>>
  BY DEF Answers, boundVars
<1>2. JobsFit' /\ \A n \in DOMAIN jobs' : n \in DOMAIN jobs \/ jobs'[n] = JobFor(Current)
  BY JobsKept
<1>3. TypeOK'
  <2>1. \A n \in DOMAIN jobs' : jobs'[n].from \in Updates
    BY <1>2, JobsKept, CurrentIsSent DEF BotInv, TypeOK, JobFor
  <2> QED
    BY <1>1, <2>1 DEF BotInv, TypeOK, EffectFits, Updates
<1>4. LogFits'
  BY <1>1 DEF BotInv, LogFits, Updates
<1>5. AnswerFits'
  <2>1. text = "queued" => \E n \in DOMAIN jobs' :
          jobs'[n].from = next /\ jobs'[n].chat = Current.chat /\ jobs'[n].user = user
    <3>1. SUFFICES ASSUME text = "queued"
                   PROVE  \E n \in DOMAIN jobs' : jobs'[n] = JobFor(Current)
      BY DEF JobFor
    <3>2. JobFor(Current) \in [user : Users, chat : Users \union {Group}, from : Nat]
      BY CurrentIsSent DEF JobFor, Updates
    <3>3. /\ DOMAIN jobs' = 1..Len(jobs) + 1 /\ jobs'[Len(jobs) + 1] = JobFor(Current)
          /\ Len(jobs) \in Nat
      BY <3>1, <3>2, AppendFacts, LenProperties DEF BotInv, JobsFit
    <3> QED
      BY <3>3
  <2>2. HasEffect(next)' => text \in {"queued", "link"}
    BY <1>1, OneMoreEffect, CurrentIsSent DEF EffectsFit, Updates, Effective, Private
  <2> QED
    BY <1>1, <2>1, <2>2 DEF AnswerFits, Current
<1>6. JobsAreTheSenders' /\ AccountsStayPrivate'
  BY <1>1, JobsAreKept
<1>7. DeliveriesFit'
  <2>1. ASSUME NEW i \in Updates
        PROVE  /\ Cardinality(JobsOf(i)') <= 1 + crashes
               /\ i > next => Cardinality(JobsOf(i)') <= crashes
    <3>1. i \in Nat /\ next \in Nat /\ crashes \in Nat /\ Cardinality(JobsOf(i)) \in Nat
      BY JobsOfIsFinite DEF Updates, BotInv, TypeOK
    <3>2. /\ Cardinality(JobsOf(i)) <= 1 + crashes
          /\ i >= next => Cardinality(JobsOf(i)) <= crashes
      BY <3>1 DEF BotInv, DeliveriesFit
    <3>3. /\ Cardinality(JobsOf(i)') \in Nat
          /\ Cardinality(JobsOf(i)') <= Cardinality(JobsOf(i)) + 1
          /\ i # next => Cardinality(JobsOf(i)') = Cardinality(JobsOf(i))
      BY <3>1, OneMoreJob
    <3> QED
      BY <3>1, <3>2, <3>3
  <2> QED
    BY <1>1, <2>1 DEF DeliveriesFit, Updates, JobsOf
<1>8. EffectsFit' /\ \A i : HasEffect(i)' => HasEffect(i) \/ i = next
  BY <1>1, OneMoreEffect
<1>9. EffectsAreTold'
  <2>1. UntoldEffects' \subseteq UntoldEffects
    BY <1>1, <1>8 DEF UntoldEffects, Updates, Told
  <2> QED
    BY <1>1, <2>1, UntoldIsFinite, ToldIsKept
<1> QED
  BY <1>2, <1>3, <1>4, <1>5, <1>6, <1>7, <1>8, <1>9 DEF BotInv

\* What the end of a handler may do to connections, faults and replies.
EndFits(how) ==
  /\ how \in {"answered", "unanswered", "raised", "ignored"}
  /\ crashes' = crashes
  /\ faults' \in 0..MaxFaults /\ faults' >= faults
  /\ broken' \subseteq Connections
  /\ replies \subseteq replies'
  /\ \A r \in replies' : r \in replies \/
       /\ pc = "reply" /\ r.from = next /\ r.chat = Current.chat
       /\ r.text = answer.text /\ r.user = answer.user

\* A handler that met no fault has had no effect that its reply does not tell.
FaultFits ==
  \/ faults' = faults + 1
  \/ /\ faults' = faults /\ UNCHANGED <<jobs, links>>
     /\ pc = "reply" => \E r \in replies' : r.from = next /\ r.text = answer.text

\* A handler that ends keeps the invariant.
LEMMA EndsKeeps ==
  ASSUME BotInv, NEW how, pc \in {"idle", "reply"}, next <= fetched,
         Ends(how), EffectFits, EndFits(how), FaultFits
  PROVE  BotInv'
<1>1. /\ ended' = [ended EXCEPT ![next] = how] /\ next' = next + 1 /\ pc' = "idle"
      /\ UNCHANGED <<log, confirmed, fetched>> /\ crashes' = crashes
  BY DEF Ends, EndFits
<1>2. JobsFit' /\ \A n \in DOMAIN jobs' : n \in DOMAIN jobs \/ jobs'[n] = JobFor(Current)
  BY JobsKept
<1>3. next \in Updates /\ next \in 1..MaxUpdates /\ next \in Nat
  BY CurrentIsSent DEF Updates
<1>4. TypeOK'
  <2>1. \A n \in DOMAIN jobs' : jobs'[n].from \in Updates
    BY <1>2, JobsKept, CurrentIsSent DEF BotInv, TypeOK, JobFor
  <2>2. next' \in 1..fetched' + 1
    BY <1>1, <1>3 DEF BotInv, TypeOK
  <2>3. ended' \in [1..MaxUpdates -> {"pending", "answered", "unanswered", "raised",
                                      "ignored", "lost"}]
    BY <1>1 DEF BotInv, TypeOK, EndFits
  <2> QED
    BY <1>1, <2>1, <2>2, <2>3 DEF BotInv, TypeOK, EffectFits, EndFits, Updates
<1>5. LogFits'
  BY <1>1, <1>3 DEF BotInv, LogFits, TypeOK, Updates
<1>6. AnswerFits'
  BY <1>1 DEF AnswerFits
<1>7. JobsAreTheSenders' /\ AccountsStayPrivate'
  BY <1>1, JobsAreKept DEF EndFits
<1>8. DeliveriesFit'
  <2>1. ASSUME NEW i \in Updates
        PROVE  /\ Cardinality(JobsOf(i)') <= 1 + crashes
               /\ i >= next + 1 => Cardinality(JobsOf(i)') <= crashes
    <3>1. i \in Nat /\ next \in Nat /\ crashes \in Nat /\ Cardinality(JobsOf(i)) \in Nat
      BY JobsOfIsFinite DEF Updates, BotInv, TypeOK
    <3>2. /\ Cardinality(JobsOf(i)) <= 1 + crashes
          /\ i > next \/ (i = next /\ pc # "reply") => Cardinality(JobsOf(i)) <= crashes
      BY <3>1 DEF BotInv, DeliveriesFit
    <3>3. /\ Cardinality(JobsOf(i)') \in Nat
          /\ Cardinality(JobsOf(i)') <= Cardinality(JobsOf(i)) + 1
          /\ i # next \/ pc # "idle" => Cardinality(JobsOf(i)') = Cardinality(JobsOf(i))
      BY <3>1, OneMoreJob
    <3> QED
      BY <3>1, <3>2, <3>3
  <2>2. \A i \in Updates : i > next' \/ i = next' => i >= next + 1
    BY <1>1, <1>3 DEF Updates
  <2> QED
    BY <1>1, <2>1, <2>2 DEF DeliveriesFit, Updates, JobsOf
<1>9. EffectsFit' /\ \A i : HasEffect(i)' => HasEffect(i) \/ i = next
  BY <1>1, OneMoreEffect
<1>10. EffectsAreTold'
  <2>1. \A i : Told(i) => Told(i)'
    BY DEF EndFits, Told
  <2>2. UntoldEffects' \subseteq UntoldEffects \union {next}
    BY <1>1, <1>9, <2>1 DEF UntoldEffects, Updates
  <2>3. faults \in Nat /\ crashes \in Nat /\ faults' \in Nat /\ crashes' = crashes
    BY UntoldIsFinite, BotAssumption DEF EndFits
  <2>4. CASE faults' = faults + 1
    BY <2>2, <2>3, <2>4, ToldIsKept
  <2>5. CASE /\ faults' = faults /\ UNCHANGED <<jobs, links>>
             /\ pc = "reply" => \E r \in replies' : r.from = next /\ r.text = answer.text
    <3>1. \A i : HasEffect(i)' = HasEffect(i)
      BY <2>5 DEF HasEffect
    <3>2. \A i : pc = "reply" /\ i = next /\ HasEffect(i) => Told(i)'
      BY <2>5 DEF BotInv, AnswerFits, Told
    <3>3. UntoldEffects' \subseteq UntoldEffects
      BY <1>1, <2>1, <3>1, <3>2 DEF UntoldEffects, Updates
    <3> QED
      BY <2>3, <2>5, <3>3, ToldIsKept
  <2> QED
    BY <2>4, <2>5 DEF FaultFits
<1> QED
  BY <1>2, <1>4, <1>5, <1>6, <1>7, <1>8, <1>9, <1>10 DEF BotInv
-----------------------------------------------------------------------------
(* The actions                                                             *)

\* Every request except a text or a help is refused outside a private chat.
LEMMA AccountIsPrivate ==
  ASSUME BotInv, NEW command, Account(command)
  PROVE  /\ pc = "idle" /\ next <= fetched /\ Current.request.command = command
         /\ Current.chat = Current.user
  BY CurrentIsSent DEF Account, Asks, RefusedHere, Private

\* The handlers that only read, or refuse, and then answer.
LEMMA ReadersKeep ==
  ASSUME BotInv, Help \/ Refuse \/ Sessions \/ History \/ DisconnectUsage \/ RefuseText
  PROVE  BotInv'
<1>1. ASSUME NEW text, AnswersAfterReading(text, Current.user), pc = "idle", next <= fetched,
             text # "queued", ~Effective(Current),
             text \in AccountTexts => Current.chat = Current.user
      PROVE  BotInv'
  BY <1>1, NoEffectFits, AnswersKeeps DEF AnswersAfterReading
<1>2. CASE Help
  BY <1>1, <1>2 DEF Help, Asks, AccountTexts, Effective
<1>3. CASE Refuse
  BY <1>1, <1>3 DEF Refuse, Asks, AccountTexts, Effective, RefusedHere
<1>4. CASE Sessions
  BY <1>1, <1>4, AccountIsPrivate DEF Sessions, Effective
<1>5. CASE History
  BY <1>1, <1>5, AccountIsPrivate DEF History, Effective
<1>6. CASE DisconnectUsage
  BY <1>1, <1>6, AccountIsPrivate DEF DisconnectUsage, Effective
<1>7. CASE RefuseText
  BY <1>1, <1>7 DEF RefuseText, Addressed, Asks, AccountTexts, Effective
<1> QED
  BY <1>2, <1>3, <1>4, <1>5, <1>6, <1>7

\* The handlers that do something and then answer.
LEMMA WritersKeep ==
  ASSUME BotInv, Connect \/ Disconnect \/ AcceptLink
  PROVE  BotInv'
<1>1. CASE Connect
  <2>1. /\ pc = "idle" /\ next <= fetched /\ Current.chat = Current.user
        /\ EffectFits /\ Answers("link", Current.user)
    BY <1>1, AccountIsPrivate, CreatesTokenFits DEF Connect, CreatesToken
  <2> QED
    BY <2>1, AnswersKeeps
<1>2. CASE Disconnect
  <2>1. /\ pc = "idle" /\ next <= fetched /\ Current.chat = Current.user
        /\ EffectFits /\ Answers("disconnected", Current.user) /\ ~Effective(Current)
    BY <1>2, AccountIsPrivate, RevokesFits DEF Disconnect, Revokes, Effective
  <2> QED
    BY <2>1, AnswersKeeps
<1>3. CASE AcceptLink
  <2>1. /\ pc = "idle" /\ next <= fetched /\ EffectFits
        /\ jobs' = Append(jobs, JobFor(Current)) /\ Answers("queued", Current.user)
    BY <1>3, EnqueuesFits DEF AcceptLink, Enqueues, Addressed, Asks
  <2> QED
    BY <2>1, AnswersKeeps DEF AccountTexts
<1> QED
  BY <1>1, <1>2, <1>3

\* A reply that arrives, or fails.
LEMMA RepliesKeep ==
  ASSUME BotInv, Reply \/ ReplyFails
  PROVE  BotInv'
<1>1. pc = "reply" /\ next <= fetched /\ EffectFits
  BY NoEffectFits DEF Reply, ReplyFails, BotInv, AnswerFits
<1>2. CASE Reply
  <2>1. Ends("answered") /\ EndFits("answered")
    BY <1>1, <1>2, BotAssumption DEF Reply, EndFits, boundVars, BotInv, TypeOK, Ends
  <2>2. \E r \in replies' : r.from = next /\ r.text = answer.text
    <3>1. PICK r : r = [chat |-> Current.chat, text |-> answer.text, user |-> answer.user,
                        from |-> next]
      OBVIOUS
    <3>2. replies' = replies \union {r} /\ r.from = next /\ r.text = answer.text
      BY <1>2, <3>1 DEF Reply
    <3> QED
      BY <3>2
  <2>3. FaultFits
    BY <1>2, <2>2 DEF Reply, FaultFits, boundVars, effectVars
  <2> QED
    BY <1>1, <2>1, <2>3, EndsKeeps
<1>3. CASE ReplyFails
  <2>1. Ends("unanswered") /\ EndFits("unanswered") /\ FaultFits
    BY <1>1, <1>3, BotAssumption
       DEF ReplyFails, EndFits, FaultFits, BotInv, TypeOK, Ends
  <2> QED
    BY <1>1, <2>1, EndsKeeps
<1> QED
  BY <1>2, <1>3

\* The handlers that end without a reply, by themselves.
LEMMA SilentEndsKeep ==
  ASSUME BotInv, DisconnectUnknownSession \/ IgnoreText \/ MalformedLink \/ DatabaseStaysBroken
  PROVE  BotInv'
<1>1. ASSUME NEW how \in {"raised", "ignored"}, pc = "idle", next <= fetched, Ends(how),
             UNCHANGED <<broken, effectVars, replies, boundVars>>
      PROVE  BotInv'
  <2>1. EffectFits
    BY <1>1, NoEffectFits
  <2>2. EndFits(how) /\ FaultFits
    BY <1>1, BotAssumption DEF EndFits, FaultFits, boundVars, effectVars, BotInv, TypeOK
  <2> QED
    BY <1>1, <2>1, <2>2, EndsKeeps
<1>2. CASE DisconnectUnknownSession
  BY <1>1, <1>2, AccountIsPrivate DEF DisconnectUnknownSession
<1>3. CASE IgnoreText
  BY <1>1, <1>3 DEF IgnoreText, Asks
<1>4. CASE MalformedLink
  BY <1>1, <1>4 DEF MalformedLink, Addressed, Asks
<1>5. CASE DatabaseStaysBroken
  <2>1. pc = "idle" /\ next <= fetched
    BY <1>5, AccountIsPrivate DEF DatabaseStaysBroken, CallsDatabase
  <2> QED
    BY <1>1, <1>5, <2>1 DEF DatabaseStaysBroken
<1> QED
  BY <1>2, <1>3, <1>4, <1>5

\* The handlers that end because a call of Redis or Postgres raises.
LEMMA FaultsKeep ==
  ASSUME BotInv, QueueFails \/ DatabaseFails
  PROVE  BotInv'
<1>1. CASE QueueFails
  <2>1. pc = "idle" /\ next <= fetched /\ EffectFits
    BY <1>1, EnqueuesFits, NoEffectFits DEF QueueFails, Enqueues, Addressed, Asks
  <2>2. Ends("raised") /\ EndFits("raised") /\ FaultFits
    BY <1>1, <2>1, BotAssumption DEF QueueFails, EndFits, FaultFits, BotInv, TypeOK
  <2> QED
    BY <2>1, <2>2, EndsKeeps
<1>2. CASE DatabaseFails
  <2>1. pc = "idle" /\ next <= fetched
    BY <1>2, AccountIsPrivate DEF DatabaseFails, CallsDatabase
  <2>2. EffectFits
    BY <1>2, CreatesTokenFits, RevokesFits, NoEffectFits DEF DatabaseFails
  <2>3. broken' \subseteq Connections
    BY <1>2 DEF DatabaseFails, DatabaseOf, Connections, BotInv, TypeOK
  <2>4. Ends("raised") /\ EndFits("raised") /\ FaultFits
    BY <1>2, <2>3, BotAssumption DEF DatabaseFails, EndFits, FaultFits, BotInv, TypeOK
  <2> QED
    BY <2>1, <2>2, <2>4, EndsKeeps
<1> QED
  BY <1>1, <1>2

\* A poll confirms what the last one fetched; what it fetches comes after that.
LEMMA PollKeeps ==
  ASSUME BotInv, Poll
  PROVE  BotInv'
<1>1. /\ confirmed' = fetched /\ fetched' = Len(log)
      /\ UNCHANGED <<broken, log, next, pc, answer, sessions, links, jobs, replies, ended,
                     crashes, faults>>
  BY DEF Poll, effectVars, boundVars
<1>2. /\ Len(log) \in Nat /\ fetched \in Nat /\ fetched <= Len(log) /\ next \in Nat
      /\ next <= fetched + 1 /\ next >= 1
  BY LenProperties DEF BotInv, TypeOK
<1>3. TypeOK'
  BY <1>1, <1>2 DEF BotInv, TypeOK, Updates
<1>4. LogFits' /\ JobsFit'
  BY <1>1 DEF BotInv, LogFits, JobsFit, Updates
<1>5. AnswerFits'
  BY <1>1, <1>2 DEF BotInv, AnswerFits, Current, HasEffect
<1>6. AccountsStayPrivate' /\ JobsAreTheSenders'
  BY <1>1 DEF BotInv, AccountsStayPrivate, JobsAreTheSenders
<1>7. DeliveriesFit'
  BY <1>1 DEF BotInv, DeliveriesFit, JobsOf, Updates
<1>8. EffectsFit' /\ EffectsAreTold'
  BY <1>1, SameEffects
<1> QED
  BY <1>3, <1>4, <1>5, <1>6, <1>7, <1>8 DEF BotInv

\* A death gives every update one more delivery.
LEMMA CrashKeeps ==
  ASSUME BotInv, Crash
  PROVE  BotInv'
<1>1. /\ crashes' = crashes + 1 /\ crashes < MaxCrashes
      /\ next' = confirmed + 1 /\ fetched' = confirmed /\ pc' = "down"
      /\ answer' = NoAnswer /\ broken' = {}
      /\ ended' = [i \in 1..MaxUpdates |->
           IF i \in next..confirmed THEN "lost"
           ELSE IF i \in confirmed + 1..fetched THEN "pending" ELSE ended[i]]
      /\ UNCHANGED <<log, confirmed, sessions, links, jobs, replies, faults>>
  BY DEF Crash, effectVars
<1>2. /\ Len(log) \in Nat /\ confirmed \in Nat /\ confirmed <= Len(log)
      /\ next \in Nat /\ fetched \in Nat /\ fetched <= Len(log)
      /\ crashes \in Nat /\ faults \in Nat
  BY LenProperties, BotAssumption DEF BotInv, TypeOK
<1>3. TypeOK'
  BY <1>1, <1>2, BotAssumption DEF BotInv, TypeOK, Updates
<1>4. LogFits' /\ JobsFit'
  BY <1>1, <1>2 DEF BotInv, LogFits, JobsFit, Updates
<1>5. AnswerFits'
  BY <1>1 DEF AnswerFits
<1>6. AccountsStayPrivate' /\ JobsAreTheSenders'
  BY <1>1 DEF BotInv, AccountsStayPrivate, JobsAreTheSenders
<1>7. DeliveriesFit'
  <2>1. \A i \in Updates : /\ Cardinality(JobsOf(i)) \in Nat
                           /\ Cardinality(JobsOf(i)) <= crashes + 1
    BY JobsOfIsFinite, <1>2 DEF BotInv, DeliveriesFit
  <2>2. Updates' = Updates /\ \A i : JobsOf(i)' = JobsOf(i)
    BY <1>1 DEF JobsOf, Updates
  <2>3. \A i \in Updates' : Cardinality(JobsOf(i)') \in Nat /\ Cardinality(JobsOf(i)') <= crashes'
    BY <1>1, <2>1, <2>2
  <2> QED
    BY <1>1, <1>2, <2>3 DEF DeliveriesFit
<1>8. EffectsFit'
  BY <1>1 DEF BotInv, EffectsFit, HasEffect, Updates, Effective, Private
<1>9. EffectsAreTold'
  <2>1. UntoldEffects' \subseteq UntoldEffects \union {next}
    BY <1>1 DEF UntoldEffects, HasEffect, Told, Updates
  <2>2. /\ faults' \in Nat /\ crashes' \in Nat
        /\ faults' + crashes' >= faults + crashes + 1
    BY <1>1, <1>2
  <2> QED
    BY <2>1, <2>2, ToldIsKept
<1> QED
  BY <1>3, <1>4, <1>5, <1>6, <1>7, <1>8, <1>9 DEF BotInv

\* A new process is at rest; where it goes on was decided when the old one died.
LEMMA RestartKeeps ==
  ASSUME BotInv, Restart
  PROVE  BotInv'
<1>1. /\ pc = "down" /\ pc' = "idle"
      /\ UNCHANGED <<broken, log, confirmed, fetched, next, answer, sessions, links, jobs,
                     replies, ended, crashes, faults>>
  BY DEF Restart, effectVars, boundVars
<1>2. TypeOK' /\ LogFits' /\ JobsFit' /\ AnswerFits'
  BY <1>1 DEF BotInv, TypeOK, LogFits, JobsFit, AnswerFits, Updates
<1>3. AccountsStayPrivate' /\ JobsAreTheSenders'
  BY <1>1 DEF BotInv, AccountsStayPrivate, JobsAreTheSenders
<1>4. DeliveriesFit'
  BY <1>1 DEF BotInv, DeliveriesFit, JobsOf, Updates
<1>5. EffectsFit' /\ EffectsAreTold'
  BY <1>1, SameEffects
<1> QED
  BY <1>2, <1>3, <1>4, <1>5 DEF BotInv

\* The server's restart breaks the connections and nothing else.
LEMMA ServerRestartKeeps ==
  ASSUME BotInv, ServerRestarts
  PROVE  BotInv'
<1>1. /\ broken' = Connections /\ faults' = faults + 1 /\ faults < MaxFaults
      /\ UNCHANGED <<log, confirmed, fetched, next, pc, answer, sessions, links, jobs,
                     replies, ended, crashes>>
  BY DEF ServerRestarts, botVars, effectVars
<1>2. faults \in Nat /\ crashes \in Nat
  BY BotAssumption DEF BotInv, TypeOK
<1>3. TypeOK'
  BY <1>1, <1>2, BotAssumption DEF BotInv, TypeOK, Updates
<1>4. LogFits' /\ JobsFit' /\ AnswerFits'
  BY <1>1 DEF BotInv, LogFits, JobsFit, AnswerFits, Current, HasEffect, Updates
<1>5. AccountsStayPrivate' /\ JobsAreTheSenders' /\ DeliveriesFit'
  BY <1>1 DEF BotInv, AccountsStayPrivate, JobsAreTheSenders, DeliveriesFit, JobsOf, Updates
<1>6. EffectsFit' /\ EffectsAreTold'
  BY <1>1, <1>2, SameEffects
<1> QED
  BY <1>3, <1>4, <1>5, <1>6 DEF BotInv

\* A new update has no job and has not been handled.
LEMMA SendKeeps ==
  ASSUME BotInv, NEW u \in Users, NEW chat \in {u, Group}, NEW request \in Asked,
         Send(u, chat, request)
  PROVE  BotInv'
<1> DEFINE update == [user |-> u, chat |-> chat, request |-> request]
           Update == [user : Users, chat : Users \union {Group}, request : Requests]
<1>1. /\ Len(log) < MaxUpdates /\ log' = Append(log, update)
      /\ UNCHANGED <<broken, confirmed, fetched, next, pc, answer, sessions, links, jobs,
                     replies, ended, crashes, faults>>
  BY DEF Send, botVars, effectVars, boundVars
<1>2. update \in Update
  BY BotAssumption
<1>3. /\ log' \in Seq(Update) /\ Len(log') = Len(log) + 1 /\ Len(log) \in Nat
      /\ \A i \in Updates : log'[i] = log[i]
      /\ log'[Len(log) + 1] = update
      /\ Updates' = Updates \union {Len(log) + 1}
      /\ Len(log) + 1 \notin Updates
  <2>1. log \in Seq(Update)
    BY DEF BotInv, TypeOK
  <2> HIDE DEF update, Update
  <2>2. /\ Append(log, update) \in Seq(Update)
        /\ Len(Append(log, update)) = Len(log) + 1
        /\ \A i \in 1..Len(log) : Append(log, update)[i] = log[i]
        /\ Append(log, update)[Len(log) + 1] = update
    BY <1>2, <2>1, AppendFacts
  <2>3. Len(log) \in Nat
    BY <2>1, LenProperties
  <2> QED
    BY <1>1, <2>2, <2>3 DEF Updates
<1>4. /\ fetched \in Nat /\ confirmed \in Nat /\ fetched <= Len(log)
      /\ confirmed <= fetched /\ next \in Nat /\ next >= 1
      /\ \A n \in DOMAIN jobs : jobs[n].from \in Updates
  BY <1>3 DEF BotInv, TypeOK
<1>5. TypeOK'
  BY <1>1, <1>3, <1>4 DEF BotInv, TypeOK
<1>6. LogFits'
  <2>1. Len(log') <= MaxUpdates
    BY <1>1, <1>3, BotAssumption
  <2>2. \A i \in Updates' : log'[i].chat \in {log'[i].user, Group}
    <3>1. update.chat \in {update.user, Group}
      OBVIOUS
    <3> HIDE DEF update
    <3> QED
      BY <1>3, <3>1 DEF BotInv, LogFits
  <2>3. \A i \in 1..MaxUpdates : i > Len(log') => ended'[i] = "pending"
    BY <1>1, <1>3 DEF BotInv, LogFits
  <2> QED
    BY <2>1, <2>2, <2>3 DEF LogFits
<1>7. JobsFit'
  BY <1>1 DEF BotInv, JobsFit
<1>8. AnswerFits'
  <2>1. pc = "reply" => next \in Updates
    BY CurrentIsSent DEF BotInv, AnswerFits
  <2> QED
    BY <1>1, <1>3, <2>1 DEF BotInv, AnswerFits, Current, HasEffect
<1>9. AccountsStayPrivate' /\ JobsAreTheSenders'
  BY <1>1, <1>3, <1>4 DEF BotInv, AccountsStayPrivate, JobsAreTheSenders
<1>10. DeliveriesFit'
  <2>1. JobsOf(Len(log) + 1) = {}
    BY <1>3, <1>4 DEF JobsOf
  <2>2. Cardinality(JobsOf(Len(log) + 1)) = 0
    BY <2>1, FS_EmptySet
  <2>3. crashes \in Nat
    BY BotAssumption DEF BotInv, TypeOK
  <2>4. \A i : JobsOf(i)' = JobsOf(i)
    BY <1>1 DEF JobsOf
  <2>5. next' = next /\ pc' = pc /\ crashes' = crashes
    BY <1>1
  <2>6. \A i \in Updates' : i \in Updates \/ i = Len(log) + 1
    BY <1>3
  <2> QED
    BY <2>2, <2>3, <2>4, <2>5, <2>6 DEF BotInv, DeliveriesFit
<1>11. \A i \in Updates' : HasEffect(i)' => i \in Updates /\ HasEffect(i)
  <2>1. ~HasEffect(Len(log) + 1)
    BY <1>3, <1>4 DEF HasEffect, BotInv, EffectsFit
  <2>2. \A i : HasEffect(i)' => HasEffect(i)
    BY <1>1 DEF HasEffect
  <2> QED
    BY <1>3, <2>1, <2>2
<1>12. EffectsFit'
  <2>1. \A l \in links' : l.from \in Updates'
    BY <1>1, <1>3 DEF BotInv, EffectsFit
  <2>2. \A i \in Updates' : HasEffect(i)' => Effective(log'[i])
    BY <1>3, <1>11 DEF BotInv, EffectsFit
  <2> QED
    BY <2>1, <2>2 DEF EffectsFit, Effective, Private
<1>13. EffectsAreTold'
  <2>1. UntoldEffects' \subseteq UntoldEffects
    BY <1>1, <1>11 DEF UntoldEffects, Told
  <2> QED
    BY <1>1, <2>1, UntoldIsFinite, ToldIsKept
<1> QED
  BY <1>5, <1>6, <1>7, <1>8, <1>9, <1>10, <1>12, <1>13 DEF BotInv

\* The portal's store connects a session and touches nothing of the bot.
LEMMA StoreKeeps ==
  ASSUME BotInv, NEW u \in Users, NEW p \in Platforms, Store(u, p)
  PROVE  BotInv'
<1>1. /\ sessions' = [sessions EXCEPT ![u][p] = "connected"]
      /\ UNCHANGED <<broken, log, confirmed, fetched, next, pc, answer, links, jobs, replies,
                     ended, crashes, faults>>
  BY DEF Store, botVars, boundVars
<1>2. TypeOK'
  BY <1>1 DEF BotInv, TypeOK, Updates
<1>3. LogFits' /\ JobsFit' /\ AnswerFits' /\ AccountsStayPrivate' /\ JobsAreTheSenders'
  BY <1>1 DEF BotInv, LogFits, JobsFit, AnswerFits, Current, AccountsStayPrivate,
              JobsAreTheSenders, HasEffect, Updates
<1>4. DeliveriesFit'
  BY <1>1 DEF BotInv, DeliveriesFit, JobsOf, Updates
<1>5. EffectsFit' /\ EffectsAreTold'
  BY <1>1, SameEffects
<1> QED
  BY <1>2, <1>3, <1>4, <1>5 DEF BotInv

\* Nothing changes.
LEMMA StutterKeeps ==
  ASSUME BotInv, UNCHANGED vars
  PROVE  BotInv'
<1>1. UNCHANGED <<broken, log, confirmed, fetched, next, pc, answer, sessions, links, jobs,
                  replies, ended, crashes, faults>>
  BY DEF vars, botVars, effectVars, boundVars
<1>2. TypeOK' /\ LogFits' /\ JobsFit' /\ AnswerFits' /\ AccountsStayPrivate' /\ JobsAreTheSenders'
  BY <1>1 DEF BotInv, TypeOK, LogFits, JobsFit, AnswerFits, Current, AccountsStayPrivate,
              JobsAreTheSenders, HasEffect, Updates
<1>3. DeliveriesFit'
  BY <1>1 DEF BotInv, DeliveriesFit, JobsOf, Updates
<1>4. EffectsFit' /\ EffectsAreTold'
  BY <1>1, SameEffects
<1> QED
  BY <1>2, <1>3, <1>4 DEF BotInv

\* Every step keeps the invariant: one lemma for each action.
LEMMA NextKeepsBotInv == BotInv /\ [Next]_vars => BotInv'
<1> SUFFICES ASSUME BotInv, [Next]_vars PROVE BotInv'
  OBVIOUS
<1>1. CASE Handle
  BY <1>1, ReadersKeep, WritersKeep, RepliesKeep, SilentEndsKeep, FaultsKeep DEF Handle
<1>2. CASE Poll \/ Crash \/ Restart \/ ServerRestarts
  BY <1>2, PollKeeps, CrashKeeps, RestartKeeps, ServerRestartKeeps
<1>3. ASSUME NEW u \in Users, NEW request \in Asked, NEW chat \in {u, Group},
             Send(u, chat, request)
      PROVE  BotInv'
  BY <1>3, SendKeeps
<1>4. ASSUME NEW u \in Users, NEW p \in Platforms, Store(u, p)
      PROVE  BotInv'
  BY <1>4, StoreKeeps
<1>5. CASE UNCHANGED vars
  BY <1>5, StutterKeeps
<1> QED
  BY <1>1, <1>2, <1>3, <1>4, <1>5 DEF Next
-----------------------------------------------------------------------------
(* Theorems                                                                *)

\* The inductive invariant holds in every behaviour of the bot.
THEOREM BotInductive == Spec => []BotInv
  BY InitBotInv, NextKeepsBotInv, PTL DEF Spec

\* Type correctness: in particular the position in the update log stays within
\* what was fetched, through deaths and redeliveries.
THEOREM BotTypeCorrect == Spec => []TypeOK
<1>1. BotInv => TypeOK
  BY DEF BotInv
<1> QED
  BY <1>1, BotInductive, PTL

\* What replies say of an account they say in its owner's private chat, and links
\* are asked for there (_require_private_chat of every account command).
THEOREM AccountsArePrivate == Spec => []AccountsStayPrivate
<1>1. BotInv => AccountsStayPrivate
  BY DEF BotInv
<1> QED
  BY <1>1, BotInductive, PTL

\* A job carries the sender and chat of its message, and a chat that was told
\* "queued" has one.
THEOREM JobsFollowTheirMessage == Spec => []JobsAreTheSenders
<1>1. BotInv => JobsAreTheSenders
  BY DEF BotInv
<1> QED
  BY <1>1, BotInductive, PTL

\* Redelivery makes at most one job more for each death of the bot.
THEOREM RedeliveryIsBounded == Spec => []JobsPerUpdate
<1>1. BotInv => JobsPerUpdate
  BY DEF BotInv, DeliveriesFit, JobsOf, JobsPerUpdate
<1> QED
  BY <1>1, BotInductive, PTL

\* Nothing undoes what a handler did when its reply fails or the bot dies before
\* it: each fault and each death leaves at most one job or link untold, through
\* broken connections, restarts of the server and redeliveries.
THEOREM UntoldEffectsAreBounded == Spec => []EffectsAreTold
<1>1. BotInv => EffectsAreTold
  BY DEF BotInv
<1> QED
  BY <1>1, BotInductive, PTL
=============================================================================
