------------------------------ MODULE BotRuntime ------------------------------
(***************************************************************************)
(* The Telegram bot process: updates in, jobs, links and replies out.      *)
(*                                                                         *)
(* Updates form a log kept by Telegram.  The bot polls it: a poll confirms *)
(* what earlier polls returned and returns what is new, whether or not the *)
(* handlers have got that far.  Handlers run one at a time, in order       *)
(* (concurrent updates are off).  A handler does its Redis or Postgres     *)
(* work in one go and then awaits the reply.  An exception ends the        *)
(* handler only: no error handler is registered, the library logs it.      *)
(* The two repositories each keep one Postgres connection for the life of  *)
(* the process and never roll back: once a statement failed, every later   *)
(* call on its connection raises, and once the server went away, every     *)
(* later call on either.                                                   *)
(* No handler filters edits out, so an edited message is one more update.  *)
(***************************************************************************)
EXTENDS Naturals, Sequences, FiniteSets

CONSTANTS
  Users,        (* Telegram users; a user's private chat has the user's id *)
  Group,        (* a group chat                                            *)
  Platforms,    (* SUPPORTED_SESSION_PLATFORMS                             *)
  Asked,        (* the requests users make, some of Requests               *)
  MaxUpdates,   (* bound of the log                                        *)
  MaxCrashes,   (* bound: deaths of the bot                                *)
  MaxFaults     (* bound: calls of Redis, Postgres or Telegram that raise, *)
                (* and restarts of the Postgres server                     *)

\* What a user can ask.  Of a plain text the handlers look at its first link
\* and, in a group, at the user names in it: the bot's own, or one that only
\* begins like the bot's.
Requests ==
  [command : {"help", "sessions", "history"}]
    \union [command : {"connect"}, platform : Platforms]
    \union [command : {"disconnect"}, platform : Platforms \union {"missing", "unknown"}]
    \union [command : {"text"}, link : {"none", "supported", "unsupported", "malformed"},
            mention : {"none", "bot", "longer name"}]

ASSUME BotAssumption ==
  /\ Group \notin Users
  /\ Asked \subseteq Requests
  /\ MaxUpdates \in Nat
  /\ MaxCrashes \in Nat
  /\ MaxFaults \in Nat

VARIABLES
  log,         (* the updates, oldest first: [user, chat, request]     *)
  confirmed,   (* Telegram will not deliver these first updates again  *)
  fetched,     (* the first updates that polls have returned           *)
  next,        (* the update to be handled next                        *)
  pc,          (* idle | reply: awaiting _reply | down                 *)
  answer,      (* the reply the current handler is sending             *)
  broken,      (* the Postgres connections that raise on every call    *)
  sessions,    (* sessions[u][p]: the row of user_sessions             *)
  links,       (* connect tokens created: [user, platform, chat, from] *)
  jobs,        (* jobs enqueued, in order: [user, chat, from]          *)
  replies,     (* replies sent: [chat, text, user, from]               *)
  ended,       (* history: how handling update i ended, last time      *)
  crashes,
  faults

botVars == <<confirmed, fetched, next, pc, answer>>
effectVars == <<sessions, links, jobs>>
boundVars == <<crashes, faults>>
vars == <<log, botVars, broken, effectVars, replies, ended, boundVars>>

NoAnswer == [text |-> "none"]

Init ==
  /\ log = << >>
  /\ confirmed = 0
  /\ fetched = 0
  /\ next = 1
  /\ pc = "idle"
  /\ answer = NoAnswer
  /\ broken = {}
  /\ sessions = [u \in Users |-> [p \in Platforms |-> "none"]]
  /\ links = {}
  /\ jobs = << >>
  /\ replies = {}
  /\ ended = [i \in 1..MaxUpdates |-> "pending"]
  /\ crashes = 0
  /\ faults = 0

Current == log[next]
Asks(command) == pc = "idle" /\ next <= fetched /\ Current.request.command = command

\* _is_private_chat
Private(update) == update.chat # Group

\* Mutant: the command runs wherever it is typed.
RunsAnywhere(update) == FALSE

\* _require_private_chat: must this command be refused here?
RefusedHere(update) == ~Private(update)

\* _mentions_bot: "@username" occurs somewhere in the text.
MentionsBot(request) == request.mention \in {"bot", "longer name"}

-----------------------------------------------------------------------------
(* The end of a handler                                                    *)

\* Mutant: the next update is skipped.
EndsSkipping(how) ==
  /\ ended' = [ended EXCEPT ![next] = how]
  /\ next' = next + 2
  /\ pc' = "idle"
  /\ answer' = NoAnswer
  /\ UNCHANGED <<log, confirmed, fetched>>

Ends(how) ==
  /\ ended' = [ended EXCEPT ![next] = how]
  /\ next' = next + 1
  /\ pc' = "idle"
  /\ answer' = NoAnswer
  /\ UNCHANGED <<log, confirmed, fetched>>

\* The handler's work is done and the reply is on its way; user says whose data
\* the text holds.
Answers(text, user) ==
  /\ pc' = "reply"
  /\ answer' = [text |-> text, user |-> user]
  /\ UNCHANGED <<broken, log, confirmed, fetched, next, replies, ended, boundVars>>

AnswersAfterReading(text, user) == Answers(text, user) /\ UNCHANGED effectVars

\* _reply returned.
Reply ==
  /\ pc = "reply"
  /\ replies' = replies \union
       {[chat |-> Current.chat, text |-> answer.text, user |-> answer.user, from |-> next]}
  /\ Ends("answered")
  /\ UNCHANGED <<broken, effectVars, boundVars>>

\* Mutant: a reply that fails makes the library hand the update over again.
ReplyFailsAndRepeats ==
  /\ pc = "reply"
  /\ faults < MaxFaults
  /\ faults' = faults + 1
  /\ pc' = "idle"
  /\ answer' = NoAnswer
  /\ UNCHANGED <<broken, log, confirmed, fetched, next, ended, effectVars, replies, crashes>>

\* reply_text raised; the message may have arrived nevertheless.
ReplyFails ==
  /\ pc = "reply"
  /\ faults < MaxFaults
  /\ faults' = faults + 1
  /\ \/ replies' = replies \union
          {[chat |-> Current.chat, text |-> answer.text, user |-> answer.user, from |-> next]}
     \/ UNCHANGED replies
  /\ Ends("unanswered")
  /\ UNCHANGED <<broken, effectVars, crashes>>

-----------------------------------------------------------------------------
(* The handlers                                                            *)

\* An account command that may run here.
Account(command) == Asks(command) /\ ~RefusedHere(Current)

Connections == {"sessions", "history"}

\* The Postgres connection a request is served from, if it needs one.
DatabaseOf(request) ==
  CASE request.command \in {"connect", "sessions", "disconnect"} -> {"sessions"}
    [] request.command = "history" -> {"history"}
    [] OTHER -> {}

Usable == DatabaseOf(Current.request) \cap broken = {}

NamesPlatform == Current.request.platform \in Platforms
HasRow == sessions[Current.user][Current.request.platform] # "none"

\* A text the bot takes notice of.
Addressed == Asks("text") /\ (Private(Current) \/ MentionsBot(Current.request))

Help == Asks("help") /\ AnswersAfterReading("help", Current.user)

\* The first statement of every account command.
Refuse ==
  /\ \E command \in {"connect", "sessions", "disconnect", "history"} : Asks(command)
  /\ RefusedHere(Current)
  /\ AnswersAfterReading("open a private chat", Current.user)

\* create_connect_link
CreatesToken ==
  /\ Account("connect") /\ Usable
  /\ links' = links \union
       {[user |-> Current.user, platform |-> Current.request.platform,
         chat |-> Current.chat, from |-> next]}
  /\ UNCHANGED <<sessions, jobs>>

Connect == CreatesToken /\ Answers("link", Current.user)

Sessions == Account("sessions") /\ Usable /\ AnswersAfterReading("sessions", Current.user)

History == Account("history") /\ Usable /\ AnswersAfterReading("history", Current.user)

\* Without a platform, or with one that has no sessions: the usage text.
DisconnectUsage ==
  /\ Account("disconnect")
  /\ ~NamesPlatform
  /\ AnswersAfterReading("usage", Current.user)

\* disconnect_session
Revokes ==
  /\ Account("disconnect") /\ Usable
  /\ NamesPlatform /\ HasRow
  /\ sessions' = [sessions EXCEPT ![Current.user][Current.request.platform] = "revoked"]
  /\ UNCHANGED <<links, jobs>>

Disconnect == Revokes /\ Answers("disconnected", Current.user)

\* Mutant: the exception is not contained and the bot stops.
StopsOnUnknownSession ==
  /\ Account("disconnect") /\ Usable
  /\ NamesPlatform /\ ~HasRow
  /\ pc' = "stopped"
  /\ UNCHANGED <<broken, log, confirmed, fetched, next, answer, ended, effectVars, replies,
                 boundVars>>

\* There is no row: _require_session raises KeyError, which nothing catches.
DisconnectUnknownSession ==
  /\ Account("disconnect") /\ Usable
  /\ NamesPlatform /\ ~HasRow
  /\ Ends("raised")
  /\ UNCHANGED <<broken, effectVars, replies, boundVars>>

\* Mutant: whether a text is for the bot is asked after its link was queued.
EnqueuesThenIgnores ==
  /\ Asks("text") /\ ~Addressed
  /\ jobs' = IF Current.request.link = "supported"
             THEN Append(jobs, [user |-> Current.user, chat |-> Current.chat, from |-> next])
             ELSE jobs
  /\ Ends("ignored")
  /\ UNCHANGED <<broken, sessions, links, replies, boundVars>>

\* A text in a group that does not mention the bot.
IgnoreText ==
  /\ Asks("text") /\ ~Addressed
  /\ Ends("ignored")
  /\ UNCHANGED <<broken, effectVars, replies, boundVars>>

\* No link, or a first link of no known kind.
RefuseText ==
  /\ Addressed
  /\ Current.request.link \in {"none", "unsupported"}
  /\ AnswersAfterReading("unsupported", Current.user)

\* urlparse raises ValueError, of which UnsupportedUrlError is a subclass and not
\* the other way round: nothing catches it.
MalformedLink ==
  /\ Addressed
  /\ Current.request.link = "malformed"
  /\ Ends("raised")
  /\ UNCHANGED <<broken, effectVars, replies, boundVars>>

\* Mutant: the media goes to the sender's private chat.
JobForSender(update) == [user |-> update.user, chat |-> update.user, from |-> next]

\* The sender's session is used, the message's chat receives the media.
JobFor(update) == [user |-> update.user, chat |-> update.chat, from |-> next]

\* enqueue_public_download_job_from_message
Enqueues ==
  /\ Addressed /\ Usable
  /\ Current.request.link = "supported"
  /\ jobs' = Append(jobs, JobFor(Current))
  /\ UNCHANGED <<sessions, links>>

AcceptLink == Enqueues /\ Answers("queued", Current.user)

\* The push to Redis raises, with or without having had its effect; the client
\* connects anew for the next one.
QueueFails ==
  /\ faults < MaxFaults
  /\ faults' = faults + 1
  /\ \/ Enqueues
     \/ Addressed /\ Current.request.link = "supported" /\ UNCHANGED effectVars
  /\ Ends("raised")
  /\ UNCHANGED <<broken, replies, crashes>>

\* A request that calls Postgres.
CallsDatabase ==
  \/ \E command \in {"connect", "sessions", "history"} : Account(command)
  \/ Account("disconnect") /\ NamesPlatform

\* A call of Postgres raises, with or without its commit: a statement failed and
\* left its transaction aborted, or the server went away and took both
\* connections with it.
DatabaseFails ==
  /\ faults < MaxFaults
  /\ CallsDatabase /\ Usable
  /\ faults' = faults + 1
  /\ broken' \in {broken \union DatabaseOf(Current.request), Connections}
  /\ CreatesToken \/ Revokes \/ UNCHANGED effectVars
  /\ Ends("raised")
  /\ UNCHANGED <<replies, crashes>>

\* Nothing reconnects or rolls back: the next call on that connection raises.
DatabaseStaysBroken ==
  /\ CallsDatabase /\ ~Usable
  /\ Ends("raised")
  /\ UNCHANGED <<broken, effectVars, replies, boundVars>>

-----------------------------------------------------------------------------
(* The library, the process and its environment                            *)

\* getUpdates(offset = fetched + 1), beside the handlers.
Poll ==
  /\ pc # "down"
  /\ confirmed' = fetched
  /\ fetched' = Len(log)
  /\ UNCHANGED <<broken, log, next, pc, answer, effectVars, replies, ended, boundVars>>

\* Updates that were fetched and not handled are lost if a later poll confirmed
\* them; updates that were handled come back if none did.
Crash ==
  /\ pc # "down"
  /\ crashes < MaxCrashes
  /\ crashes' = crashes + 1
  /\ ended' = [i \in 1..MaxUpdates |->
       IF i \in next..confirmed THEN "lost"
       ELSE IF i \in confirmed + 1..fetched THEN "pending" ELSE ended[i]]
  /\ next' = confirmed + 1
  /\ fetched' = confirmed
  /\ pc' = "down"
  /\ answer' = NoAnswer
  /\ broken' = {}
  /\ UNCHANGED <<log, confirmed, effectVars, replies, faults>>

Restart ==
  /\ pc = "down"
  /\ pc' = "idle"
  /\ UNCHANGED <<broken, log, confirmed, fetched, next, answer, effectVars, replies, ended,
                 boundVars>>

\* The Postgres server goes away between two calls of the bot.
ServerRestarts ==
  /\ pc # "down"
  /\ faults < MaxFaults
  /\ faults' = faults + 1
  /\ broken' = Connections
  /\ UNCHANGED <<log, botVars, effectVars, replies, ended, crashes>>

\* A user sends or edits a message, in the private chat or in the group.
Send(u, chat, request) ==
  /\ Len(log) < MaxUpdates
  /\ log' = Append(log, [user |-> u, chat |-> chat, request |-> request])
  /\ UNCHANGED <<broken, botVars, effectVars, replies, ended, boundVars>>

\* The portal stores a session for the owner of a link.
Store(u, p) ==
  /\ \E l \in links : l.user = u /\ l.platform = p
  /\ sessions[u][p] # "connected"
  /\ sessions' = [sessions EXCEPT ![u][p] = "connected"]
  /\ UNCHANGED <<broken, log, botVars, links, jobs, replies, ended, boundVars>>

Handle ==
  \/ Help \/ Refuse \/ Connect \/ Sessions \/ History
  \/ DisconnectUsage \/ Disconnect \/ DisconnectUnknownSession
  \/ IgnoreText \/ RefuseText \/ MalformedLink \/ AcceptLink
  \/ QueueFails \/ DatabaseFails \/ DatabaseStaysBroken \/ Reply \/ ReplyFails

Next ==
  \/ Handle \/ Poll \/ Crash \/ Restart \/ ServerRestarts
  \/ \E u \in Users, request \in Asked :
       \E chat \in {u, Group} : Send(u, chat, request)
  \/ \E u \in Users, p \in Platforms : Store(u, p)

Spec == Init /\ [][Next]_vars

\* The event loop runs handlers and polls; Docker restarts the process.
Fairness == WF_vars(Handle) /\ WF_vars(Poll) /\ WF_vars(Restart)

FairSpec == Spec /\ Fairness

-----------------------------------------------------------------------------
(* Properties                                                              *)

Updates == 1..Len(log)

TypeOK ==
  /\ log \in Seq([user : Users, chat : Users \union {Group}, request : Requests])
  /\ confirmed \in 0..Len(log) /\ fetched \in confirmed..Len(log)
  /\ next \in 1..fetched + 1
  /\ pc \in {"idle", "reply", "down"}
  /\ broken \subseteq Connections
  /\ sessions \in [Users -> [Platforms -> {"none", "connected", "revoked"}]]
  /\ \A job \in {jobs[n] : n \in DOMAIN jobs} : job.from \in Updates
  /\ ended \in [1..MaxUpdates -> {"pending", "answered", "unanswered", "raised",
                                  "ignored", "lost"}]
  /\ crashes \in 0..MaxCrashes
  /\ faults \in 0..MaxFaults

AccountTexts == {"link", "sessions", "history", "disconnected"}

\* "In groups, the bot must not create connect tokens, list sessions, disconnect
\* sessions, or show history": what a reply says of a user's account it says in
\* that user's private chat, and every link was asked for there.
AccountsStayPrivate ==
  /\ \A r \in replies : r.text \in AccountTexts => r.chat = r.user
  /\ \A l \in links : l.chat = l.user

\* Session ownership and delivery: a job carries the sender and the chat of the
\* message it was made from, through redeliveries too, and a chat that was told
\* "queued" has a job that will be delivered to it.
JobsAreTheSenders ==
  /\ \A n \in DOMAIN jobs :
       /\ jobs[n].user = log[jobs[n].from].user
       /\ jobs[n].chat = log[jobs[n].from].chat
  /\ \A r \in replies : r.text = "queued" =>
       \E n \in DOMAIN jobs :
         jobs[n].from = r.from /\ jobs[n].chat = r.chat /\ jobs[n].user = r.user

\* An update makes one job, and one more for each death of the bot: only an
\* update that no poll had confirmed comes back.
JobsPerUpdate ==
  \A i \in Updates :
    Cardinality({n \in DOMAIN jobs : jobs[n].from = i}) <= 1 + crashes

\* A job or a link stands behind update i.
HasEffect(i) ==
  \/ \E n \in DOMAIN jobs : jobs[n].from = i
  \/ \E l \in links : l.from = i

Told(i) == \E r \in replies : r.from = i /\ r.text \in {"queued", "link"}

\* Updates of which a job or a link was made and nobody heard, the one whose
\* reply is on its way excepted.
UntoldEffects ==
  {i \in Updates : HasEffect(i) /\ ~Told(i) /\ ~(pc = "reply" /\ i = next)}

\* A handler does its work and then awaits the reply, and nothing undoes the work
\* when the reply fails or the bot dies in between: each fault or death leaves at
\* most one update with a job or a link that nobody was told of, however many
\* connections it broke and whatever is delivered again.
EffectsAreTold == Cardinality(UntoldEffects) <= faults + crashes

\* Under fairness the bot gets through its updates: each is answered, ignored,
\* ends in an exception, or was confirmed by a poll before a death.
EveryUpdateEnds ==
  \A i \in 1..MaxUpdates : (i \in Updates) ~> (i \in Updates /\ ended[i] # "pending")

\* "All failures should map to safe user-facing messages": without a fault of
\* Redis, Postgres or Telegram no request ends in an exception.
NoSilentFailure == faults = 0 => \A i \in Updates : ended[i] # "raised"
=============================================================================
