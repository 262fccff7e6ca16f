# OmniSaver: a TLA+ model of the download pipeline

OmniSaver is a Telegram bot that downloads media. A user sends a link; the bot
queues a job; a worker downloads the media, with the user's own platform session
if the platform asks for a login, and sends it to the chat. Users connect
sessions through a one-time link to a web portal.

These modules model the parts of that program that run concurrently, fail or
restart. `PROJECT.json` lists components, runs, the source lines every
definition stands for, the mutated definitions that show a property has teeth,
the disagreements found between code and documents, and the hazards the
properties were written for.

    tlc -config WorkerService.cfg MCWorkerService.tla
    tlapm WorkerServiceProofs.tla
    tlapm WorkerRunsProofs.tla
    tlapm SessionPortalProofs.tla
    tlapm BotRuntimeProofs.tla
    tlapm JobHistoryProofs.tla
    tlapm JobRunnerProofs.tla
    tlapm MediaProcessingProofs.tla
    tlapm InputRulesProofs.tla

## 1. Inventory

Processes: one bot (long polling), one web portal (uvicorn), one or more workers
(a loop, or `process-once`), and `cleanup-once` started by hand or by a timer.
They share a Redis list, a Postgres database (each process keeps one or two
connections for its whole life) and a storage directory. Docker restarts bot,
portal and worker (`restart: unless-stopped`); nothing else recovers anything.

| Component | State | Operations | Talks to |
|---|---|---|---|
| Bot runtime (`omnisaver_bot/runtime.py`, `public_flow.py`) | position in Telegram's update log | one handler per command, `message_handler` | queue, session repository, job repository, chats |
| Session commands (`session_commands.py`) | none | create link, list sessions, disconnect | session repository |
| URL detection (`url_detection.py`) | none | `extract_urls`, `detect_platform` | bot, downloader manager |
| Download queue (`job_queue.py`) | Redis list | `enqueue` (LPUSH), `dequeue` (RPOP) | bot, workers |
| Worker service (`service.py`, `main.py`) | job in hand, attempt, last result | `process_one`, retry, notify | queue, job repository, runner, chat |
| Job runner (`public_job.py`) | phase of the run, media result | `run` | engines, resolver, processor, sender, storage |
| Engines and manager (`engines.py`, `manager.py`, `errors.py`) | job directory, cookie file | `download`, engine chain | subprocesses |
| Media processing (`processor.py`) | job directory | quota, compression, thumbnails | ffmpeg |
| Temporary storage (`storage.py`) | storage tree | `cleanup_job_output`, `cleanup_expired_temp_files` | runner, cleanup-once |
| Telegram sender, notifications | none | upload files, send a failure text | chats |
| Session portal (`session_portal.py`) | request in progress | GET/POST connect, POST disconnect | session repository, vault |
| Session repository (`postgres.py`) | `connect_tokens`, `user_sessions`, open transaction | create, validate, spend tokens; store, read, revoke sessions | bot, portal, worker |
| Session resolver, vault | key and key id | `resolve`, `encrypt`, `decrypt` | session repository |
| Job repository (`postgres.py`) | `download_jobs`, open transaction | create, start, complete, fail, list recent | worker, bot |
| In-memory repositories (`session_repository.py`, `repository.py`) | dictionaries | the methods of the Postgres repositories | tests |
| Settings, message texts, HTML, deployment | | | |

What is hard here, and what must hold:

* **Queue and workers.** Several workers take jobs from a list whose pop leaves
  no copy; a process may die between any two statements; every UPDATE is
  unguarded. A job must have one owner, keep its outcome, run no more often than
  the retry budget, and be announced truthfully.
* **A run.** A chain of engines writes into one directory, a second phase uses
  decrypted cookies, cleanup-once deletes files meanwhile, an upload can be half
  done; statements before an engine's `try` raise too. Only fresh files may be
  sent, cookies and files may not stay behind, the
  session may be used only when the public attempt asked for a login.
* **Sessions.** Three processes share two tables without a common transaction.
  Sessions must stay with their user, a link must be spent, an erased session
  must not be read.
* **Clocks.** Each repository commits and then reads the row back; psycopg opens
  a transaction for that read and leaves it open; `CURRENT_TIMESTAMP` is the
  start of the open transaction. So the times a process writes, and the expiry
  it checks, are those of its *previous* commit or first read.
* **The bot.** Updates may be delivered again or lost when it dies, and every
  handler has its own private-chat gate. Account data must stay in private
  chats; jobs must carry their sender and chat. Its two Postgres connections are
  never reopened: it must get through its updates when one or both are broken, and
  what it did for an update whose reply is lost must stay the exception.
* **Storage.** Jobs of one user measure the same directory tree while others
  write to it and remove parts of it; the processor writes its outputs beside the
  downloads, under names derived from theirs; cleanup-once cannot tell whose file
  it unlinks. The quota and the size limit must hold, a file must be sent as
  itself, leftovers of a death must go.
* **Input rules.** Links and cookie files come in many shapes. A documented link
  must go to its platform and to no other; an accepted session must be complete.

## 2. Modules

| Module | Models | Composition |
|---|---|---|
| `DownloadErrors` | the error codes and their `retryable` and `fallback_allowed` flags | extended by the next two |
| `WorkerService` | queue, `process_one`, several workers, deaths, restarts | implements `JobLifecycle` |
| `JobLifecycle` | abstract: the life of one accepted link | |
| `WorkerServiceProofs` | theorems about `WorkerService`, its implementation of `JobLifecycle` among them | |
| `WorkerRuns` | a worker together with the run it calls | extends `WorkerService`, instantiates `RunContract`; implements `WorkerService` |
| `WorkerRunsProofs` | theorems about `WorkerRuns` | extends `WorkerServiceProofs` |
| `JobRunner` | `run`: engines, session phase, processing, upload, cleanup, with cleanup-once and a death | implements `RunContract` |
| `JobRunnerProofs` | theorems about `JobRunner`, its implementation of `RunContract` among them | |
| `RunContract` | abstract: what `WorkerService` assumes of `run` | |
| `MediaProcessing` | quota, compression, thumbnails, upload and cleanup of jobs in parallel, with cleanup-once file by file | |
| `MediaProcessingProofs` | theorems about `MediaProcessing` | |
| `SessionPortal` | links, portal, disconnect, session reads, transaction clocks | implements `SessionStore` |
| `SessionStore` | abstract: the session repository, as `InMemorySessionRepository` has it | |
| `SessionPortalProofs` | theorems about `SessionPortal`, its implementation of `SessionStore` among them | |
| `BotRuntime` | handlers, update log, redelivery, replies | |
| `BotRuntimeProofs` | theorems about `BotRuntime` | |
| `JobHistory` | time columns of `download_jobs`, `/history` | |
| `JobHistoryProofs` | theorems about `JobHistory` | |
| `UrlDetection` | platform of a link, job of a message (operators) | |
| `CookiePayload` | the portal's payload validator (operators) | |
| `InputRules` | both, decided on one input after the other | extends the last two |
| `InputRulesProofs` | theorems about `InputRules` | |
| `MC...` | finite instances of each for TLC | |

### WorkerService
`pc[w]` is the statement of `process_one` worker `w` is at: `poll`, `record`
(`get_job`/`create_queued_job`), `start` (`mark_started`), `run` and `sent`
(inside `runner.run`, before and after Telegram accepted something), `settle`
(the branches after `run`), `notify`. `Dequeue`, `Record`, `MarkStarted`,
`MarkCompleted`, `Retry`, `MarkFailed` and `NotifyFailed` are the statements;
each commit in Postgres is atomic, so one action per statement gives every
interleaving the database can. A process dies by a kill (`Crash`) or by an
exception (`RunRaises`; `run_worker` has no handler). A Redis or Postgres
call that raises is a `Crash` before or after its effect. `OneShot` workers are
`process-once`. `runs`, `uploads`, `notices`, `abandoned` are history.

### JobRunner and RunContract
`pc` walks through `EngineWrapper.download` (`mkdir`, `cookie`, `before`, `spawn`,
`engine`, `list`, `stat`), `resolve`, `process`, `send`, `finally`. `auth` is the
second phase. The cookie file is written, and the directory listed, before the
`try` whose `finally` deletes the cookie (`engines.py:66-76`): `CookieWriteFails`
may leave all of it or a part, `DirectoryFails` leaves what is there, and only the
cleanup of the run removes it. `asked` remembers that the public phase ended in
LOGIN_REQUIRED, `fresh` what the engine of the moment has written. Engine output is the set of phrases `_engine_error` looks for, so
every code it can return, and its order of precedence, is in the model. `dir`,
`files`, `cookie` are the job directory, which `CleanupOnce` changes at any step.
`Fails` and `Raises` are the two families of handlers of `run`; in the second
phase `Raises` leaves `run`, because `except Exception` covers only the first.
`RunContract` is what `WorkerService` relies on (its `run` and `sent`), and
`JobRunner` implements it.

### WorkerRuns
Joins the two sides of that contract, so that no product of `WorkerService` and
`JobRunner` is needed. One worker, `Me`, makes the call: `Calls` is the statement
`self.runner.run(job)` with the contract's `Start`, `RunIsOver` the assignment of
what the run returns. What process_one may *not* know, whether media had been sent,
it does not know here: only the contract restricts what comes back. The other
workers are those of `WorkerService`. That the whole implements `WorkerService`
says that its `RunCompletes`, `RunFails` and `RunRaises` leave out nothing a run
within the contract can do; the other direction alone, `JobRunner` keeping the
contract, would not show that.

### MediaProcessing
It takes a job from where `JobRunner` has one step, `process`, and looks at the
files: content, size, age. `measure` is `user_temp_storage_bytes`, a walk that
lists and sums one job directory after the other while the other jobs go on;
a directory or file that vanishes under it makes the job fail
(`ListRaises`, `SumRaises`). `process` visits the media in any order (a set in
the code), writes `<stem>.compressed.mp4` and `<stem>.jpg` over whatever has that
name, and `send` reads what the path holds by then. A thumbnail is always made
when its video is there, which is the case that can overwrite a file; it may have
any size in `Thumbnails`, since nothing checks it and `MEDIA_THUMBNAIL_WIDTH` has
no upper bound. A post is all that the engines of a run have left: `failed` marks
the files of engines that failed before the last one, which are in the directory
and count for the quota (`storage.py:58`) but are not media (`engines.py:80`).
`cleaner` is cleanup-once, one file per step; `due` is what dead workers had left
to expire when it began. The outcome `QUOTA` is, in the code, MEDIA_TOO_LARGE
like the other refusals; it has a name of its own so that `QuotaIsPerUser` can
speak of it. A download appears in its directory in one step; the engine that
makes it is in `JobRunner`. The size of files is the number of their bytes
(`Bytes`), so that the sum over a directory is a cardinality and can be reasoned
about without induction. A run that is over is reset, so the history in `job` is that of the
current run; the run has CHECK_DEADLOCK FALSE because all jobs may be over.

### UrlDetection, CookiePayload, InputRules
A netloc is split at its marks: parts between `@`, each with parts between `:`,
each with labels between dots, typed in capitals or not. `NormalizeHost` has the
five steps of `_normalize_host` in their order (`AfterUser`, `BeforePort`, `Lower`,
`WithoutDots`, `WithoutWww`), so user information may itself hold any mark, and a
host may be a string of dots. `endswith(".domain")` compares the last labels, and a
path is its segments. `DetectPlatform` is
`detect_platform` with its order (`FirstOf`) and its two ways to fail;
`ExtractUrls` is where in a message its links are. A payload is a sequence of
lines, of which `Kept` are read: a line that starts with `#` is skipped, HttpOnly
cookies among them. `InputRules` gives each input to the bot or the portal.

### SessionPortal and SessionStore
`began[c]` is when the open transaction of connection `c` began. A commit starts
a new one at the present time, since every commit is followed by a SELECT. The
portal's POST is three steps (`PostAccepts`, `PostStores`, `PostMarksUsed`): two
commits, and nothing else on the event loop in between; `/disconnect/{platform}`
is a plain function that FastAPI runs in a thread, and the bot's disconnect is
another process, so both interleave. Encryption is `sealed`: a payload decrypts
for the user and platform it was encrypted for.
`SessionStore` has the methods of `InMemorySessionRepository`, on which the tests
run the portal: a link is none, live, taken (its session is stored) or used.
`LinkState` maps Postgres' rows and the POST in progress to it, and every commit,
death and read of `SessionPortal` is one of its actions or changes nothing. Expiry
is left out of it, since the two stores read different clocks.

### BotRuntime
The update log, `confirmed` and `fetched` are Telegram's offset protocol; a
death makes the bot resume at `confirmed + 1`, which loses updates that were
fetched and confirmed but not handled and repeats those handled but not
confirmed. A handler is one step for its effect (repository and queue calls do
not await) and one for its reply. `broken` holds the Postgres connections that
raise on every call: that of a failed statement, or both of them when the server
went away, under a call (`DatabaseFails`) or between two (`ServerRestarts`).
Nothing reconnects or rolls back, so they raise until the bot is restarted. A link that `urlparse` cannot parse is a request of its own
(`MalformedLink`): its ValueError is not the UnsupportedUrlError that is caught.

### JobHistory
The rows' times, with the worker's transaction clock, and the set of answers
`ORDER BY created_at DESC LIMIT n` allows. `NewestIsShown` compares jobs recorded
by one worker; between two workers, whose clocks lag differently, the newer job
may be left out.

## 3. Runs

| Run | Shows |
|---|---|
| `WorkerService` | on `WorkerRuns`: `Custody`, `RowMatchesChat`, `RetryBudget`, `SettledIsFinal`, the implementation of `WorkerService` by a worker with any run that keeps `RunContract`, that of `JobLifecycle`, and `EveryJobEnds`: settled, or its worker died |
| `WorkerService_lost` (violated) | a kill after the pop loses the job: it never gets an outcome |
| `JobRunner` | `DiskIsTidy`, `MediaIsFresh`, `OutcomeMatchesChat`, `SessionOnlyWhenNeeded`, the implementation of `RunContract`, and `EveryRunEnds` (unless an engine hangs) |
| `JobRunner_raises` (violated) | an exception of the session phase leaves `run` |
| `MediaProcessing` | `AdmittedFit`, `SentFits`, `SentAsItself`, `QuotaIsPerUser`, `CleanupIsComplete` |
| `SessionPortal` | `SessionsAreOwn`, `LinkIsSpent`, `RevokedIsNotRead`, `ExpiryIsNoticed`, the implementation of `SessionStore` |
| `SessionPortal_expired` (violated) | the transaction clock: expired links that are accepted |
| `SessionPortal_reuse` (violated) | a death between the two commits of a POST leaves a used link usable |
| `BotRuntime` | `AccountsStayPrivate`, `JobsAreTheSenders`, `JobsPerUpdate`, `EffectsAreTold` (each fault or death leaves one job or link at most that nobody was told of), `EveryUpdateEnds` |
| `BotRuntime_silent` (violated) | `/disconnect` of a platform never connected, and a malformed link, get no answer |
| `JobHistory` | `StampsAreOrdered`, `NewestIsShown` |
| `InputRules` | `DocumentedLinksWork`, `OnePlatformPerLink`, `DressIsIrrelevant`, `AcceptedIsComplete` |

Each violated run checks a sentence of the repository's documents or tests;
`PROJECT.json` quotes it. The passing runs state what does hold instead: for
example `ExpiryIsNoticed` bounds how late an expired link can be accepted (never
after the portal committed anything at or past its end), `LinkIsSpent` how often
a link can be used (once, and once more for each death of the portal), `Custody` and
`EveryJobEnds` which jobs can be lost (those in the hands of a worker that died).

Smaller disagreements are in the models without a run of their own:

* `_mentions_bot` is a substring test, so a group message that names an account
  whose user name only begins like the bot's is answered, although
  `docs/specs/FUNCTIONAL_SPEC.md:49` says such messages are ignored (`MentionsBot`).
* `finished_at` is the start of the transaction that the SELECT of `mark_started`
  opened, that is, the time the last run began; `StampsAreOrdered` bounds it from
  both sides.
* `create_connect_token` dates a link from the bot's open transaction, so that
  after an idle period a new link is expired when it is sent. It is the clock of
  `SessionPortal_expired`, seen from the bot.
* A video's thumbnail, or the compressed form of another video of the same stem,
  takes the place of a file of the post. `SentAsItself` therefore speaks of files
  that share their stem with no other. Such a thumbnail is sent although nothing
  has checked its size, so `SentFits` speaks of media and compressed videos.
* What a failed engine left in the job directory counts for the quota of the run
  (`storage.py:58`), so a job can be refused although its result fits and its user
  has no other. `QuotaIsPerUser` therefore measures the whole directory.
* A quota walk that meets a directory another job of the same user is removing
  fails with INTERNAL_ERROR (`ListRaises`).
* HttpOnly cookie lines are skipped, so a payload that has `sessionid` only as
  such a line, as browsers export it, is refused as incomplete (`IsSkipped`).
* Links of `fb.watch` with a bare id are refused although their host is
  Facebook's, and those of its subdomains (`m.fb.watch/id`) are generic, since
  `_is_facebook` takes the subdomains and `_is_known_platform_host` does not:
  `OnePlatformPerLink` names the exception. Subdomains of the other short hosts
  (`m.youtu.be`) are generic too; `pin.it/` is refused, `pin.it` without the slash is Pinterest (`UrlDetection`).

### Bounds, and why they are enough

* Two jobs and two workers, one looping and one one-shot: every pairwise race.
  A third adds no new kind of pair, and the proofs cover any number. Three
  attempts is the default of `RetryPolicy`; one kill and one exception meet
  every statement. `Me` is the looping worker, which calls run after run; the
  one-shot worker stays as `WorkerService` has it. `RunErrors` has one code of each kind the worker can tell apart.
* Two engines make the chain have a middle and an end; two names let an engine
  write over or beside a leftover; two runs are a retry; two cleanups can each
  hit a different statement.
* Two users, platforms and links can be mixed up in every way; a TTL of two
  ticks and a clock of three let a transaction be older than a link's life.
* Two jobs of one user or of two, five posts: a photo over the limit, another
  beside what a failed engine left, a video and its cover, two large videos of one
  stem, and two of two stems with old dates. A file limit of 1 and a quota of 4 let
  one post be under the quota, two be over it, a compressed video still be too
  large, and leftovers alone make the difference. Thumbnails have size 2, over the
  limit, which is the size that could do harm. One cleanup and one death leave
  a directory to be cleaned beside a live job. Jobs download once; a retry is the
  same run on an empty directory.
* 13 hosts, bare and with `www` and `m`, 10 paths with and without a final slash:
  every host with every rule's path, each rule's near misses. One
  documented link in 72 dresses: no user information, a name, or one that holds
  `:`, `@` and a dot; `www.`, capitals, up to two final dots and a port.
  `DressIsIrrelevant` also dresses every bare link itself. Pairs of links for
  "the first link decides". Payloads of up to three lines, the number of required
  cookies, so a missing, foreign, HttpOnly, empty or malformed line can stand at
  each place.
* Symmetry is used in `MediaProcessing` (jobs, users), `SessionPortal` (users, platforms, tokens) and `JobHistory`
  (jobs), which have no liveness property: these values are only compared for
  equality.
* Two updates, one death and one fault (a call that raises or a restart of the
  Postgres server): an update handled before and after a death, beside another; two users and a group, to mix up senders and chats; one
  platform, which a request can name, not name, or name wrongly.
* Three jobs and a list of two let `/history` leave out a job between two others;
  one attempt and its retry, one restart.
* The clocks, numbers of crashes, faults, POSTs, cleanups and updates are bounded
  by constants named `Max...` in guards. `JobRunner`, `MediaProcessing` and
  `JobHistory` stop when their runs or jobs are used up, so their runs do not
  check for deadlock; all others do.

### Fairness

* `WorkerService` (`RunsFairness` of `WorkerRuns`): weak fairness of each worker's own
  steps, for `Me` those of its run among them, and of its restart.
  `run_worker` is a loop without a break and Docker restarts it. Crashes and
  enqueues are not fair. Weak fairness is enough: a step of a worker is never
  disabled by another process except `Dequeue`/`FindsNothing`, and one of the two
  is always enabled.
* `JobRunner`: the statements of the run. Nothing is assumed of an engine that
  runs: the code sets no timeout (`engines.py:32`), so `EveryRunEnds` says that a
  run ends unless an engine hangs for good.
* `BotRuntime`: handlers, polls and the restart; the library runs them in a loop.

## 4. Proofs

`WorkerServiceProofs` proves, for any sets of jobs and workers, any retry budget
and any number of deaths, under `WorkerAssumption` alone:

* `TypeCorrect`: `Spec => []TypeOK`
* `OneOwner`: `Spec => []Custody`
* `RowsTellTheTruth`: `Spec => []RowMatchesChat`
* `BudgetIsKept`: `Spec => []RetryBudget`
* `SettledStaysSettled`: `Spec => SettledIsFinal`

All follow from `Inductive`: `Spec => []IndInv`. None of the first four is
inductive alone. `RetryBudget` needs `runs = attempt` while a worker runs a job,
which needs that no second worker holds it, which needs that a queued job is
queued once and held by nobody. `IndInv` therefore joins `Custody` with
`HolderKnows` (what a worker's position says about the row and history of its
job) and `HistoryFits` (what a row says about the history). One lemma per action
shows that it keeps `IndInv`; `PushFacts` and `PopFacts` say what LPUSH and RPOP
do to a list without repetitions; `StepLeavesSettledAlone` gives the action
property from the same invariant.

The module also proves `LifecycleIsImplemented`: `Spec => ImplementsLifecycle`,
from the same invariant. `PhaseFacts` says that
where a job is (in the list, held, settled, abandoned) decides its phase; then
one lemma per kind of step names the lifecycle step it is: `Enqueue` is `Accept`,
the pop `Take`, the first accepted message `Deliver`, `mark_completed` `Complete`,
`mark_failed` `Fail`, a notice that arrives `Announce`, a death `Abandon`, and the
rest stutters.

`WorkerRunsProofs` proves, for any jobs, workers, error codes and retry budget and
for each worker in the role of `Me`, under `WorkerAssumption` and `MeAssumption`
(the upload error is one a run may return, as `public_job.py:133` has it):

* `RunsStayInStep`: `RunsSpec => []InStep`
* `ServiceIsImplemented`: `RunsSpec => ImplementsService`
* `RunsKeepJobsSafe`: `RunsSpec => [](TypeOK /\ Custody /\ RowMatchesChat /\ RetryBudget)`
* `RunsImplementLifecycle`: `RunsSpec => ImplementsLifecycle /\ SettledIsFinal`

`InStep`, with the type of `pc`, is inductive: a run has delivered exactly when
`WorkerService` would be at `sent`, which is what turns the contract's guards into
those of `RunCompletes`, `RunFails` and `RunRaises`; and no run is going on when
`Me` comes to a call, so the conjunction `Calls` is never blocked by its run.
Three theorems now form a chain: `ContractIsImplemented` (a run keeps the
contract), `ServiceIsImplemented` (a worker with such runs is the worker of
`WorkerService`) and `LifecycleIsImplemented` (workers and queue are the lifecycle
a chat sees). The last two theorems are their consequence: what is proved of
`WorkerService` holds of the composition that TLC runs. TLC checked `IndInv` and
`InStep` on the instance of that run before they were proved.

`SessionPortalProofs` proves, for any users, platforms, links, lifetimes and
bounds, under `PortalAssumption` alone:

* `PortalTypeCorrect`: `Spec => []TypeOK`
* `SessionsStayOwn`: `Spec => []SessionsAreOwn`
* `LinksAreSpent`: `Spec => []LinkIsSpent`
* `RevokedStaysUnread`: `Spec => RevokedIsNotRead`
* `ExpiryHasABound`: `Spec => ExpiryIsNoticed`

All follow from `PortalInductive`: `Spec => []PortalInv`. The clause that carries
the proof is `PostFits`: what the POST in progress read before its commits is
still so when it writes, since only the portal spends links and its event loop
runs one POST at a time, and nobody can have erased a payload before it is
stored. `PayloadsFit` ties rows, payloads and links together, `LinksFit` counts
the sessions of a link against the deaths of the portal, and `ClocksFit` says
that a transaction of the portal never began before its last commit, which is
what bounds how stale the expiry check is.

The module also proves `StoreIsImplemented`: `Spec => ImplementsStore`, from the
same invariant. `PostStores` is `StoreSession`, which needs that the link is
still unused and the payload still unseen (`PostFits`); `PostMarksUsed` is
`MarkUsed`, a death between them `LoseMark`.

`BotRuntimeProofs` proves, for any users, platforms and requests and any number
of updates, deaths and faults, under `BotAssumption` alone:

* `BotTypeCorrect`: `Spec => []TypeOK`
* `AccountsArePrivate`: `Spec => []AccountsStayPrivate`
* `JobsFollowTheirMessage`: `Spec => []JobsAreTheSenders`
* `RedeliveryIsBounded`: `Spec => []JobsPerUpdate`
* `UntoldEffectsAreBounded`: `Spec => []EffectsAreTold`

All follow from `BotInductive`: `Spec => []BotInv`. A handler is two steps, so
what a reply may say has to be known while it is on its way: `AnswerFits` says
that its account data belongs to the sender of the update at hand, in a private
chat, and that "queued" has a job behind it. `DeliveriesFit` carries the bound on
jobs: an update the bot has still to handle has at most as many jobs as the bot
has died, so one more delivery keeps it within one above. `EffectsFit` says which
requests can have an effect at all, so that an update answered with anything but
"queued" or a link has none; then the untold ones grow only by the update whose
reply failed, whose call raised after its commit, or whose handler died.

`JobHistoryProofs` proves, for any jobs, workers, attempts, clock and restarts,
under `HistoryAssumption` alone:

* `HistoryTypeCorrect`: `Spec => []TypeOK`
* `StampsStayOrdered`: `Spec => []StampsAreOrdered`
* `NewestStaysShown`: `Spec => []NewestIsShown`

All follow from `HistoryInductive`: `Spec => []HistoryInv`. The times are those of
transactions, so their order rests on `HoldersFit`: a job has one worker, and the
transaction that worker has open began at or after every time its row carries.
`ListsFit` says the same of the list of jobs a worker recorded, whose dates
increase and lie at or before what its connection reads as the time now; what
`/history` leaves out follows from it.

`JobRunnerProofs` proves, for any file names, any length of the engine chain and
any number of runs and cleanups, under `RunnerAssumption` alone (which still has
at most one death: a dead run stays dead):

* `RunnerTypeCorrect`: `Spec => []TypeOK`
* `DiskStaysTidy`: `Spec => []DiskIsTidy`
* `MediaStaysFresh`: `Spec => []MediaIsFresh`
* `OutcomesMatchChats`: `Spec => []OutcomeMatchesChat`
* `SessionIsLastResort`: `Spec => []SessionOnlyWhenNeeded`
* `ContractIsImplemented`: `Spec => ImplementsContract`

All follow from `RunnerInductive`: `Spec => []RunnerInv`. `FreshFits` carries the
freshness of the media through the statements between the listing before an
engine and the one after it: while the engine runs, every file that is not in
`before` was written by it, and cleanup-once can only take files away. `AskedFits`
ties the second phase to the LOGIN_REQUIRED of the first. That the cookies do not
outlive the run rests on `DiskIsTidy` itself: every statement that can raise with
the cookie on disk is in the second phase, where an exception is not turned into a
result, and passes through the cleanup. `ProgressFits` and `OutcomeFits` say what a run can hold, and that it
has no outcome, at each statement. The contract follows step by step: the
beginning of a run is its `Start`, the first accepted file its `Deliver`, the
cleanup that ends the run its `Complete`, `Fail` or `Raise`, a death its `Crash`;
every other statement, the second phase among them, stutters.

`MediaProcessingProofs` proves, for any jobs, users and limits, any finite posts
and any number of cleanups and deaths, under `MediaAssumption` alone:

* `MediaTypeCorrect`: `Spec => []TypeOK`
* `AdmittedAlwaysFit`: `Spec => []AdmittedFit`
* `SentAlwaysFit`: `Spec => []SentFits`
* `SentAsThemselves`: `Spec => []SentAsItself`
* `QuotaStaysPerUser`: `Spec => []QuotaIsPerUser`
* `CleanupsAreComplete`: `Spec => []CleanupIsComplete`

`MediaAssumption` asks for what the code gives: posts with finitely many files of
natural sizes and at least one of the last engine (`engines.py:82`), a file limit of
at least one (`settings.py:96`, `minimum=1`), and thumbnails of any sizes. All
follow from `MediaInductive`: `Spec => []MediaInv`, which has five parts beside the
types:

* `AdmissionFits`. No job knows what the others have measured, so that the quota
  holds is a fact about sets of jobs: among any live jobs of one user there is one
  that *covers* them all, that is, for each of them it has counted the bytes that
  are still there, or has its directory still to list, or has listed it and not
  yet summed it. It is the last of them to download, since it starts to measure
  after all their files are on disk and nobody downloads twice. When it is
  admitted the last two cases are over, so what it counted bounds them all. The
  counted bytes are an existential witness (`Counts`): the code keeps only their
  number, and the number of a set of bytes may be less than the sum, because a
  file can be replaced while it is measured.
* `RunsFit`. `FileFits` ties every file in a live job's directory to the stem and
  kind of what it was made from; compressed videos are within the limit. So a
  path sent for a file whose stem is its own in the result holds that file or its
  compressed form: a thumbnail cannot be there, for it is a photo of a video and
  the type of a path does not change, and what a failed engine left has a name of
  its own, or the last engine's listing would not have it.
* `QuotaFits`. A job that is alone counts its own directory, and that once.
* `WholeFits`. As long as no cleanup has begun, the files a run has listed or has
  still to process are there, so nothing raises for a job that is alone.
* `CleanerFits`. What is due and still there is in a directory the cleanup has not
  listed yet, or on its present list.

TLC has checked `RunsFit`, `QuotaFits`, `WholeFits` and `CleanerFits` on the instance of the run
before they were proved; it cannot evaluate the unbounded witness of
`AdmissionFits`, of which the run checks the consequence, `AdmittedFit`.

`InputRulesProofs` proves, for messages with any number of links, hosts with any
labels, any paths, and payloads with any number of lines, under `InputsAssumption`
alone (messages and payloads are sequences of `Link` and `Line`, dresses members of
`Dress`; a part of a netloc has at least one label, if an empty one):

* `DocumentedLinks`: `Spec => []DocumentedLinksWork`
* `LinksAreUnambiguous`: `Spec => []OnePlatformPerLink`
* `DressNeverCounts`: `Spec => []DressIsIrrelevant`
* `AcceptedPayloads`: `Spec => []AcceptedIsComplete`

The invariant is `ResultFits`: a verdict is what the rules make of the input at
hand. The rest is about the rules. `PassesOnOwnSite` gives each platform the labels
that stand before the last one in its hosts (`Owned`): a check passes only on such
a host, `m.facebook.com` and `vm.tiktok.com` included. Since no label is owned
twice (`OwnedApart`), no link passes two checks (`OnePasses`), and whichever check
passes decides wherever it stands in the order (`PassingDecides`). `PatternPasses`
takes the documented patterns one by one. `UserAndPortGo`, `DotsGo` and `WwwGoes`
say what each step of `_normalize_host` takes away, and `DressGoes` that nothing of
a dress is left. `SessionHostIsKnown` says on which hosts a session platform's
check can pass: known ones, and subdomains of `fb.watch`. `LeastPosition` finds the first
link of a message of any length by the well-foundedness of the natural numbers. For
payloads, everything after the check for blank input is a function of the set of
lines that are read.

Only model-checked: liveness (`EveryJobEnds`, `EveryRunEnds`, `EveryUpdateEnds`),
since fairness and ENABLED are outside the prover, and the violated runs, which
are counterexamples. Every invariant, action property and refinement of the
passing runs has a theorem.

## 5. What is not modelled

* `requires_auth=True`, the session status `expired` and `expires_at`: nothing
  outside the tests sets them.
* Deleting a file or directory is assumed to fail only for what is not there, which
  the code ignores; another failure of `unlink` or `rmtree` would leave what it
  leaves.
* A run is assumed shorter than `temp_file_ttl_hours`, so the cookie file of a
  live run never looks old to cleanup-once.
* In `JobRunner` a compressed video stands for the file it replaces, and sizes and
  the quota are only seen as "refused" or "raised"; `MediaProcessing` has them.
* Subdirectories that an engine makes below the job directory: names are compared
  within one directory, so two files of one name in different ones are left out.
* The command lines of engines and ffmpeg: they are lists of options.
* The cipher and its key ids (`vault.py`): nothing in `src/` rotates a key, and a
  payload that cannot be opened is a run that raises in `JobRunner`.
* JSON, multipart and HTML encodings, message texts, settings, migrations,
  scripts, Caddy: they keep no state and no property is about them.
  `download_results` is written and never read.
* `InMemoryDownloadJobRepository` and the in-memory queue, which only tests use.
  The repositories take the time from `datetime.now`, which is why tests that use
  them do not meet the clock findings.
* A database connection that breaks is, for a worker, a death; the portal's is
  left out, since all it can do is answer 500 until it is restarted. The bot's
  are in `BotRuntime`.
* No property covers four hazards of `PROJECT.json`: an engine that hangs (no
  code ends it), the substring test for the mention, an engine that writes over a
  leftover, for which no document says what should happen, and a link that is dated
  too early (it makes what is said of expiry hold more easily).

## 6. Plan

1. The bot's side of the same chain: that the jobs `BotRuntime` queues are the jobs
   `WorkerService` accepts, so that a message and its redeliveries can be followed
   to the chat in one theorem.
2. Liveness over several components: an update that ends with "queued" leads to an
   outcome, under the fairness of bot and workers, checked on one job.
