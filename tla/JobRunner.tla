------------------------------ MODULE JobRunner ------------------------------
(***************************************************************************)
(* One job inside PublicDownloadJobRunner.run, statement by statement: the *)
(* chain of download engines, the fallback to the user's session when the  *)
(* platform asks for a login, media processing, the upload file by file    *)
(* and the cleanup in the finally clause.  The job directory is shared     *)
(* with the cleanup-once process, and the worker may die at any point.     *)
(*                                                                         *)
(* A file is a name in the job directory.  What the engine of the moment   *)
(* has written is remembered as history.  A compressed video stands for    *)
(* the file it replaces.  Deleting is assumed to fail only for what is     *)
(* not there, which unlink and rmtree are told to ignore.                  *)
(***************************************************************************)
EXTENDS Naturals, FiniteSets, DownloadErrors

CONSTANTS
  Names,        (* file names an engine may write                        *)
  NumEngines,   (* length of the platform's engine tuple (1 to 3)        *)
  MaxRuns,      (* bound: runs of the job, RetryPolicy.max_attempts      *)
  MaxCleanups,  (* bound: runs of cleanup-once while the job is modelled *)
  MaxCrashes    (* bound: deaths of the worker process, 0 or 1           *)

ASSUME RunnerAssumption ==
  /\ NumEngines \in Nat \ {0}
  /\ MaxRuns \in Nat \ {0}
  /\ MaxCleanups \in Nat
  /\ MaxCrashes \in {0, 1}

VARIABLES
  pc,          (* the statement the run is at                              *)
  auth,        (* the second phase: downloading with the user's session    *)
  engine,      (* index of the engine being tried                          *)
  dir,         (* does the job directory exist?                            *)
  files,       (* media and partial files in it                            *)
  cookie,      (* is the session cookie file in it?                        *)
  before,      (* files listed before the engine was started               *)
  found,       (* files listed after it, without those listed before       *)
  media,       (* the files of the MediaResult                             *)
  delivered,   (* history: files of this run Telegram has accepted         *)
  outcome,     (* "ok", an error code, "raised", or "none" while running   *)
  asked,       (* history: the public phase ended in LOGIN_REQUIRED        *)
  fresh,       (* history: files the engine of the moment has written      *)
  runs,        (* runs begun, at most MaxRuns                              *)
  cleanups     (* cleanup-once runs, at most MaxCleanups                   *)

diskVars == <<dir, files, cookie, fresh>>
downloadVars == <<before, found, media>>
boundVars == <<runs, cleanups>>
vars == <<pc, auth, engine, diskVars, downloadVars, delivered, outcome, asked,
          boundVars>>

EngineSteps == {"mkdir", "cookie", "before", "spawn", "engine", "list", "stat"}

Init ==
  /\ pc = "idle"
  /\ auth = FALSE
  /\ engine = 1
  /\ dir = FALSE
  /\ files = {}
  /\ cookie = FALSE
  /\ before = {}
  /\ found = {}
  /\ media = {}
  /\ delivered = {}
  /\ outcome = "none"
  /\ asked = FALSE
  /\ fresh = {}
  /\ runs = 0
  /\ cleanups = 0

-----------------------------------------------------------------------------
(* How a run ends.  Every end passes through the finally clause.           *)

Ends(value) == outcome' = value /\ pc' = "finally" /\ UNCHANGED <<auth, engine>>

\* Mutant: any error of the public phase turns to the session.
FailsToSession(code) ==
  \/ /\ ~auth
     /\ auth' = TRUE
     /\ pc' = "resolve"
     /\ UNCHANGED <<engine, outcome>>
  \/ /\ auth
     /\ Ends(IF code = "LOGIN_REQUIRED" THEN "SESSION_EXPIRED" ELSE code)

\* Mutant: LOGIN_REQUIRED of the second phase is returned as it is.
FailsUnmapped(code) ==
  \/ /\ code = "LOGIN_REQUIRED"
     /\ ~auth
     /\ auth' = TRUE
     /\ pc' = "resolve"
     /\ UNCHANGED <<engine, outcome>>
  \/ /\ auth \/ code # "LOGIN_REQUIRED"
     /\ Ends(code)

\* Mutant: LOGIN_REQUIRED resolves the session again, in either phase.
FailsToSessionAgain(code) ==
  \/ /\ code = "LOGIN_REQUIRED"
     /\ auth' = TRUE
     /\ pc' = "resolve"
     /\ UNCHANGED <<engine, outcome>>
  \/ /\ code # "LOGIN_REQUIRED"
     /\ Ends(code)

\* A DownloadError that reaches run: LOGIN_REQUIRED of the public phase starts
\* the second phase, LOGIN_REQUIRED of the second one means the session is dead.
Fails(code) ==
  \/ /\ code = "LOGIN_REQUIRED"
     /\ ~auth
     /\ auth' = TRUE
     /\ pc' = "resolve"
     /\ UNCHANGED <<engine, outcome>>
  \/ /\ code = "LOGIN_REQUIRED"
     /\ auth
     /\ Ends("SESSION_EXPIRED")
  \/ /\ code # "LOGIN_REQUIRED"
     /\ Ends(code)

\* Any other exception: "except Exception" covers the public phase only; it is
\* a sibling of the handler the second phase runs in.
Raises == Ends(IF auth THEN "raised" ELSE "INTERNAL_ERROR")

\* Mutant: the chain goes past its last engine.
FallsOffTheChain(code) ==
  \/ /\ FallbackAllowed(code)
     /\ engine' = engine + 1
     /\ pc' = "mkdir"
     /\ UNCHANGED <<auth, outcome>>
  \/ /\ ~FallbackAllowed(code)
     /\ Fails(code)

\* PlatformAdapter.download: the next engine only after an error that allows it.
EngineFails(code) ==
  \/ /\ FallbackAllowed(code)
     /\ engine < NumEngines
     /\ engine' = engine + 1
     /\ pc' = "mkdir"
     /\ UNCHANGED <<auth, outcome>>
  \/ /\ ~(FallbackAllowed(code) /\ engine < NumEngines)
     /\ Fails(code)

-----------------------------------------------------------------------------
(* The run                                                                 *)

\* process_one calls run, first or again after a retryable error.
Begin ==
  /\ pc = "idle"
  /\ runs < MaxRuns
  /\ runs > 0 => Retryable(outcome)
  /\ runs' = runs + 1
  /\ pc' = "mkdir"
  /\ auth' = FALSE
  /\ engine' = 1
  /\ asked' = FALSE
  /\ delivered' = {}
  /\ outcome' = "none"
  /\ before' = {}
  /\ found' = {}
  /\ media' = {}
  /\ UNCHANGED <<diskVars, cleanups>>

\* output_dir.mkdir(parents=True, exist_ok=True)
MakeDirectory ==
  /\ pc = "mkdir"
  /\ dir' = TRUE
  /\ pc' = "cookie"
  /\ UNCHANGED <<auth, engine, files, cookie, fresh, downloadVars, delivered,
                 outcome, asked, boundVars>>

\* In the second phase the decrypted cookies are written for the engine.
WriteCookie ==
  /\ pc = "cookie"
  /\ auth => dir
  /\ cookie' = auth
  /\ pc' = "before"
  /\ UNCHANGED <<auth, engine, dir, files, fresh, downloadVars, delivered,
                 outcome, asked, boundVars>>

\* The write raises: cleanup-once removed the empty directory, the disk is full
\* with part of the file written, or chmod fails when all of it is there.
CookieWriteFails ==
  /\ pc = "cookie"
  /\ auth
  /\ cookie' \in {FALSE, dir}
  /\ Raises
  /\ UNCHANGED <<dir, files, fresh, downloadVars, delivered, asked, boundVars>>

\* Mutant: leftovers of earlier engines are not remembered.
ListsNothing(fs) == {}

\* What the wrapper remembers of the directory before it starts the engine.
Listing(fs) == fs

\* before = _list_files(output_dir)
ListBefore ==
  /\ pc = "before"
  /\ before' = Listing(files)
  /\ fresh' = {}
  /\ pc' = "spawn"
  /\ UNCHANGED <<auth, engine, dir, files, cookie, found, media, delivered,
                 outcome, asked, boundVars>>

\* mkdir or a listing raises (the disk is full, or a directory vanishes under
\* rglob); neither is inside the try whose finally deletes the cookie.
DirectoryFails ==
  /\ pc \in {"mkdir", "before", "list"}
  /\ Raises
  /\ UNCHANGED <<diskVars, downloadVars, delivered, asked, boundVars>>

\* Mutant: the cookie file stays until the run is over.
CookieStays == cookie

\* The finally clause of EngineWrapper.download.
CookieAfterEngine == FALSE

\* What the text an engine prints is classified as, first match first.
Markers == {"unsupported", "size", "rate", "denied", "login"}

EngineError(output) ==
  CASE "unsupported" \in output -> "UNSUPPORTED_URL"
    [] "size" \in output /\ "unsupported" \notin output -> "MEDIA_TOO_LARGE"
    [] "rate" \in output /\ output \cap {"unsupported", "size"} = {} -> "RATE_LIMITED"
    [] "denied" \in output /\ output \subseteq {"denied", "login"} -> "ACCESS_DENIED"
    [] output = {"login"} -> "LOGIN_REQUIRED"
    [] output = {} -> "DOWNLOAD_FAILED"

EngineErrors == {EngineError(output) : output \in SUBSET Markers}

\* subprocess.run raises FileNotFoundError: the binary is not installed, or the
\* working directory is gone.  Both are reported as a missing engine.
EngineCannotStart ==
  /\ pc = "spawn"
  /\ cookie' = CookieAfterEngine
  /\ EngineFails("DOWNLOAD_FAILED")
  /\ UNCHANGED <<dir, files, fresh, downloadVars, delivered, asked, boundVars>>

EngineStarts ==
  /\ pc = "spawn"
  /\ dir
  /\ pc' = "engine"
  /\ UNCHANGED <<auth, engine, diskVars, downloadVars, delivered, outcome,
                 asked, boundVars>>

\* The engine subprocess writes media or partial files; a name that is already
\* there is written over, and a directory that is gone is made again.
EngineWrites ==
  /\ pc = "engine"
  /\ dir' = TRUE
  /\ \E out \in SUBSET Names \ {{}} :
       /\ files' = files \union out
       /\ fresh' = fresh \union out
  /\ UNCHANGED <<pc, auth, engine, cookie, downloadVars, delivered, outcome,
                 asked, boundVars>>

\* A non-zero exit status; partial files stay in the directory.
EngineExitsWithError ==
  /\ pc = "engine"
  /\ cookie' = CookieAfterEngine
  /\ \E code \in EngineErrors :
       /\ EngineFails(code)
       /\ asked' = IF auth THEN asked ELSE code = "LOGIN_REQUIRED"
  /\ UNCHANGED <<dir, files, fresh, downloadVars, delivered, boundVars>>

\* Anything else subprocess.run raises: the binary may not be executed, or what
\* the engine printed when it exited is not text (text=True decodes it).
EngineRaises(statement) ==
  /\ pc = statement
  /\ cookie' = CookieAfterEngine
  /\ Raises
  /\ UNCHANGED <<dir, files, fresh, downloadVars, delivered, asked, boundVars>>

EngineExits ==
  /\ pc = "engine"
  /\ cookie' = CookieAfterEngine
  /\ pc' = "list"
  /\ UNCHANGED <<auth, engine, dir, files, fresh, downloadVars, delivered,
                 outcome, asked, boundVars>>

\* List the directory again and drop what was there before.
ListFiles ==
  /\ pc = "list"
  /\ found' = files \ before
  /\ pc' = "stat"
  /\ UNCHANGED <<auth, engine, diskVars, before, media, delivered, outcome,
                 asked, boundVars>>

\* is_file drops a name that is gone; at least one is left.
CollectMedia ==
  /\ pc = "stat"
  /\ found \cap files # {}
  /\ media' = found \cap files
  /\ pc' = "process"
  /\ UNCHANGED <<auth, engine, diskVars, before, found, delivered, outcome,
                 asked, boundVars>>

NothingDownloaded ==
  /\ pc = "stat"
  /\ found \cap files = {}
  /\ EngineFails("DOWNLOAD_FAILED")
  /\ UNCHANGED <<diskVars, downloadVars, delivered, asked, boundVars>>

\* A listed file vanished between is_file and stat.
StatRaises ==
  /\ pc = "stat"
  /\ ~(found \subseteq files)
  /\ Raises
  /\ UNCHANGED <<diskVars, downloadVars, delivered, asked, boundVars>>

\* The session of the user for this platform: none, expired or decrypted.
ResolveSession ==
  /\ pc = "resolve"
  /\ \/ /\ pc' = "mkdir"
        /\ engine' = 1
        /\ UNCHANGED <<auth, outcome>>
     \/ \E code \in {"SESSION_MISSING", "SESSION_EXPIRED"} : Ends(code)
  /\ UNCHANGED <<diskVars, downloadVars, delivered, asked, boundVars>>

\* vault.decrypt raises (the key id changed, the payload does not authenticate).
DecryptFails ==
  /\ pc = "resolve"
  /\ Raises
  /\ UNCHANGED <<diskVars, downloadVars, delivered, asked, boundVars>>

\* MediaProcessor.process: the files stay, or the job is over quota or size.
ProcessMedia ==
  /\ pc = "process"
  /\ \/ pc' = "send" /\ UNCHANGED <<auth, engine, outcome>>
     \/ Fails("MEDIA_TOO_LARGE")
  /\ UNCHANGED <<diskVars, downloadVars, delivered, asked, boundVars>>

\* ffmpeg or its working directory is missing, or a file vanishes under a stat.
ProcessRaises ==
  /\ pc = "process"
  /\ Raises
  /\ UNCHANGED <<diskVars, downloadVars, delivered, asked, boundVars>>

\* Mutant: the run completes when its first file is sent.
SendFirstFile ==
  /\ pc = "send"
  /\ \E f \in (media \ delivered) \cap files : delivered' = delivered \union {f}
  /\ Ends("ok")
  /\ UNCHANGED <<diskVars, downloadVars, asked, boundVars>>

\* One file of send_media_result, in the arbitrary order of the listing.
SendFile ==
  /\ pc = "send"
  /\ \E f \in (media \ delivered) \cap files :
       /\ delivered' = delivered \union {f}
       /\ IF delivered' = media THEN Ends("ok")
          ELSE UNCHANGED <<pc, auth, engine, outcome>>
  /\ UNCHANGED <<diskVars, downloadVars, asked, boundVars>>

\* The file is gone, Telegram refuses it, or accepts it and the answer is lost:
\* every exception of the sender becomes TELEGRAM_UPLOAD_FAILED.
SendFails ==
  /\ pc = "send"
  /\ \E f \in media \ delivered :
       \/ UNCHANGED delivered
       \/ f \in files /\ delivered' = delivered \union {f}
  /\ Ends("TELEGRAM_UPLOAD_FAILED")
  /\ UNCHANGED <<diskVars, downloadVars, asked, boundVars>>

\* cleanup_job_output, whether run returns or raises.
CleanUp ==
  /\ pc = "finally"
  /\ dir' = FALSE
  /\ files' = {}
  /\ cookie' = FALSE
  /\ pc' = "idle"
  /\ UNCHANGED <<auth, engine, fresh, downloadVars, delivered, outcome,
                 asked, boundVars>>

-----------------------------------------------------------------------------
(* The environment                                                         *)

\* cleanup-once: files with an old modification time go, and directories that
\* are empty.  Engines give a file the time of its publication, so any media
\* file may look old; the cookie file only does once its run is dead (a run is
\* assumed shorter than temp_file_ttl_hours).
CleanupOnce ==
  /\ cleanups < MaxCleanups
  /\ cleanups' = cleanups + 1
  /\ \E old \in SUBSET files : files' = files \ old
  /\ cookie' \in IF pc = "dead" THEN {FALSE, cookie} ELSE {cookie}
  /\ dir' = (dir /\ (files' # {} \/ cookie'))
  /\ UNCHANGED <<pc, auth, engine, fresh, downloadVars, delivered, outcome,
                 asked, runs>>

\* The worker dies; the finally clause does not run.
Crash ==
  /\ pc # "dead"
  /\ MaxCrashes > 0
  /\ pc' = "dead"
  /\ outcome' = "none"
  /\ UNCHANGED <<auth, engine, diskVars, downloadVars, delivered, asked,
                 boundVars>>

\* What the subprocess does, in its own time.
EngineAct ==
  EngineWrites \/ EngineExitsWithError \/ EngineRaises("engine") \/ EngineExits

\* The statements of the worker itself.
Statement ==
  \/ MakeDirectory \/ WriteCookie \/ CookieWriteFails \/ ListBefore
  \/ DirectoryFails \/ EngineCannotStart \/ EngineStarts \/ EngineRaises("spawn")
  \/ ListFiles \/ CollectMedia \/ NothingDownloaded \/ StatRaises
  \/ ResolveSession \/ DecryptFails \/ ProcessMedia \/ ProcessRaises
  \/ SendFile \/ SendFails \/ CleanUp

Next == Begin \/ Statement \/ EngineAct \/ CleanupOnce \/ Crash

Spec == Init /\ [][Next]_vars

\* The statements of run are executed one after the other.  Nothing is assumed
\* of the engine: subprocess.run has no timeout, so it may never exit.
Fairness == WF_vars(Statement)

FairSpec == Spec /\ Fairness

-----------------------------------------------------------------------------
(* Properties                                                              *)

TypeOK ==
  /\ pc \in EngineSteps \union {"idle", "resolve", "process", "send", "finally", "dead"}
  /\ auth \in BOOLEAN
  /\ engine \in 1..NumEngines
  /\ dir \in BOOLEAN
  /\ files \subseteq Names
  /\ cookie \in BOOLEAN
  /\ before \subseteq Names
  /\ found \subseteq Names
  /\ media \subseteq Names
  /\ delivered \subseteq Names
  /\ outcome \in {"none", "ok", "raised"} \union ErrorCodes
  /\ asked \in BOOLEAN
  /\ fresh \subseteq Names
  /\ runs \in 0..MaxRuns
  /\ cleanups \in 0..MaxCleanups

\* The decrypted cookies are on disk only from their write to the exit of the
\* engine they were written for.  If an exception leaves download before that
\* engine is started they are there a little longer, but only while the finally
\* clause of run is due, which removes them; otherwise only the death of the
\* worker leaves them.  A run that has returned or raised leaves nothing behind,
\* whatever cleanup-once did meanwhile.
DiskIsTidy ==
  /\ cookie =>
       /\ auth
       /\ \/ pc \in {"before", "spawn", "engine", "dead"}
          \/ pc = "finally" /\ outcome = "raised"
  /\ cookie \/ files # {} => dir
  /\ pc = "idle" => ~dir /\ files = {} /\ ~cookie

\* What is sent was written by the engine that succeeded: leftovers of the
\* engines that failed before it are never taken for its result.
MediaIsFresh ==
  pc \in {"process", "send"} =>
    media # {} /\ media \cap files \subseteq fresh

\* A completed run delivered every file of its result; a run that delivered
\* anything otherwise says so with TELEGRAM_UPLOAD_FAILED (and is retried, so
\* the chat may see those files twice).
OutcomeMatchesChat ==
  pc \in {"finally", "idle"} =>
    /\ outcome = "ok" => delivered = media /\ media # {}
    /\ delivered # {} => outcome \in {"none", "ok", "TELEGRAM_UPLOAD_FAILED"}

\* The user's session is used only for media the public engines did not obtain
\* because the platform asked for a login: a run that has downloaded something
\* publicly, or failed for any other reason, never turns to the session, and
\* sends nothing before it does.
SessionOnlyWhenNeeded ==
  auth /\ pc \in EngineSteps \union {"resolve"} =>
    asked /\ media = {} /\ delivered = {}

\* Unless an engine hangs, a run ends (it returns, raises or dies): the chain of
\* engines, the turn to the session and the upload are each gone through once,
\* whatever fails.
EveryRunEnds ==
  \/ <>[](pc = "engine")
  \/ (pc = "mkdir") ~> (pc \in {"idle", "dead"})

\* The codes run may return: everything but LOGIN_REQUIRED, which is turned
\* into the second phase or into SESSION_EXPIRED.
ReturnableErrors == ErrorCodes \ {"LOGIN_REQUIRED"}

Contract ==
  INSTANCE RunContract WITH
    RunErrors <- ReturnableErrors,
    stage <- IF pc \in {"idle", "dead"} THEN pc
             ELSE IF delivered = {} THEN "run" ELSE "sent",
    returned <- IF pc = "idle" THEN outcome ELSE "none"

\* The run does what WorkerService expects of it.
ImplementsContract == Contract!Spec

\* "All failures should map to safe user-facing messages": run returns a result
\* and does not raise.
RunNeverRaises == outcome # "raised"
=============================================================================
