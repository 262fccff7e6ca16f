--------------------------- MODULE JobRunnerProofs ---------------------------
(***************************************************************************)
(* Proofs that a run keeps the disk tidy, sends only what it downloaded,   *)
(* tells the chat the truth and turns to the session only when it has to,  *)
(* for any file names, any length of the engine chain and any number of    *)
(* runs and cleanups; and that it does what RunContract says.              *)
(***************************************************************************)
EXTENDS JobRunner, TLAPS

\* What a run has obtained by the statement it is at.
ProgressFits ==
  /\ pc \in EngineSteps \union {"resolve"} => media = {}
  /\ pc \in EngineSteps \union {"resolve", "process"} => delivered = {}
  /\ pc \in {"process", "send"} => media # {}
  /\ pc = "send" => delivered \subseteq media
  /\ pc = "resolve" => auth

\* What was not in the directory when the engine started was written by it.
FreshFits ==
  /\ pc = "spawn" => files \subseteq before
  /\ pc \in {"engine", "list"} => files \ before \subseteq fresh
  /\ pc = "stat" => found \cap files \subseteq fresh

\* The second phase follows a public one that ended in LOGIN_REQUIRED.
AskedFits == auth /\ pc \in EngineSteps \union {"resolve"} => asked

\* A run that is not over has no outcome; one that is never ends with LOGIN_REQUIRED.
OutcomeFits ==
  /\ pc \notin {"idle", "finally"} => outcome = "none"
  /\ pc = "finally" => outcome \in {"ok", "raised"} \union ReturnableErrors

RunnerInv ==
  /\ TypeOK /\ ProgressFits /\ AskedFits /\ FreshFits /\ OutcomeFits
  /\ DiskIsTidy /\ MediaIsFresh /\ OutcomeMatchesChat
-----------------------------------------------------------------------------
(* Lemmas                                                                  *)

\* Whatever an engine prints, its error is one a run may return, or LOGIN_REQUIRED.
LEMMA EngineErrorsAreErrors ==
  ASSUME NEW code \in EngineErrors
  PROVE  code \in ErrorCodes
<1>1. PICK output \in SUBSET Markers : code = EngineError(output)
  BY DEF EngineErrors
<1>2. CASE "unsupported" \in output
  BY <1>1, <1>2 DEF EngineError, ErrorCodes
<1>3. CASE "size" \in output /\ "unsupported" \notin output
  BY <1>1, <1>3 DEF EngineError, ErrorCodes
<1>4. CASE "rate" \in output /\ output \cap {"unsupported", "size"} = {}
  BY <1>1, <1>4 DEF EngineError, ErrorCodes
<1>5. CASE "denied" \in output /\ output \subseteq {"denied", "login"}
  BY <1>1, <1>5 DEF EngineError, ErrorCodes
<1>6. CASE output = {"login"}
  BY <1>1, <1>6 DEF EngineError, ErrorCodes
<1>7. CASE output = {}
  BY <1>1, <1>7 DEF EngineError, ErrorCodes
<1>8. CASE output \cap {"unsupported", "size", "rate", "denied"} = {}
  BY <1>1, <1>6, <1>7, <1>8 DEF Markers
<1> QED
  BY <1>1, <1>2, <1>3, <1>4, <1>5, <1>8 DEF Markers

\* A run that ends, its cookie removed or left to the finally clause, keeps the invariant.
LEMMA EndKeeps ==
  ASSUME RunnerInv, pc \in EngineSteps \union {"resolve", "process", "send"},
         NEW code \in {"raised"} \union ReturnableErrors, Ends(code),
         cookie' \in BOOLEAN, cookie' => code = "raised" /\ auth /\ dir, asked' \in BOOLEAN,
         delivered' = {} \/ (code = "TELEGRAM_UPLOAD_FAILED" /\ delivered' \subseteq Names),
         UNCHANGED <<dir, files, fresh, downloadVars, boundVars>>
  PROVE  RunnerInv'
<1> USE DEF RunnerInv, Ends, downloadVars, boundVars
<1>1. TypeOK'
  BY DEF TypeOK, ReturnableErrors
<1>2. ProgressFits' /\ AskedFits' /\ FreshFits' /\ OutcomeFits' /\ MediaIsFresh'
  BY DEF ProgressFits, AskedFits, FreshFits, OutcomeFits, MediaIsFresh, EngineSteps
<1>3. DiskIsTidy'
  BY DEF DiskIsTidy
<1>4. OutcomeMatchesChat'
  BY DEF OutcomeMatchesChat, ReturnableErrors, ErrorCodes
<1> QED
  BY <1>1, <1>2, <1>3, <1>4

\* An error of the chain or the processor, with its turn to the session.
LEMMA FailKeeps ==
  ASSUME RunnerInv, NEW code \in ErrorCodes, Fails(code), cookie' = FALSE,
         \/ pc \in {"spawn", "engine", "stat"}
         \/ pc = "process" /\ code = "MEDIA_TOO_LARGE",
         asked' \in BOOLEAN, code = "LOGIN_REQUIRED" /\ ~auth => asked',
         UNCHANGED <<dir, files, fresh, downloadVars, delivered, boundVars>>
  PROVE  RunnerInv'
<1>1. pc \in EngineSteps \union {"resolve", "process", "send"} /\ delivered' = {}
  BY DEF RunnerInv, ProgressFits, EngineSteps
<1>2. CASE code = "LOGIN_REQUIRED" /\ ~auth
  <2> USE <1>1, <1>2 DEF RunnerInv, downloadVars, boundVars
  <2>1. /\ auth' = TRUE /\ pc' = "resolve" /\ UNCHANGED <<engine, outcome>>
        /\ pc \in {"spawn", "engine", "stat"}
    BY DEF Fails, Ends
  <2>2. TypeOK'
    BY <2>1 DEF TypeOK
  <2>3. ProgressFits' /\ FreshFits' /\ OutcomeFits' /\ MediaIsFresh' /\ OutcomeMatchesChat'
    BY <2>1 DEF ProgressFits, FreshFits, OutcomeFits, MediaIsFresh, OutcomeMatchesChat,
                EngineSteps
  <2>4. AskedFits'
    BY <2>1 DEF AskedFits, EngineSteps
  <2>5. DiskIsTidy'
    BY <2>1 DEF DiskIsTidy
  <2> QED
    BY <2>2, <2>3, <2>4, <2>5
<1>3. CASE code = "LOGIN_REQUIRED" /\ auth
  <2>1. Ends("SESSION_EXPIRED")
    BY <1>3 DEF Fails
  <2>2. "SESSION_EXPIRED" \in ReturnableErrors
    BY DEF ReturnableErrors, ErrorCodes
  <2> QED
    BY <1>1, <2>1, <2>2, EndKeeps
<1>4. CASE code # "LOGIN_REQUIRED"
  BY <1>1, <1>4, EndKeeps DEF Fails, ReturnableErrors
<1> QED
  BY <1>2, <1>3, <1>4

\* An error of one engine, with the turn to the next one.
LEMMA EngineFailKeeps ==
  ASSUME RunnerInv, NEW code \in ErrorCodes, EngineFails(code), cookie' = FALSE,
         pc \in {"spawn", "engine", "stat"},
         asked' \in BOOLEAN, code = "LOGIN_REQUIRED" /\ ~auth => asked', auth => asked' = asked,
         UNCHANGED <<dir, files, fresh, downloadVars, delivered, boundVars>>
  PROVE  RunnerInv'
<1>1. CASE FallbackAllowed(code) /\ engine < NumEngines
  <2> USE <1>1 DEF RunnerInv, downloadVars, boundVars
  <2>1. engine' = engine + 1 /\ pc' = "mkdir" /\ UNCHANGED <<auth, outcome>>
    BY DEF EngineFails
  <2>2. TypeOK'
    <3>1. engine' \in 1..NumEngines
      BY <2>1, RunnerAssumption DEF TypeOK
    <3> QED
      BY <2>1, <3>1 DEF TypeOK, EngineSteps
  <2>3. ProgressFits' /\ FreshFits' /\ OutcomeFits' /\ MediaIsFresh' /\ OutcomeMatchesChat'
    BY <2>1 DEF ProgressFits, FreshFits, OutcomeFits, MediaIsFresh, OutcomeMatchesChat,
                EngineSteps
  <2>4. AskedFits'
    BY <2>1 DEF AskedFits, EngineSteps
  <2>5. DiskIsTidy'
    BY <2>1 DEF DiskIsTidy
  <2> QED
    BY <2>2, <2>3, <2>4, <2>5
<1>2. CASE ~(FallbackAllowed(code) /\ engine < NumEngines)
  BY <1>2, FailKeeps DEF EngineFails
<1> QED
  BY <1>1, <1>2

\* An exception, in either phase.
LEMMA RaiseKeeps ==
  ASSUME RunnerInv, pc \in EngineSteps \union {"resolve", "process"}, Raises,
         cookie' \in BOOLEAN, cookie' => auth /\ dir,
         UNCHANGED <<dir, files, fresh, downloadVars, delivered, asked, boundVars>>
  PROVE  RunnerInv'
<1>1. delivered' = {}
  BY DEF RunnerInv, ProgressFits
<1>2. "INTERNAL_ERROR" \in ReturnableErrors
  BY DEF ReturnableErrors, ErrorCodes
<1>3. asked' \in BOOLEAN
  BY DEF RunnerInv, TypeOK
<1> QED
  BY <1>1, <1>2, <1>3, EndKeeps DEF Raises

\* Except for its engine there is no cookie file in a live run.
LEMMA NoCookie ==
  ASSUME RunnerInv, pc \notin {"before", "spawn", "engine", "finally", "dead"}
  PROVE  cookie = FALSE
  BY DEF RunnerInv, DiskIsTidy, TypeOK

\* Whether the platform asked for a login is known.
LEMMA AskedIsBoolean ==
  ASSUME RunnerInv
  PROVE  asked \in BOOLEAN
  BY DEF RunnerInv, TypeOK

\* The directory is empty and no engine has been asked.
LEMMA InitRunnerInv == Init => RunnerInv
<1> SUFFICES ASSUME Init PROVE RunnerInv
  OBVIOUS
<1> USE RunnerAssumption DEF Init
<1>1. 1 \in 1..NumEngines /\ 0 \in 0..MaxRuns /\ 0 \in 0..MaxCleanups
  OBVIOUS
<1>2. TypeOK
  BY <1>1 DEF TypeOK
<1> QED
  BY <1>2 DEF RunnerInv, ProgressFits, AskedFits, FreshFits, OutcomeFits, DiskIsTidy,
              MediaIsFresh, OutcomeMatchesChat, EngineSteps
-----------------------------------------------------------------------------
(* The actions                                                             *)

\* A run begins in its first phase, with nothing found or delivered.
LEMMA BeginKeeps ==
  ASSUME RunnerInv, Begin
  PROVE  RunnerInv'
<1> USE RunnerAssumption DEF RunnerInv, Begin, diskVars
<1>1. TypeOK'
  <2>1. 1 \in 1..NumEngines /\ runs' \in 0..MaxRuns
    BY DEF TypeOK
  <2> QED
    BY <2>1 DEF TypeOK, EngineSteps
<1>2. ProgressFits' /\ FreshFits' /\ OutcomeFits' /\ MediaIsFresh' /\ OutcomeMatchesChat'
  BY DEF ProgressFits, FreshFits, OutcomeFits, MediaIsFresh, OutcomeMatchesChat, EngineSteps
<1>3. AskedFits'
  BY DEF AskedFits
<1>4. DiskIsTidy'
  BY DEF DiskIsTidy
<1> QED
  BY <1>1, <1>2, <1>3, <1>4

\* The directory is there before an engine is prepared.
LEMMA MakeDirectoryKeeps ==
  ASSUME RunnerInv, MakeDirectory
  PROVE  RunnerInv'
<1> USE DEF RunnerInv, MakeDirectory, downloadVars, boundVars
<1>1. TypeOK'
  BY DEF TypeOK, EngineSteps
<1>2. ProgressFits' /\ FreshFits' /\ OutcomeFits' /\ MediaIsFresh' /\ OutcomeMatchesChat'
  BY DEF ProgressFits, FreshFits, OutcomeFits, MediaIsFresh, OutcomeMatchesChat, EngineSteps
<1>3. AskedFits' /\ DiskIsTidy'
  BY DEF AskedFits, EngineSteps, DiskIsTidy
<1> QED
  BY <1>1, <1>2, <1>3

\* The cookies are written in the second phase only.
LEMMA WriteCookieKeeps ==
  ASSUME RunnerInv, WriteCookie
  PROVE  RunnerInv'
<1> USE DEF RunnerInv, WriteCookie, downloadVars, boundVars
<1>1. TypeOK'
  BY DEF TypeOK, EngineSteps
<1>2. ProgressFits' /\ FreshFits' /\ OutcomeFits' /\ MediaIsFresh' /\ OutcomeMatchesChat'
  BY DEF ProgressFits, FreshFits, OutcomeFits, MediaIsFresh, OutcomeMatchesChat, EngineSteps
<1>3. AskedFits' /\ DiskIsTidy'
  BY DEF AskedFits, EngineSteps, DiskIsTidy, TypeOK
<1> QED
  BY <1>1, <1>2, <1>3

\* What is listed is what is there, and the engine to come wrote none of it.
LEMMA ListBeforeKeeps ==
  ASSUME RunnerInv, ListBefore
  PROVE  RunnerInv'
<1> USE DEF RunnerInv, ListBefore, boundVars, Listing
<1>1. TypeOK'
  BY DEF TypeOK, EngineSteps
<1>2. ProgressFits' /\ FreshFits' /\ OutcomeFits' /\ MediaIsFresh' /\ OutcomeMatchesChat'
  BY DEF ProgressFits, FreshFits, OutcomeFits, MediaIsFresh, OutcomeMatchesChat, EngineSteps
<1>3. AskedFits' /\ DiskIsTidy'
  BY DEF AskedFits, EngineSteps, DiskIsTidy
<1> QED
  BY <1>1, <1>2, <1>3

\* An engine that starts changes only where the run is.
LEMMA EngineStartsKeeps ==
  ASSUME RunnerInv, EngineStarts
  PROVE  RunnerInv'
<1> USE DEF RunnerInv, EngineStarts, diskVars, downloadVars, boundVars
<1>1. TypeOK'
  BY DEF TypeOK, EngineSteps
<1>2. ProgressFits' /\ FreshFits' /\ OutcomeFits' /\ MediaIsFresh' /\ OutcomeMatchesChat'
  BY DEF ProgressFits, FreshFits, OutcomeFits, MediaIsFresh, OutcomeMatchesChat, EngineSteps
<1>3. AskedFits' /\ DiskIsTidy'
  BY DEF AskedFits, EngineSteps, DiskIsTidy
<1> QED
  BY <1>1, <1>2, <1>3

\* What an engine writes is fresh.
LEMMA EngineWritesKeeps ==
  ASSUME RunnerInv, EngineWrites
  PROVE  RunnerInv'
<1> USE DEF RunnerInv, EngineWrites, downloadVars, boundVars
<1>1. PICK out \in SUBSET Names \ {{}} :
        files' = files \union out /\ fresh' = fresh \union out
  OBVIOUS
<1>2. TypeOK'
  BY <1>1 DEF TypeOK
<1>3. FreshFits'
  BY <1>1 DEF FreshFits
<1>4. ProgressFits' /\ OutcomeFits' /\ MediaIsFresh' /\ OutcomeMatchesChat' /\ AskedFits'
  BY DEF ProgressFits, OutcomeFits, MediaIsFresh, OutcomeMatchesChat, AskedFits, EngineSteps
<1>5. DiskIsTidy'
  BY <1>1 DEF DiskIsTidy
<1> QED
  BY <1>2, <1>3, <1>4, <1>5

\* The cookie goes before anything else is done with the engine's exit.
LEMMA EngineExitsKeeps ==
  ASSUME RunnerInv, EngineExits
  PROVE  RunnerInv'
<1> USE DEF RunnerInv, EngineExits, downloadVars, boundVars, CookieAfterEngine
<1>1. TypeOK'
  BY DEF TypeOK, EngineSteps
<1>2. ProgressFits' /\ FreshFits' /\ OutcomeFits' /\ MediaIsFresh' /\ OutcomeMatchesChat'
  BY DEF ProgressFits, FreshFits, OutcomeFits, MediaIsFresh, OutcomeMatchesChat, EngineSteps
<1>3. AskedFits' /\ DiskIsTidy'
  BY DEF AskedFits, EngineSteps, DiskIsTidy
<1> QED
  BY <1>1, <1>2, <1>3

\* What is found was written by this engine: all else was listed before.
LEMMA ListFilesKeeps ==
  ASSUME RunnerInv, ListFiles
  PROVE  RunnerInv'
<1> USE DEF RunnerInv, ListFiles, diskVars, boundVars
<1>1. TypeOK'
  BY DEF TypeOK, EngineSteps
<1>2. ProgressFits' /\ FreshFits' /\ OutcomeFits' /\ MediaIsFresh' /\ OutcomeMatchesChat'
  BY DEF ProgressFits, FreshFits, OutcomeFits, MediaIsFresh, OutcomeMatchesChat, EngineSteps
<1>3. AskedFits' /\ DiskIsTidy'
  BY DEF AskedFits, EngineSteps, DiskIsTidy
<1> QED
  BY <1>1, <1>2, <1>3

\* Media is what was found and is still there.
LEMMA CollectMediaKeeps ==
  ASSUME RunnerInv, CollectMedia
  PROVE  RunnerInv'
<1> USE DEF RunnerInv, CollectMedia, diskVars, boundVars
<1>1. TypeOK'
  BY DEF TypeOK
<1>2. MediaIsFresh'
  BY DEF MediaIsFresh, FreshFits
<1>3. ProgressFits' /\ FreshFits' /\ OutcomeFits' /\ OutcomeMatchesChat'
  BY DEF ProgressFits, FreshFits, OutcomeFits, OutcomeMatchesChat, EngineSteps
<1>4. AskedFits' /\ DiskIsTidy'
  BY DEF AskedFits, EngineSteps, DiskIsTidy
<1> QED
  BY <1>1, <1>2, <1>3, <1>4

\* A session is resolved only after the public phase asked for a login.
LEMMA ResolveSessionKeeps ==
  ASSUME RunnerInv, ResolveSession
  PROVE  RunnerInv'
<1> USE DEF RunnerInv, diskVars
<1>1. pc = "resolve" /\ cookie' = FALSE /\ delivered' = {}
  BY NoCookie DEF ResolveSession, ProgressFits
<1>2. CASE pc' = "mkdir" /\ engine' = 1 /\ UNCHANGED <<auth, outcome>>
  <2> USE <1>1, <1>2 DEF ResolveSession, downloadVars, boundVars
  <2>1. TypeOK'
    BY RunnerAssumption DEF TypeOK, EngineSteps
  <2>2. ProgressFits' /\ FreshFits' /\ OutcomeFits' /\ MediaIsFresh' /\ OutcomeMatchesChat'
    BY DEF ProgressFits, FreshFits, OutcomeFits, MediaIsFresh, OutcomeMatchesChat, EngineSteps
  <2>3. AskedFits'
    BY DEF AskedFits, EngineSteps
  <2>4. DiskIsTidy'
    BY DEF DiskIsTidy
  <2> QED
    BY <2>1, <2>2, <2>3, <2>4
<1>3. ASSUME NEW code \in {"SESSION_MISSING", "SESSION_EXPIRED"}, Ends(code) PROVE RunnerInv'
  <2>1. code \in ReturnableErrors
    BY DEF ReturnableErrors, ErrorCodes
  <2> QED
    BY <1>1, <1>3, <2>1, AskedIsBoolean, EndKeeps DEF ResolveSession
<1> QED
  BY <1>2, <1>3 DEF ResolveSession

\* Processing keeps the media or ends the run with nothing sent.
LEMMA ProcessMediaKeeps ==
  ASSUME RunnerInv, ProcessMedia
  PROVE  RunnerInv'
<1> USE DEF RunnerInv, diskVars
<1>1. pc = "process" /\ cookie' = FALSE
  BY NoCookie DEF ProcessMedia
<1>2. CASE pc' = "send" /\ UNCHANGED <<auth, engine, outcome>>
  <2> USE <1>1, <1>2 DEF ProcessMedia, downloadVars, boundVars
  <2>1. TypeOK'
    BY DEF TypeOK
  <2>2. ProgressFits' /\ FreshFits' /\ OutcomeFits' /\ MediaIsFresh' /\ OutcomeMatchesChat'
    BY DEF ProgressFits, FreshFits, OutcomeFits, MediaIsFresh, OutcomeMatchesChat, EngineSteps
  <2>3. AskedFits' /\ DiskIsTidy'
    BY DEF AskedFits, EngineSteps, DiskIsTidy
  <2> QED
    BY <2>1, <2>2, <2>3
<1>3. CASE Fails("MEDIA_TOO_LARGE")
  <2>1. "MEDIA_TOO_LARGE" \in ErrorCodes
    BY DEF ErrorCodes
  <2> QED
    BY <1>1, <1>3, <2>1, AskedIsBoolean, FailKeeps DEF ProcessMedia
<1> QED
  BY <1>2, <1>3 DEF ProcessMedia

\* A file that is sent is media of this run; the last one completes it.
LEMMA SendFileKeeps ==
  ASSUME RunnerInv, SendFile
  PROVE  RunnerInv'
<1> USE DEF RunnerInv, SendFile, Ends, diskVars, downloadVars, boundVars
<1>1. PICK f \in (media \ delivered) \cap files : delivered' = delivered \union {f}
  OBVIOUS
<1>2. delivered' \subseteq media /\ delivered' # {} /\ media # {}
  BY <1>1 DEF ProgressFits
<1>3. \/ pc' = "send" /\ UNCHANGED <<auth, engine, outcome>>
      \/ /\ pc' = "finally" /\ outcome' = "ok" /\ delivered' = media
         /\ UNCHANGED <<auth, engine>>
  OBVIOUS
<1> HIDE DEF SendFile
<1>4. pc = "send" /\ UNCHANGED <<dir, files, cookie, fresh, before, found, media, asked,
                               runs, cleanups>>
  BY DEF SendFile
<1>5. TypeOK'
  BY <1>2, <1>3, <1>4 DEF TypeOK
<1>6. ProgressFits' /\ FreshFits' /\ OutcomeFits' /\ MediaIsFresh'
  BY <1>2, <1>3, <1>4 DEF ProgressFits, FreshFits, OutcomeFits, MediaIsFresh, EngineSteps
<1>7. OutcomeMatchesChat'
  BY <1>2, <1>3, <1>4 DEF OutcomeMatchesChat
<1>8. AskedFits' /\ DiskIsTidy'
  BY <1>3, <1>4 DEF AskedFits, EngineSteps, DiskIsTidy
<1> QED
  BY <1>5, <1>6, <1>7, <1>8

\* A refused upload ends the run with the upload error.
LEMMA SendFailsKeeps ==
  ASSUME RunnerInv, SendFails
  PROVE  RunnerInv'
<1>1. pc = "send" /\ cookie' = FALSE
  BY NoCookie DEF SendFails, diskVars
<1>2. delivered' \subseteq Names
  BY DEF SendFails, RunnerInv, TypeOK
<1>3. "TELEGRAM_UPLOAD_FAILED" \in ReturnableErrors
  BY DEF ReturnableErrors, ErrorCodes
<1> QED
  BY <1>1, <1>2, <1>3, AskedIsBoolean, EndKeeps DEF SendFails, diskVars

\* Every end passes here: the directory goes, the outcome stays.
LEMMA CleanUpKeeps ==
  ASSUME RunnerInv, CleanUp
  PROVE  RunnerInv'
<1> USE DEF RunnerInv, CleanUp, downloadVars, boundVars
<1>1. TypeOK'
  BY DEF TypeOK
<1>2. ProgressFits' /\ FreshFits' /\ OutcomeFits' /\ MediaIsFresh' /\ OutcomeMatchesChat'
  BY DEF ProgressFits, FreshFits, OutcomeFits, MediaIsFresh, OutcomeMatchesChat, EngineSteps
<1>3. AskedFits' /\ DiskIsTidy'
  BY DEF AskedFits, EngineSteps, DiskIsTidy
<1> QED
  BY <1>1, <1>2, <1>3

\* cleanup-once only takes files away, a cookie only from a dead run.
LEMMA CleanupOnceKeeps ==
  ASSUME RunnerInv, CleanupOnce
  PROVE  RunnerInv'
<1> USE DEF RunnerInv, CleanupOnce, downloadVars
<1>1. /\ files' \subseteq files /\ cookie' \in BOOLEAN /\ (cookie' => cookie)
      /\ dir' = (dir /\ (files' # {} \/ cookie'))
      /\ pc # "dead" => cookie' = cookie
  BY DEF TypeOK
<1>2. cleanups' \in 0..MaxCleanups
  BY RunnerAssumption DEF TypeOK
<1>3. TypeOK'
  BY <1>1, <1>2 DEF TypeOK
<1>4. DiskIsTidy'
  BY <1>1 DEF DiskIsTidy, TypeOK
<1>5. FreshFits' /\ MediaIsFresh'
  BY <1>1 DEF FreshFits, MediaIsFresh
<1>6. ProgressFits' /\ OutcomeFits' /\ OutcomeMatchesChat' /\ AskedFits'
  BY DEF ProgressFits, OutcomeFits, OutcomeMatchesChat, AskedFits, EngineSteps
<1> QED
  BY <1>3, <1>4, <1>5, <1>6

\* A death leaves the disk as it is.
LEMMA CrashKeeps ==
  ASSUME RunnerInv, Crash
  PROVE  RunnerInv'
<1> USE DEF RunnerInv, Crash, diskVars, downloadVars, boundVars
<1>1. TypeOK'
  BY DEF TypeOK
<1>2. ProgressFits' /\ FreshFits' /\ OutcomeFits' /\ MediaIsFresh' /\ OutcomeMatchesChat'
  BY DEF ProgressFits, FreshFits, OutcomeFits, MediaIsFresh, OutcomeMatchesChat, EngineSteps
<1>3. AskedFits' /\ DiskIsTidy'
  BY DEF AskedFits, EngineSteps, DiskIsTidy
<1> QED
  BY <1>1, <1>2, <1>3

\* Nothing changes.
LEMMA StutterKeeps ==
  ASSUME RunnerInv, UNCHANGED vars
  PROVE  RunnerInv'
<1> USE DEF RunnerInv, vars, diskVars, downloadVars, boundVars
<1>1. TypeOK'
  BY DEF TypeOK
<1>2. ProgressFits' /\ FreshFits' /\ OutcomeFits' /\ MediaIsFresh' /\ OutcomeMatchesChat'
  BY DEF ProgressFits, FreshFits, OutcomeFits, MediaIsFresh, OutcomeMatchesChat, EngineSteps
<1>3. AskedFits' /\ DiskIsTidy'
  BY DEF AskedFits, EngineSteps, DiskIsTidy
<1> QED
  BY <1>1, <1>2, <1>3

\* The steps by which a statement of a run goes wrong.
LEMMA ErrorStepsKeep ==
  ASSUME RunnerInv,
         \/ CookieWriteFails \/ DirectoryFails \/ EngineCannotStart \/ EngineExitsWithError
         \/ EngineRaises("spawn") \/ EngineRaises("engine")
         \/ NothingDownloaded \/ StatRaises \/ DecryptFails \/ ProcessRaises
  PROVE  RunnerInv'
<1> USE DEF diskVars
<1>1. "DOWNLOAD_FAILED" \in ErrorCodes
  BY DEF ErrorCodes
<1>2. CASE CookieWriteFails
  <2>1. dir \in BOOLEAN
    BY DEF RunnerInv, TypeOK
  <2>2. /\ pc \in EngineSteps \union {"resolve", "process"} /\ Raises
        /\ UNCHANGED <<dir, files, fresh, downloadVars, delivered, asked, boundVars>>
    BY <1>2 DEF CookieWriteFails, EngineSteps
  <2>3. auth /\ cookie' \in {FALSE, dir}
    BY <1>2 DEF CookieWriteFails
  <2>4. cookie' \in BOOLEAN
    BY <2>1, <2>3
  <2>5. cookie' => auth /\ dir
    BY <2>3
  <2> QED
    BY <2>2, <2>4, <2>5, RaiseKeeps
<1>10. CASE DirectoryFails
  <2>1. cookie' \in BOOLEAN /\ (cookie' => auth /\ dir)
    BY <1>10 DEF DirectoryFails, RunnerInv, TypeOK, DiskIsTidy
  <2> QED
    BY <1>10, <2>1, RaiseKeeps DEF DirectoryFails, EngineSteps
<1>3. CASE EngineCannotStart
  BY <1>1, <1>3, AskedIsBoolean, EngineFailKeeps DEF EngineCannotStart, CookieAfterEngine
<1>4. CASE EngineExitsWithError
  <2>1. PICK code \in EngineErrors :
          EngineFails(code) /\ asked' = IF auth THEN asked ELSE code = "LOGIN_REQUIRED"
    BY <1>4 DEF EngineExitsWithError
  <2>2. asked' \in BOOLEAN
    BY <2>1 DEF RunnerInv, TypeOK
  <2> QED
    BY <1>4, <2>1, <2>2, EngineErrorsAreErrors, EngineFailKeeps
    DEF EngineExitsWithError, CookieAfterEngine
<1>5. CASE EngineRaises("spawn") \/ EngineRaises("engine")
  BY <1>5, RaiseKeeps DEF EngineRaises, CookieAfterEngine, EngineSteps
<1>6. CASE NothingDownloaded
  BY <1>1, <1>6, NoCookie, AskedIsBoolean, EngineFailKeeps DEF NothingDownloaded
<1>7. CASE StatRaises
  BY <1>7, NoCookie, RaiseKeeps DEF StatRaises, EngineSteps
<1>8. CASE DecryptFails
  BY <1>8, NoCookie, RaiseKeeps DEF DecryptFails
<1>9. CASE ProcessRaises
  BY <1>9, NoCookie, RaiseKeeps DEF ProcessRaises
<1> QED
  BY <1>2, <1>3, <1>4, <1>5, <1>6, <1>7, <1>8, <1>9, <1>10

\* Every step keeps the invariant: one lemma for each action.
LEMMA NextKeepsRunnerInv == RunnerInv /\ [Next]_vars => RunnerInv'
<1> SUFFICES ASSUME RunnerInv, [Next]_vars PROVE RunnerInv'
  OBVIOUS
<1>1. CASE Begin \/ CleanupOnce \/ Crash \/ UNCHANGED vars
  BY <1>1, BeginKeeps, CleanupOnceKeeps, CrashKeeps, StutterKeeps
<1>2. CASE Statement \/ EngineAct
  BY <1>2, MakeDirectoryKeeps, WriteCookieKeeps, ListBeforeKeeps, EngineStartsKeeps, EngineWritesKeeps,
     EngineExitsKeeps, ListFilesKeeps, CollectMediaKeeps, ResolveSessionKeeps,
     ProcessMediaKeeps, SendFileKeeps, SendFailsKeeps, CleanUpKeeps, ErrorStepsKeep
  DEF Statement, EngineAct
<1> QED
  BY <1>1, <1>2 DEF Next
-----------------------------------------------------------------------------
(* The run implements RunContract                                          *)

\* The state of RunContract that corresponds to the state of a run.
Stage == IF pc \in {"idle", "dead"} THEN pc ELSE IF delivered = {} THEN "run" ELSE "sent"
Returned == IF pc = "idle" THEN outcome ELSE "none"

\* A step that neither begins nor ends a run and delivers nothing.
LEMMA StepInside ==
  ASSUME pc \notin {"idle", "dead"}, pc' \notin {"idle", "dead"}, UNCHANGED delivered
  PROVE  UNCHANGED <<Stage, Returned>>
  BY DEF Stage, Returned

\* The error paths stay inside the run, with its cleanup still to come.
LEMMA FailStaysInside ==
  ASSUME NEW code, EngineFails(code) \/ Fails(code) \/ Raises \/ Ends(code)
  PROVE  pc' \in {"mkdir", "resolve", "finally"}
  BY DEF EngineFails, Fails, Raises, Ends

\* All statements but the upload and the cleanup.
LEMMA StatementStutters ==
  ASSUME Statement \/ EngineAct, ~SendFile, ~SendFails, ~CleanUp
  PROVE  UNCHANGED <<Stage, Returned>>
<1> USE DEF downloadVars, boundVars, diskVars
<1>1. CASE \/ MakeDirectory \/ WriteCookie \/ ListBefore \/ EngineStarts \/ EngineWrites \/ EngineExits
           \/ ListFiles \/ CollectMedia
  <2>1. pc \notin {"idle", "dead"} /\ pc' \notin {"idle", "dead"} /\ UNCHANGED delivered
    BY <1>1 DEF MakeDirectory, WriteCookie, ListBefore, EngineStarts, EngineWrites, EngineExits, ListFiles,
                CollectMedia
  <2> QED
    BY <2>1, StepInside
<1>2. CASE \/ CookieWriteFails \/ DirectoryFails \/ EngineCannotStart \/ EngineExitsWithError
           \/ EngineRaises("spawn") \/ EngineRaises("engine")
           \/ NothingDownloaded \/ StatRaises \/ DecryptFails \/ ProcessRaises
  <2>1. /\ pc \notin {"idle", "dead"} /\ UNCHANGED delivered
        /\ \E code : EngineFails(code) \/ Fails(code) \/ Raises
    BY <1>2 DEF CookieWriteFails, DirectoryFails, EngineCannotStart, EngineExitsWithError, EngineRaises,
                NothingDownloaded, StatRaises, DecryptFails, ProcessRaises
  <2> QED
    BY <2>1, FailStaysInside, StepInside
<1>3. CASE ResolveSession \/ ProcessMedia
  <2>1. /\ pc \notin {"idle", "dead"} /\ UNCHANGED delivered
        /\ pc' \in {"mkdir", "send"} \/ \E code : Fails(code) \/ Ends(code)
    BY <1>3 DEF ResolveSession, ProcessMedia
  <2> QED
    BY <2>1, FailStaysInside, StepInside
<1> QED
  BY <1>1, <1>2, <1>3 DEF Statement, EngineAct

\* An upload delivers the first file of a run, or changes nothing.
LEMMA UploadDelivers ==
  ASSUME RunnerInv, SendFile \/ SendFails
  PROVE  \/ Stage = "run" /\ Stage' = "sent" /\ UNCHANGED Returned
         \/ UNCHANGED <<Stage, Returned>>
<1>1. /\ pc = "send" /\ pc' \in {"send", "finally"}
      /\ delivered # {} => delivered' # {}
  BY DEF SendFile, SendFails, Ends
<1> QED
  BY <1>1 DEF Stage, Returned

\* The cleanup is where a run returns or raises.
LEMMA CleanUpReturns ==
  ASSUME RunnerInv, CleanUp
  PROVE  /\ Stage' = "idle"
         /\ \/ Stage = "run" /\ Returned' \in {"raised"} \union ReturnableErrors
            \/ Stage = "sent" /\ Returned' \in {"ok", "TELEGRAM_UPLOAD_FAILED"}
<1>1. /\ pc = "finally" /\ pc' = "idle" /\ outcome' = outcome
      /\ outcome \in {"ok", "raised"} \union ReturnableErrors
      /\ outcome = "ok" => delivered # {}
      /\ delivered # {} => outcome \in {"none", "ok", "TELEGRAM_UPLOAD_FAILED"}
  BY DEF CleanUp, RunnerInv, OutcomeFits, OutcomeMatchesChat
<1>2. "none" \notin {"ok", "raised"} \union ReturnableErrors
  BY DEF ReturnableErrors, ErrorCodes
<1>3. Stage' = "idle" /\ Returned' = outcome
  BY <1>1 DEF Stage, Returned
<1>4. CASE delivered = {}
  BY <1>1, <1>3, <1>4 DEF Stage
<1>5. CASE delivered # {}
  BY <1>1, <1>2, <1>3, <1>5 DEF Stage
<1> QED
  BY <1>4, <1>5

\* Every step of a run is one of the contract's, or changes nothing there.
LEMMA ContractStep ==
  ASSUME RunnerInv, [Next]_vars
  PROVE  [Contract!Next]_Contract!vars
<1> USE DEF Contract!Next, Contract!vars
<1>1. CASE Begin
  <2>1. Stage = "idle" /\ Stage' = "run" /\ Returned' = "none"
    BY <1>1 DEF Begin, Stage, Returned
  <2> QED
    BY <2>1 DEF Contract!Start, Stage, Returned
<1>2. CASE (Statement \/ EngineAct) /\ ~SendFile /\ ~SendFails /\ ~CleanUp
  BY <1>2, StatementStutters DEF Stage, Returned
<1>3. CASE SendFile \/ SendFails
  BY <1>3, UploadDelivers DEF Contract!Deliver, Stage, Returned
<1>4. CASE CleanUp
  BY <1>4, CleanUpReturns DEF Contract!Complete, Contract!Fail, Contract!Raise, Stage, Returned
<1>5. CASE CleanupOnce
  <2>1. UNCHANGED <<pc, delivered, outcome>>
    BY <1>5 DEF CleanupOnce
  <2> QED
    BY <2>1
<1>6. CASE Crash
  <2>1. Stage # "dead" /\ Stage' = "dead" /\ Returned' = "none"
    BY <1>6 DEF Crash, Stage, Returned
  <2> QED
    BY <2>1 DEF Contract!Crash, Stage, Returned
<1>7. CASE UNCHANGED vars
  BY <1>7 DEF vars
<1> QED
  BY <1>1, <1>2, <1>3, <1>4, <1>5, <1>6, <1>7 DEF Next
-----------------------------------------------------------------------------
(* Theorems                                                                *)

\* The inductive invariant holds in every behaviour of a run.
THEOREM RunnerInductive == Spec => []RunnerInv
  BY InitRunnerInv, NextKeepsRunnerInv, PTL DEF Spec

\* Type correctness; with it, the chain never goes past its last engine.
THEOREM RunnerTypeCorrect == Spec => []TypeOK
<1>1. RunnerInv => TypeOK
  BY DEF RunnerInv
<1> QED
  BY <1>1, RunnerInductive, PTL

\* The decrypted cookies are on disk only for the engine they were written for,
\* or until the finally clause of a run that raised, and a run that is over
\* leaves nothing, whatever fails and whatever cleanup-once does (the finally
\* clauses of EngineWrapper.download and run).
THEOREM DiskStaysTidy == Spec => []DiskIsTidy
<1>1. RunnerInv => DiskIsTidy
  BY DEF RunnerInv
<1> QED
  BY <1>1, RunnerInductive, PTL

\* What is sent was written by the engine that succeeded.
THEOREM MediaStaysFresh == Spec => []MediaIsFresh
<1>1. RunnerInv => MediaIsFresh
  BY DEF RunnerInv
<1> QED
  BY <1>1, RunnerInductive, PTL

\* A completed run delivered all of its result; one that delivered something and
\* is not completed says TELEGRAM_UPLOAD_FAILED.
THEOREM OutcomesMatchChats == Spec => []OutcomeMatchesChat
<1>1. RunnerInv => OutcomeMatchesChat
  BY DEF RunnerInv
<1> QED
  BY <1>1, RunnerInductive, PTL

\* A run turns to the user's session only when the platform asked for a login,
\* and before it has obtained anything.
THEOREM SessionIsLastResort == Spec => []SessionOnlyWhenNeeded
<1>1. RunnerInv => SessionOnlyWhenNeeded
  BY DEF RunnerInv, SessionOnlyWhenNeeded, ProgressFits, AskedFits, EngineSteps
<1> QED
  BY <1>1, RunnerInductive, PTL

\* The run of a job is what WorkerService takes it for.
THEOREM ContractIsImplemented == Spec => ImplementsContract
<1>1. Init => Contract!Init
  BY DEF Init, Contract!Init
<1>2. RunnerInv /\ [Next]_vars => [Contract!Next]_Contract!vars
  BY ContractStep
<1> QED
  BY <1>1, <1>2, RunnerInductive, PTL DEF Spec, ImplementsContract, Contract!Spec
=============================================================================
