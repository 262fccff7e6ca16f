--------------------------- MODULE MediaProcessing ---------------------------
(***************************************************************************)
(* What happens to downloaded files: the quota check over everything the   *)
(* user has on disk, compression and thumbnails (processor.py), the upload *)
(* (telegram_sender.py) and the removal of the job directory (storage.py), *)
(* for jobs that run in parallel in several workers and share the storage  *)
(* with cleanup-once.  JobRunner has the statements around these; here a   *)
(* job begins when its engine has exited.                                  *)
(*                                                                         *)
(* A path is <<stem, extension>>; the directories an engine makes below    *)
(* the job directory are left out.  A file is its content, its size and    *)
(* whether its modification time is older than the TTL.                    *)
(***************************************************************************)
EXTENDS Naturals, FiniteSets, Sequences

CONSTANTS
  Jobs,
  Users,
  Posts,        (* what the engines of a run may leave: functions from     *)
                (* paths to [size, old, failed]; old since engines date    *)
                (* files as published, failed if the engine that wrote it  *)
                (* failed and another one was tried                        *)
  MaxFile,      (* max_file_size_bytes                                     *)
  Thumbnails,   (* sizes a thumbnail may have, which no setting limits     *)
  MaxTemp,      (* max_temp_storage_bytes                                  *)
  MaxCleanups,  (* bound: runs of cleanup-once                             *)
  MaxCrashes    (* bound: deaths of workers                                *)

ASSUME MediaAssumption ==
  /\ \A post \in Posts :
       /\ IsFiniteSet(DOMAIN post)
       /\ \A p \in DOMAIN post : post[p].size \in Nat /\ post[p].old \in BOOLEAN
       /\ \E p \in DOMAIN post : ~post[p].failed
  /\ MaxFile \in Nat \ {0} /\ Thumbnails \subseteq Nat
  /\ MaxTemp \in Nat
  /\ MaxCleanups \in Nat /\ MaxCrashes \in Nat

VARIABLES
  job,       (* job[j]: the run of j, see Start                            *)
  disk,      (* disk[j]: the job directory, a function from paths to files *)
  cleaner,   (* the cleanup-once process                                   *)
  cleanups,
  crashes

vars == <<job, disk, cleaner, cleanups, crashes>>

NoFiles == << >>
Resting == [step |-> "off", unseen |-> {}, dir |-> << >>, listed |-> {}, due |-> {}]

\* unseen, dir, listed, bytes: the progress of user_temp_storage_bytes
\* todo, result: media before and after processing;  sent: how many are sent
\* post, chat: history, what the engines left and what Telegram accepted
Start(u) ==
  [user |-> u, step |-> "download", outcome |-> "none",
   unseen |-> {}, dir |-> << >>, listed |-> {}, bytes |-> 0,
   todo |-> {}, result |-> << >>, sent |-> 0, post |-> NoFiles, chat |-> << >>]

Init ==
  /\ \E user \in [Jobs -> Users] : job = [j \in Jobs |-> Start(user[j])]
  /\ disk = [j \in Jobs |-> NoFiles]
  /\ cleaner = Resting
  /\ cleanups = 0
  /\ crashes = 0

Put(files, path, file) ==
  [p \in DOMAIN files \union {path} |-> IF p = path THEN file ELSE files[p]]

Without(files, path) == [p \in DOMAIN files \ {path} |-> files[p]]

\* The bytes of the files at some paths.
Bytes(files, paths) == UNION {{p} \X (1..files[p].size) : p \in paths \cap DOMAIN files}

Sizes(files, paths) == Cardinality(Bytes(files, paths))

\* _to_media_file, _media_type_for_mime
MediaType(path) ==
  CASE path[2] \in {"mp4", "webm", "compressed.mp4"} -> "video"
    [] path[2] \in {"jpg", "compressed.jpg"} -> "photo"
    [] OTHER -> "document"

Ends(j, outcome) == job' = [job EXCEPT ![j].step = "finally", ![j].outcome = outcome]

-----------------------------------------------------------------------------
(* The quota                                                               *)

\* The files listed as the result: those of the engine that did not fail.
Media(post) == {p \in DOMAIN post : ~post[p].failed}

\* Mutant: the user's storage is measured before the engine is started.
DownloadUnmeasured(j, post) ==
  /\ job[j].step = "download"
  /\ disk' = [disk EXCEPT ![j] = [p \in DOMAIN post |->
       [content |-> <<"original", p>>, size |-> post[p].size, old |-> post[p].old]]]
  /\ job' = [job EXCEPT ![j].step = "process", ![j].post = post, ![j].todo = Media(post)]
  /\ UNCHANGED <<cleaner, cleanups, crashes>>

\* The job directories a walk of the storage finds at first (one that is made
\* later is like one that is read while still empty).
Directories == {k \in Jobs : job[k].step # "ended"}

\* The last engine has exited and its files are listed, beside which those of the
\* failed engines still lie; the quota is measured next.
Download(j, post) ==
  /\ job[j].step = "download"
  /\ disk' = [disk EXCEPT ![j] = [p \in DOMAIN post |->
       [content |-> <<"original", p>>, size |-> post[p].size, old |-> post[p].old]]]
  /\ job' = [job EXCEPT ![j].step = "measure", ![j].post = post,
                        ![j].todo = Media(post), ![j].unseen = Directories]
  /\ UNCHANGED <<cleaner, cleanups, crashes>>

\* Mutant: the whole storage is measured.
InStorage(j, k) == TRUE

\* user_storage_dir: job directories are kept per user.
InUserStorage(j, k) == job[k].user = job[j].user

\* rglob("*") reads the directory of one job, its own or another's ...
ListDirectory(j, k) ==
  /\ job[j].step = "measure" /\ job[j].dir = << >>
  /\ InUserStorage(j, k)
  /\ job' = [job EXCEPT ![j].unseen = @ \ {k}, ![j].dir = <<k>>,
                        ![j].listed = DOMAIN disk[k]]
  /\ UNCHANGED <<disk, cleaner, cleanups, crashes>>

\* ... and raises if the directory has been removed: the end of one job makes
\* another job of the user fail.
ListRaises(j, k) ==
  /\ job[j].step = "measure" /\ job[j].dir = << >>
  /\ InUserStorage(j, k) /\ job[k].step = "ended"
  /\ Ends(j, "INTERNAL_ERROR")
  /\ UNCHANGED <<disk, cleaner, cleanups, crashes>>

\* is_file and stat of what it listed: a file that is gone is skipped, ...
SumDirectory(j) ==
  /\ job[j].step = "measure" /\ job[j].dir # << >>
  /\ job' = [job EXCEPT ![j].bytes = @ + Sizes(disk[job[j].dir[1]], job[j].listed),
                        ![j].dir = << >>, ![j].listed = {}]
  /\ UNCHANGED <<disk, cleaner, cleanups, crashes>>

\* ... or, if it goes between the two, makes the job fail likewise.
SumRaises(j) ==
  /\ job[j].step = "measure" /\ job[j].dir # << >>
  /\ ~(job[j].listed \subseteq DOMAIN disk[job[j].dir[1]])
  /\ Ends(j, "INTERNAL_ERROR")
  /\ UNCHANGED <<disk, cleaner, cleanups, crashes>>

CheckQuota(j) ==
  /\ job[j].step = "measure" /\ job[j].dir = << >>
  /\ \A k \in job[j].unseen : ~InUserStorage(j, k)
  /\ \/ /\ job[j].bytes > MaxTemp
        /\ Ends(j, "QUOTA")
     \/ /\ job[j].bytes <= MaxTemp
        /\ job' = [job EXCEPT ![j].step = "process"]
  /\ UNCHANGED <<disk, cleaner, cleanups, crashes>>

-----------------------------------------------------------------------------
(* Compression and thumbnails                                              *)

\* Mutant: all compressed videos of a job have one name.
OneOutput(path) == <<"output", "compressed.mp4">>

\* _compress_video writes <stem>.compressed.mp4 into the job directory.
CompressedPath(path) == <<path[1], "compressed.mp4">>

\* _generate_thumbnail writes <stem>.jpg, the stem of a compressed video being
\* <stem>.compressed.
ThumbnailPath(path) ==
  <<path[1], IF path[2] = "compressed.mp4" THEN "compressed.jpg" ELSE "jpg">>

\* Mutant: a file stays to be processed.
ProcessedAgain(j, path, processed, files) ==
  /\ job' = [job EXCEPT
       ![j].result = Append(@, [for |-> path, path |-> processed]),
       ![j].step = IF job[j].todo = {path} THEN "send" ELSE "process"]
  /\ UNCHANGED <<disk, cleaner, cleanups, crashes>>

\* The result for one media file of the post: processed is the path to send.  A
\* thumbnail that cannot be made is left out.  Its size is never checked, it is
\* not part of the result, and -y writes it over a file of its name.
Processed(j, path, processed, files) ==
  /\ job' = [job EXCEPT
       ![j].todo = @ \ {path},
       ![j].result = Append(@, [for |-> path, path |-> processed]),
       ![j].step = IF job[j].todo = {path} THEN "send" ELSE "process"]
  /\ IF MediaType(processed) # "video" \/ processed \notin DOMAIN files
     THEN disk' = [disk EXCEPT ![j] = files]
     ELSE \E size \in Thumbnails :
            disk' = [disk EXCEPT ![j] =
              Put(files, ThumbnailPath(processed),
                  [content |-> <<"thumbnail", path>>, size |-> size, old |-> FALSE])]
  /\ UNCHANGED <<cleaner, cleanups, crashes>>

\* A file within the limit, thumbnail included.
ProcessFile(j, path) ==
  /\ job[j].step = "process" /\ path \in job[j].todo
  /\ job[j].post[path].size <= MaxFile
  /\ Processed(j, path, path, disk[j])

\* Mutant: the size of the compressed video is not checked again.
CompressUnchecked(j, path) ==
  /\ job[j].step = "process" /\ path \in job[j].todo
  /\ job[j].post[path].size > MaxFile /\ MediaType(path) = "video"
  /\ path \in DOMAIN disk[j]
  /\ \E size \in 1..job[j].post[path].size :
       Processed(j, path, CompressedPath(path),
                 Put(disk[j], CompressedPath(path),
                     [content |-> <<"compressed", path>>, size |-> size, old |-> FALSE]))

\* A video over the limit that ffmpeg makes small enough; -y writes over a file
\* of the output's name.
Compress(j, path) ==
  /\ job[j].step = "process" /\ path \in job[j].todo
  /\ job[j].post[path].size > MaxFile /\ MediaType(path) = "video"
  /\ path \in DOMAIN disk[j]
  /\ \E size \in 1..MaxFile :
       Processed(j, path, CompressedPath(path),
                 Put(disk[j], CompressedPath(path),
                     [content |-> <<"compressed", path>>, size |-> size, old |-> FALSE]))

\* A photo or document over the limit, a video that stays over it, and one that
\* ffmpeg cannot read, which includes a file that cleanup-once has removed.  (What
\* a failed ffmpeg has written so far goes with the job directory.)
TooLarge(j, path) ==
  /\ job[j].step = "process" /\ path \in job[j].todo
  /\ job[j].post[path].size > MaxFile
  /\ Ends(j, "MEDIA_TOO_LARGE")
  /\ UNCHANGED <<disk, cleaner, cleanups, crashes>>

\* ffmpeg is started in the job directory, which cleanup-once removes when it
\* is empty.
ProcessRaises(j) ==
  /\ job[j].step = "process" /\ disk[j] = NoFiles
  /\ \E path \in job[j].todo : MediaType(path) = "video"
  /\ Ends(j, "INTERNAL_ERROR")
  /\ UNCHANGED <<disk, cleaner, cleanups, crashes>>

-----------------------------------------------------------------------------
(* The upload and the end of the run; a run that is over is forgotten      *)

Current(j) == job[j].result[job[j].sent + 1]

\* Telegram accepts the next file, in the order of the result: what the path
\* holds now, by the method of its type.
SendFile(j) ==
  /\ job[j].step = "send" /\ Current(j).path \in DOMAIN disk[j]
  /\ LET file == disk[j][Current(j).path] IN
       job' = [job EXCEPT
         ![j].sent = @ + 1,
         ![j].chat = Append(@, [for |-> Current(j).for, content |-> file.content,
                                size |-> file.size, type |-> MediaType(Current(j).path)]),
         ![j].step = IF job[j].sent + 1 = Len(job[j].result) THEN "finally" ELSE "send",
         ![j].outcome = IF job[j].sent + 1 = Len(job[j].result) THEN "ok" ELSE "none"]
  /\ UNCHANGED <<disk, cleaner, cleanups, crashes>>

\* The file is gone, or Telegram does not take it.
SendFails(j) ==
  /\ job[j].step = "send"
  /\ Ends(j, "TELEGRAM_UPLOAD_FAILED")
  /\ UNCHANGED <<disk, cleaner, cleanups, crashes>>

\* cleanup_job_output
CleanUp(j) ==
  /\ job[j].step = "finally"
  /\ disk' = [disk EXCEPT ![j] = NoFiles]
  /\ job' = [job EXCEPT ![j] = [Start(@.user) EXCEPT !.step = "ended"]]
  /\ UNCHANGED <<cleaner, cleanups, crashes>>

\* A worker dies and leaves its job directory.
Crash(j) ==
  /\ job[j].step \notin {"download", "ended", "dead"}
  /\ crashes < MaxCrashes
  /\ crashes' = crashes + 1
  /\ job' = [job EXCEPT ![j] = [Start(@.user) EXCEPT !.step = "dead"]]
  /\ UNCHANGED <<disk, cleaner, cleanups>>

\* What a dead worker left passes temp_file_ttl_hours.
Expire(j) ==
  /\ job[j].step = "dead"
  /\ \E p \in DOMAIN disk[j] : ~disk[j][p].old
  /\ disk' = [disk EXCEPT ![j] = [p \in DOMAIN disk[j] |-> [disk[j][p] EXCEPT !.old = TRUE]]]
  /\ UNCHANGED <<job, cleaner, cleanups, crashes>>

-----------------------------------------------------------------------------
(* cleanup-once                                                            *)

Leftovers == UNION {{j} \X {p \in DOMAIN disk[j] : job[j].step = "dead" /\ disk[j][p].old} :
                      j \in Jobs}

CleanerStarts ==
  /\ cleaner.step # "run"
  /\ cleanups < MaxCleanups
  /\ cleanups' = cleanups + 1
  /\ cleaner' = [Resting EXCEPT !.step = "run", !.unseen = Directories, !.due = Leftovers]
  /\ UNCHANGED <<job, disk, crashes>>

CleanerLists(k) ==
  /\ cleaner.step = "run" /\ cleaner.listed = {}
  /\ cleaner' = [cleaner EXCEPT !.unseen = @ \ {k}, !.dir = <<k>>, !.listed = DOMAIN disk[k]]
  /\ UNCHANGED <<job, disk, cleanups, crashes>>

\* Mutant: the first file that is not expired ends the directory.
StopsAtFresh(k, p) ==
  IF p \in DOMAIN disk[k] /\ ~disk[k][p].old THEN {} ELSE cleaner.listed \ {p}

RemainingAfter(k, p) == cleaner.listed \ {p}

\* One listed file: gone, kept, or unlinked; nothing tells whose it is.
CleanerVisits(p) ==
  /\ cleaner.step = "run" /\ p \in cleaner.listed
  /\ LET k == cleaner.dir[1] IN
       /\ disk' = IF p \in DOMAIN disk[k] /\ disk[k][p].old
                  THEN [disk EXCEPT ![k] = Without(@, p)] ELSE disk
       /\ cleaner' = [cleaner EXCEPT !.listed = RemainingAfter(k, p)]
  /\ UNCHANGED <<job, cleanups, crashes>>

\* A file went between is_file and stat, or a directory before the first walk or
\* the second, which looks for directories, had read it: the process ends with the
\* exception.
CleanerRaises ==
  /\ cleaner.step = "run"
  /\ \/ cleaner.listed # {} /\ ~(cleaner.listed \subseteq DOMAIN disk[cleaner.dir[1]])
     \/ /\ cleaner.listed = {}
        /\ \E k \in Jobs : job[k].step = "ended" /\ (k \in cleaner.unseen \/ cleaner.unseen = {})
  /\ cleaner' = [Resting EXCEPT !.step = "raised"]
  /\ UNCHANGED <<job, disk, cleanups, crashes>>

\* Every directory was read; a second walk removes the empty ones.
CleanerEnds ==
  /\ cleaner.step = "run" /\ cleaner.unseen = {} /\ cleaner.listed = {}
  /\ cleaner' = [Resting EXCEPT !.step = "done", !.due = cleaner.due]
  /\ UNCHANGED <<job, disk, cleanups, crashes>>

-----------------------------------------------------------------------------

JobStep(j) ==
  \/ \E post \in Posts : Download(j, post)
  \/ \E k \in job[j].unseen : ListDirectory(j, k) \/ ListRaises(j, k)
  \/ SumDirectory(j) \/ SumRaises(j) \/ CheckQuota(j)
  \/ \E path \in job[j].todo : ProcessFile(j, path) \/ Compress(j, path) \/ TooLarge(j, path)
  \/ ProcessRaises(j) \/ SendFile(j) \/ SendFails(j) \/ CleanUp(j)
  \/ Crash(j) \/ Expire(j)

CleanerStep ==
  \/ CleanerStarts \/ CleanerRaises \/ CleanerEnds
  \/ \E k \in cleaner.unseen : CleanerLists(k)
  \/ \E p \in cleaner.listed : CleanerVisits(p)

Next == CleanerStep \/ \E j \in Jobs : JobStep(j)

Spec == Init /\ [][Next]_vars

-----------------------------------------------------------------------------
(* Properties                                                              *)

Steps == {"download", "measure", "process", "send", "finally", "ended", "dead"}
Outcomes == {"none", "ok", "QUOTA", "MEDIA_TOO_LARGE", "TELEGRAM_UPLOAD_FAILED",
             "INTERNAL_ERROR"}

TypeOK ==
  /\ \A j \in Jobs :
       /\ job[j].user \in Users
       /\ job[j].step \in Steps
       /\ job[j].outcome \in Outcomes
       /\ job[j].todo \subseteq Media(job[j].post)
       /\ Len(job[j].result) + Cardinality(job[j].todo) = Cardinality(Media(job[j].post))
       /\ job[j].sent = Len(job[j].chat) /\ job[j].sent <= Len(job[j].result)
       /\ \A p \in DOMAIN disk[j] : disk[j][p].size \in Nat /\ disk[j][p].old \in BOOLEAN
  /\ cleaner.step \in {"off", "run", "done", "raised"}
  /\ cleanups \in 0..MaxCleanups
  /\ crashes \in 0..MaxCrashes

\* The files of a job that are still what its engine left.
Originals(j) == {p \in DOMAIN disk[j] : disk[j][p].content[1] = "original"}

\* MEDIA_MAX_TEMP_STORAGE_MB: although jobs measure the storage side by side and
\* while others download, what the admitted jobs of a user have downloaded never
\* adds up to more than the limit.  (Downloads before the check, compressed
\* videos, thumbnails and leftovers come on top.)
AdmittedFit ==
  \A u \in Users :
    LET admitted == {j \in Jobs : job[j].user = u /\ job[j].step \in {"process", "send"}}
    IN  Cardinality(UNION {{j} \X Bytes(disk[j], Originals(j)) : j \in admitted}) <= MaxTemp

\* MAX_DOWNLOAD_SIZE_MB: of the media themselves nothing larger reaches Telegram,
\* although files are uploaded after all of them have been processed and outputs
\* written over others meanwhile.  (A thumbnail written over a photo that was
\* checked may be larger.)
SentFits ==
  \A j \in Jobs : \A n \in DOMAIN job[j].chat :
    job[j].chat[n].content[1] # "thumbnail" => job[j].chat[n].size <= MaxFile

\* A file that shares its stem with no other file of the result is sent as itself
\* or compressed, never as another file, a thumbnail or what a failed engine left; a
\* completed job has sent each file of the result once.  (With a shared stem, which
\* instaloader produces for a video and its cover, a thumbnail or another video may
\* take its place.)
SentAsItself ==
  \A j \in Jobs :
    /\ \A n \in DOMAIN job[j].chat :
         LET item == job[j].chat[n] IN
           (\A p \in Media(job[j].post) : p[1] = item.for[1] => p = item.for) =>
             /\ item.content[1] \in {"original", "compressed"}
             /\ item.content[2] = item.for
             /\ item.type = MediaType(item.for)
    /\ job[j].outcome = "ok" =>
         {job[j].chat[n].for : n \in DOMAIN job[j].chat} = Media(job[j].post)

\* "Temporary storage is tracked per Telegram user": a job whose own directory
\* fits, what its failed engines left included, is refused only if another job of
\* the same user has been on disk beside it, live or left by a dead worker; and
\* measuring and processing raise only on account of such a job, whose directory
\* goes while it is read, or of a cleanup-once.  No other user makes a job fail.
QuotaIsPerUser ==
  \A j \in Jobs :
    LET Beside == \E k \in Jobs \ {j} : job[k].user = job[j].user /\ job[k].step # "download"
        Fits == Sizes(job[j].post, DOMAIN job[j].post) <= MaxTemp
    IN  /\ job[j].outcome = "QUOTA" /\ Fits => Beside
        /\ job[j].outcome = "INTERNAL_ERROR" => Beside \/ cleanups > 0

\* "Failed jobs should be cleaned by a scheduled cleanup worker": a cleanup-once
\* that finishes has removed all that dead workers had left to expire when it
\* began, whatever live jobs did meanwhile.
CleanupIsComplete ==
  cleaner.step = "done" =>
    \A e \in cleaner.due : e[2] \notin DOMAIN disk[e[1]]
=============================================================================
