------------------------ MODULE MediaProcessingProofs ------------------------
(***************************************************************************)
(* Proofs that the quota admits no more than the storage may hold, that no *)
(* job fails on account of another user, that files are sent as themselves *)
(* and within the limit, and that a cleanup that finishes is complete, for *)
(* any jobs, users, posts and thumbnails and any number of cleanups and    *)
(* deaths.                                                                 *)
(***************************************************************************)
EXTENDS MediaProcessing, FiniteSetTheorems, SequenceTheorems, TLAPS

-----------------------------------------------------------------------------
(* The records                                                             *)

PostPaths == UNION {DOMAIN post : post \in Posts}
Outputs == {CompressedPath(p) : p \in PostPaths}
Paths == PostPaths \union Outputs \union {ThumbnailPath(p) : p \in PostPaths \union Outputs}

Contents == {"original", "compressed", "thumbnail"} \X PostPaths
Listings == {<< >>} \union {<<k>> : k \in Jobs}

File == [content : Contents, size : Nat, old : BOOLEAN]
Result == [for : PostPaths, path : Paths]
Message == [for : PostPaths, content : Contents, size : Nat,
            type : {"video", "photo", "document"}]

Run ==
  [user : Users, step : Steps, outcome : Outcomes,
   unseen : SUBSET Jobs, dir : Listings, listed : SUBSET Paths, bytes : Nat,
   todo : SUBSET PostPaths, result : Seq(Result), sent : Nat,
   post : Posts \union {NoFiles}, chat : Seq(Message)]

Cleaner ==
  [step : {"off", "run", "done", "raised"}, unseen : SUBSET Jobs, dir : Listings,
   listed : SUBSET Paths, due : SUBSET (Jobs \X Paths)]

\* The files of a job directory.
IsDirectory(files) ==
  /\ IsFiniteSet(DOMAIN files)
  /\ \A p \in DOMAIN files : p \in Paths /\ files[p] \in File

\* Every record has its fields.
RecordsFit ==
  /\ job \in [Jobs -> Run]
  /\ disk = [j \in Jobs |-> disk[j]]
  /\ \A j \in Jobs : IsDirectory(disk[j])
  /\ cleaner \in Cleaner
  /\ cleanups \in 0..MaxCleanups
  /\ crashes \in 0..MaxCrashes

-----------------------------------------------------------------------------
(* The inductive invariant                                                 *)

Busy == {"measure", "process", "send"}

\* Each media file of the post is still to be processed or has a result, of its
\* stem and type; the chat has the results in their order.
ResultsFit(r) ==
  /\ r.todo \subseteq Media(r.post)
  /\ Len(r.result) + Cardinality(r.todo) = Cardinality(Media(r.post))
  /\ r.sent = Len(r.chat) /\ r.sent <= Len(r.result)
  /\ \A n \in DOMAIN r.result :
       /\ r.result[n].for \in Media(r.post)
       /\ r.result[n].path[1] = r.result[n].for[1]
       /\ MediaType(r.result[n].path) = MediaType(r.result[n].for)
  /\ \A p \in Media(r.post) : p \in r.todo \/ \E n \in DOMAIN r.result : r.result[n].for = p
  /\ \A n \in DOMAIN r.chat : r.chat[n].for = r.result[n].for

\* What has been sent is small enough, unless it is a thumbnail, and if its stem is
\* its own, itself.
ChatFits(r) ==
  \A n \in DOMAIN r.chat :
    /\ r.chat[n].content[1] # "thumbnail" => r.chat[n].size <= MaxFile
    /\ (\A p \in Media(r.post) : p[1] = r.chat[n].for[1] => p = r.chat[n].for) =>
         /\ r.chat[n].content[1] \in {"original", "compressed"}
         /\ r.chat[n].content[2] = r.chat[n].for
         /\ r.chat[n].type = MediaType(r.chat[n].for)

\* What a step says about the rest of the run.
StepFits(r) ==
  /\ r.step \in {"download", "ended", "dead"} =>
       /\ r.post = NoFiles /\ r.todo = {} /\ r.result = << >> /\ r.chat = << >>
       /\ r.bytes = 0 /\ r.dir = << >> /\ r.listed = {} /\ r.outcome = "none"
  /\ r.step = "measure" => r.result = << >> /\ r.chat = << >>
  /\ r.step \in Busy => r.outcome = "none"
  /\ r.step \in {"process", "send"} => r.bytes <= MaxTemp
  /\ r.step = "process" => r.chat = << >>
  /\ r.step = "send" => r.todo = {} /\ r.sent < Len(r.result)
  /\ r.outcome = "ok" => r.todo = {} /\ r.sent = Len(r.result)

\* A file of a live run has the stem of the file of the post it was made from; an
\* original is as its engine left it, anything else is made from a media file, a
\* compressed video is within the limit, and a thumbnail is a photo of a video.
FileFits(r, files, p) ==
  LET c == files[p].content IN
    /\ c[2] \in DOMAIN r.post /\ c[2][1] = p[1]
    /\ c[1] = "original" => c[2] = p /\ files[p].size = r.post[p].size
    /\ c[1] # "original" => c[2] \in Media(r.post)
    /\ c[1] = "compressed" => files[p].size <= MaxFile
    /\ c[1] = "thumbnail" => MediaType(p) = "photo" /\ MediaType(c[2]) = "video"

FilesFit(r, files) ==
  /\ r.step \in {"download", "ended"} => files = NoFiles
  /\ r.step \in Busy =>
       /\ \A p \in DOMAIN files : FileFits(r, files, p)
       /\ \A n \in DOMAIN r.result :
            LET p == r.result[n].path IN
              p \in DOMAIN files /\ files[p].content[1] = "original" =>
                files[p].size <= MaxFile /\ p = r.result[n].for
  /\ r.step = "measure" => \A p \in DOMAIN files : files[p].content[1] = "original"

RunsFit ==
  \A j \in Jobs :
    /\ ResultsFit(job[j]) /\ ChatFits(job[j]) /\ StepFits(job[j])
    /\ FilesFit(job[j], disk[j])

\* No other job of the user has downloaded anything yet.
Alone(j) ==
  \A k \in Jobs \ {j} : job[k].user = job[j].user => job[k].step = "download"

\* A job that is alone measures nothing but its own post, and that once; only a
\* cleanup makes it fail.
QuotaFits ==
  \A j \in Jobs : Alone(j) =>
    /\ job[j].step = "measure" =>
         /\ job[j].bytes <= Sizes(job[j].post, DOMAIN job[j].post)
         /\ j \in job[j].unseen \/ job[j].dir = <<j>> => job[j].bytes = 0
         /\ job[j].dir = <<j>> => j \notin job[j].unseen
         /\ job[j].dir \notin {<< >>, <<j>>} => job[j].listed = {}
    /\ job[j].outcome = "QUOTA" => Sizes(job[j].post, DOMAIN job[j].post) > MaxTemp
    /\ job[j].outcome = "INTERNAL_ERROR" => cleanups > 0

\* The files a run has listed or has still to process are there ...
Whole(j, r, files) ==
  /\ r.step \in {"measure", "process"} => r.todo \subseteq DOMAIN files
  /\ r.step = "measure" /\ r.dir = <<j>> => r.listed \subseteq DOMAIN files

\* ... as long as no cleanup has begun.
WholeFits ==
  cleanups = 0 =>
    /\ cleaner.step = "off"
    /\ \A j \in Jobs : Whole(j, job[j], disk[j])

\* The bytes of a job that are still what its engine left.
OriginalBytes(k) == {k} \X Bytes(disk[k], Originals(k))

\* Job m has counted, or will still count, what job k has downloaded; counted[m]
\* is what it has counted.
Covers(counted, m, k) ==
  \/ OriginalBytes(k) \subseteq counted[m]
  \/ job[m].step = "measure" /\ k \in job[m].unseen
  \/ job[m].step = "measure" /\ job[m].dir = <<k>> /\ Originals(k) \subseteq job[m].listed

\* No job has counted more than its total says.
Counts(counted) ==
  \A m \in Jobs : job[m].step \in Busy =>
    IsFiniteSet(counted[m]) /\ Cardinality(counted[m]) <= job[m].bytes

\* Live jobs of one user.
Companions(A) ==
  /\ A # {}
  /\ \A j \in A : job[j].step \in Busy
  /\ \A j, k \in A : job[j].user = job[k].user

\* Among live jobs of one user there is always one, the last to download, that
\* covers them all.
AdmissionFits ==
  \E counted :
    /\ Counts(counted)
    /\ \A A \in SUBSET Jobs :
         Companions(A) => \E m \in A : \A k \in A : Covers(counted, m, k)

\* What a cleanup-once that is not over has still to remove, it will still see.
CleanerFits ==
  /\ cleaner.listed # {} => cleaner.dir # << >>
  /\ cleaner.step \in {"run", "done"} =>
       \A j \in Jobs, p \in Paths : <<j, p>> \in cleaner.due =>
         /\ job[j].step = "dead"
         /\ p \in DOMAIN disk[j] =>
              /\ cleaner.step = "run" /\ disk[j][p].old
              /\ j \in cleaner.unseen \/ (cleaner.dir = <<j>> /\ p \in cleaner.listed)

MediaInv ==
  RecordsFit /\ RunsFit /\ QuotaFits /\ WholeFits /\ AdmissionFits /\ CleanerFits

-----------------------------------------------------------------------------
(* Lemmas about paths, sizes and lists                                     *)

\* The post of a run is one of the posts, or none; in both cases it is finite.
LEMMA PostFacts ==
  ASSUME NEW r \in Run
  PROVE  /\ IsFiniteSet(DOMAIN r.post) /\ Cardinality(DOMAIN r.post) \in Nat
         /\ DOMAIN r.post \subseteq PostPaths
         /\ \A p \in DOMAIN r.post : r.post[p].size \in Nat
         /\ Media(r.post) \subseteq DOMAIN r.post
         /\ IsFiniteSet(Media(r.post)) /\ Cardinality(Media(r.post)) \in Nat
<1>1. r.post \in Posts \/ r.post = NoFiles
  BY DEF Run
<1>2. IsFiniteSet(DOMAIN r.post) /\ DOMAIN r.post \subseteq PostPaths
      /\ \A p \in DOMAIN r.post : r.post[p].size \in Nat
  <2>1. CASE r.post \in Posts
    BY <2>1, MediaAssumption DEF PostPaths
  <2>2. CASE r.post = NoFiles
    <3>1. DOMAIN r.post = {}
      BY <2>2 DEF NoFiles
    <3> QED
      BY <3>1, FS_EmptySet
  <2> QED
    BY <1>1, <2>1, <2>2
<1>3. Media(r.post) \subseteq DOMAIN r.post
  BY DEF Media
<1>4. IsFiniteSet(Media(r.post))
  BY <1>2, <1>3, FS_Subset
<1> QED
  BY <1>2, <1>3, <1>4, FS_CardinalityType

\* Appending leaves the earlier elements in place.
LEMMA AppendFacts ==
  ASSUME NEW S, NEW q \in Seq(S), NEW e \in S
  PROVE  /\ Append(q, e) \in Seq(S) /\ Len(Append(q, e)) = Len(q) + 1
         /\ DOMAIN Append(q, e) = 1..Len(q) + 1
         /\ DOMAIN q = 1..Len(q) /\ Len(q) \in Nat
         /\ \A i \in 1..Len(q) : Append(q, e)[i] = q[i]
         /\ Append(q, e)[Len(q) + 1] = e
  BY LenProperties

\* Finitely many files have finitely many bytes.
LEMMA BytesAreFinite ==
  ASSUME NEW files, NEW S, IsFiniteSet(S), \A p \in S : files[p].size \in Nat
  PROVE  IsFiniteSet(Bytes(files, S))
<1> DEFINE D == S \cap DOMAIN files
           bytes(p) == {p} \X (1..files[p].size)
           f == [p \in D |-> bytes(p)]
           T == {bytes(p) : p \in D}
<1>1. IsFiniteSet(D)
  BY FS_Intersection
<1>2. f \in Surjection(D, T)
  BY DEF Surjection
<1>3. IsFiniteSet(T)
  BY <1>1, <1>2, FS_Surjection
<1>4. ASSUME NEW p \in D PROVE IsFiniteSet(bytes(p))
  <2>1. 1 \in Int /\ files[p].size \in Int
    OBVIOUS
  <2>2. IsFiniteSet({p}) /\ IsFiniteSet(1..files[p].size)
    BY <2>1, FS_Singleton, FS_Interval
  <2> QED
    BY <2>2, FS_Product
<1>5. IsFiniteSet(UNION T)
  BY <1>3, <1>4, FS_UNION
<1> QED
  BY <1>5 DEF Bytes

\* Fewer bytes are no larger.
LEMMA SizesAreMonotonic ==
  ASSUME NEW S, NEW T, IsFiniteSet(T), S \subseteq T
  PROVE  /\ IsFiniteSet(S) /\ Cardinality(S) \in Nat /\ Cardinality(T) \in Nat
         /\ Cardinality(S) <= Cardinality(T)
  BY FS_Subset, FS_CardinalityType

\* _media_type_for_mime has three answers.
LEMMA MediaTypes ==
  ASSUME NEW p
  PROVE  MediaType(p) \in {"video", "photo", "document"}
  BY DEF MediaType

\* Outputs are paths, of the stem of what they are made from; compressed videos
\* are videos and thumbnails photos.
LEMMA OutputPaths ==
  ASSUME NEW p \in PostPaths
  PROVE  /\ CompressedPath(p) \in Paths /\ p \in Paths
         /\ CompressedPath(p)[1] = p[1] /\ MediaType(CompressedPath(p)) = "video"
         /\ \A q \in {p, CompressedPath(p)} :
              /\ ThumbnailPath(q) \in Paths
              /\ ThumbnailPath(q)[1] = p[1] /\ MediaType(ThumbnailPath(q)) = "photo"
<1>1. CompressedPath(p) \in Paths /\ p \in Paths
  BY DEF Paths, Outputs
<1>2. \A q \in {p, CompressedPath(p)} : ThumbnailPath(q) \in Paths
  BY DEF Paths, Outputs
<1>3. CompressedPath(p)[1] = p[1] /\ MediaType(CompressedPath(p)) = "video"
  BY DEF CompressedPath, MediaType
<1>4. ASSUME NEW q PROVE ThumbnailPath(q)[1] = q[1] /\ MediaType(ThumbnailPath(q)) = "photo"
  BY DEF ThumbnailPath, MediaType
<1> QED
  BY <1>1, <1>2, <1>3, <1>4

\* A file that ffmpeg may write beside the originals.
OutputFits(r, q, file) ==
  /\ q \in Paths /\ file \in File
  /\ file.content[1] # "original"
  /\ file.content[1] = "compressed" => file.size <= MaxFile
  /\ file.content[2] \in Media(r.post) /\ file.content[2][1] = q[1]
  /\ file.content[1] = "thumbnail" =>
       MediaType(q) = "photo" /\ MediaType(file.content[2]) = "video"

\* The files of a directory fit the run.
DirectoryFits(r, files) ==
  IsDirectory(files) /\ \A p \in DOMAIN files : FileFits(r, files, p)

\* No originals but those of other files.
OriginalsFrom(files, before) ==
  \A p \in DOMAIN files : files[p].content[1] = "original" =>
    p \in DOMAIN before /\ files[p] = before[p]

\* An output is written over a file or beside the others.
LEMMA PutFits ==
  ASSUME NEW r \in Run, NEW files, NEW q, NEW file,
         DirectoryFits(r, files), OutputFits(r, q, file)
  PROVE  /\ DirectoryFits(r, Put(files, q, file))
         /\ OriginalsFrom(Put(files, q, file), files)
         /\ Put(files, q, file)[q] = file
         /\ DOMAIN files \subseteq DOMAIN Put(files, q, file)
<1> DEFINE new == Put(files, q, file)
<1>1. DOMAIN new = DOMAIN files \union {q}
  BY DEF Put
<1>2. \A p \in DOMAIN new : new[p] = IF p = q THEN file ELSE files[p]
  BY DEF Put
<1>3. IsFiniteSet(DOMAIN new)
  BY <1>1, FS_AddElement DEF DirectoryFits, IsDirectory
<1> HIDE DEF new
<1>4. IsDirectory(new)
  BY <1>1, <1>2, <1>3 DEF IsDirectory, DirectoryFits, OutputFits
<1>5. \A p \in DOMAIN new : FileFits(r, new, p)
  <2>1. Media(r.post) \subseteq DOMAIN r.post
    BY PostFacts
  <2> QED
    BY <1>1, <1>2, <2>1 DEF FileFits, DirectoryFits, OutputFits
<1>6. OriginalsFrom(new, files)
  BY <1>1, <1>2 DEF OriginalsFrom, OutputFits
<1>7. new[q] = file
  BY <1>1, <1>2
<1> QED
  BY <1>1, <1>4, <1>5, <1>6, <1>7 DEF new, DirectoryFits

\* A run at its start has the type of a run.
LEMMA StartIsRun ==
  ASSUME NEW u \in Users, NEW step \in Steps
  PROVE  /\ Start(u) \in Run /\ [Start(u) EXCEPT !.step = step] \in Run
         /\ Start(u).user = u
<1>1. Start(u) \in Run /\ Start(u).user = u
  BY DEF Start, Run, Steps, Outcomes, Listings, NoFiles
<1>2. [Start(u) EXCEPT !.step = step] \in Run
  BY <1>1 DEF Run
<1> QED
  BY <1>1, <1>2

\* A run that holds nothing ...
EmptyRun(u, step) == [Start(u) EXCEPT !.step = step]
IsEmptyRun(r, u, step) == r = EmptyRun(u, step) \/ (step = "download" /\ r = Start(u))

\* ... fits.
LEMMA EmptyRunFits ==
  ASSUME NEW u \in Users, NEW step \in {"download", "ended", "dead"}, NEW r,
         IsEmptyRun(r, u, step)
  PROVE  /\ r \in Run /\ r.user = u /\ r.step = step /\ r.outcome = "none"
         /\ ResultsFit(r) /\ ChatFits(r) /\ StepFits(r)
         /\ r.result = << >> /\ r.chat = << >> /\ r.bytes = 0
<1>1. /\ r \in Run /\ r.user = u /\ r.step = step /\ r.outcome = "none"
      /\ r.post = NoFiles /\ r.todo = {} /\ r.result = << >> /\ r.chat = << >>
      /\ r.bytes = 0 /\ r.dir = << >> /\ r.listed = {} /\ r.sent = 0
  <2>1. CASE r = EmptyRun(u, step)
    BY <2>1, StartIsRun DEF EmptyRun, Start, Steps
  <2>2. CASE step = "download" /\ r = Start(u)
    <3>1. r \in Run /\ r.user = u
      <4>1. "download" \in Steps
        BY DEF Steps
      <4> QED
        BY <2>2, <4>1, StartIsRun
    <3>2. /\ r.step = "download" /\ r.outcome = "none"
          /\ r.post = NoFiles /\ r.todo = {} /\ r.result = << >> /\ r.chat = << >>
          /\ r.bytes = 0 /\ r.dir = << >> /\ r.listed = {} /\ r.sent = 0
      BY <2>2 DEF Start
    <3> QED
      BY <2>2, <3>1, <3>2
  <2> QED
    BY <2>1, <2>2 DEF IsEmptyRun
<1>2. Media(r.post) = {} /\ DOMAIN r.result = {} /\ DOMAIN r.chat = {} /\ Len(r.chat) = 0
      /\ Len(r.result) = 0
  BY <1>1 DEF NoFiles, Media
<1>3. ResultsFit(r)
  <2>1. Cardinality(r.todo) = 0 /\ Cardinality(Media(r.post)) = 0
    BY <1>1, <1>2, FS_EmptySet
  <2> QED
    BY <1>1, <1>2, <2>1 DEF ResultsFit
<1>4. ChatFits(r) /\ StepFits(r)
  BY <1>1, <1>2 DEF ChatFits, StepFits, Busy
<1> QED
  BY <1>1, <1>3, <1>4

-----------------------------------------------------------------------------
(* What the invariant says that a step of one job keeps                    *)

\* The records of the jobs, one by one.
LEMMA RunTypes ==
  ASSUME MediaInv, NEW j \in Jobs
  PROVE  /\ job[j] \in Run /\ IsDirectory(disk[j])
         /\ ResultsFit(job[j]) /\ ChatFits(job[j]) /\ StepFits(job[j])
         /\ FilesFit(job[j], disk[j])
         /\ job = [k \in Jobs |-> job[k]] /\ disk = [k \in Jobs |-> disk[k]]
BY DEF MediaInv, RecordsFit, RunsFit

\* Whoever covered a job covers it still, so that no set of live jobs is left
\* uncovered.
LEMMA AdmissionKept ==
  ASSUME NEW counted, NEW next, Counts(next)',
         \A A \in SUBSET Jobs :
           Companions(A) => \E m \in A : \A k \in A : Covers(counted, m, k),
         \A m \in Jobs : job'[m].step \in Busy =>
           job[m].step \in Busy /\ job'[m].user = job[m].user,
         \A m, k \in Jobs :
           /\ job'[m].step \in Busy /\ job'[k].step \in Busy
           /\ job'[m].user = job'[k].user
           /\ Covers(counted, m, k)
           => Covers(next, m, k)'
  PROVE  AdmissionFits'
<1>1. ASSUME NEW A \in SUBSET Jobs, Companions(A)'
      PROVE  \E m \in A : \A k \in A : Covers(next, m, k)'
  <2>1. Companions(A)
    BY <1>1 DEF Companions
  <2>2. PICK m \in A : \A k \in A : Covers(counted, m, k)
    BY <2>1
  <2>3. \A k \in A : Covers(next, m, k)'
    BY <1>1, <2>2 DEF Companions
  <2> QED
    BY <2>3
<1> QED
  BY <1>1 DEF AdmissionFits

\* The last two ways to cover a job do not depend on the bytes counted.
LEMMA CoversKept ==
  ASSUME NEW counted, NEW m, NEW k, Covers(counted, m, k),
         OriginalBytes(k)' \subseteq OriginalBytes(k),
         Originals(k)' \subseteq Originals(k),
         job[m].step = "measure" =>
           /\ job'[m].step = "measure" /\ job'[m].unseen = job[m].unseen
           /\ job'[m].dir = job[m].dir /\ job'[m].listed = job[m].listed
  PROVE  Covers(counted, m, k)'
BY DEF Covers

\* Originals that were there before, and as they were, add no bytes.
LEMMA OriginalsKept ==
  ASSUME NEW k,
         \A p \in DOMAIN disk'[k] : disk'[k][p].content[1] = "original" =>
           p \in DOMAIN disk[k] /\ disk'[k][p] = disk[k][p]
  PROVE  /\ OriginalBytes(k)' \subseteq OriginalBytes(k)
         /\ Originals(k)' \subseteq Originals(k)
<1>1. Originals(k)' \subseteq Originals(k)
  BY DEF Originals
<1>2. Bytes(disk'[k], Originals(k)') \subseteq Bytes(disk[k], Originals(k))
  <2>1. \A p \in Originals(k)' \cap DOMAIN disk'[k] :
           p \in Originals(k) \cap DOMAIN disk[k] /\ disk'[k][p].size = disk[k][p].size
    BY <1>1 DEF Originals
  <2> QED
    BY <2>1 DEF Bytes
<1> QED
  BY <1>1, <1>2 DEF OriginalBytes

\* A step of one job that neither measures nor adds originals.
LEMMA AdmissionUndisturbed ==
  ASSUME AdmissionFits, NEW j \in Jobs, NEW new, NEW files,
         job' = [job EXCEPT ![j] = new], disk' = [disk EXCEPT ![j] = files],
         job = [k \in Jobs |-> job[k]], disk = [k \in Jobs |-> disk[k]],
         new.user = job[j].user,
         new.step \in Busy =>
           /\ job[j].step \in Busy /\ job[j].step # "measure" /\ new.bytes = job[j].bytes
           /\ \A p \in DOMAIN files : files[p].content[1] = "original" =>
                p \in DOMAIN disk[j] /\ files[p] = disk[j][p]
  PROVE  AdmissionFits'
<1>1. PICK counted :
        /\ Counts(counted)
        /\ \A A \in SUBSET Jobs :
             Companions(A) => \E m \in A : \A k \in A : Covers(counted, m, k)
  BY DEF AdmissionFits
<1>2. job'[j] = new /\ disk'[j] = files
      /\ \A k \in Jobs : k # j => job'[k] = job[k] /\ disk'[k] = disk[k]
  OBVIOUS
<1>3. Counts(counted)'
  BY <1>1, <1>2 DEF Counts
<1>4. \A m \in Jobs : job'[m].step \in Busy =>
        job[m].step \in Busy /\ job'[m].user = job[m].user
  BY <1>2
<1>5. ASSUME NEW m \in Jobs, NEW k \in Jobs, job'[m].step \in Busy, job'[k].step \in Busy,
             Covers(counted, m, k)
      PROVE  Covers(counted, m, k)'
  <2>1. OriginalBytes(k)' \subseteq OriginalBytes(k) /\ Originals(k)' \subseteq Originals(k)
    BY <1>2, <1>5, OriginalsKept
  <2>2. job[m].step = "measure" => job'[m] = job[m]
    BY <1>2, <1>5
  <2> QED
    BY <1>5, <2>1, <2>2, CoversKept
<1> QED
  BY <1>1, <1>3, <1>4, <1>5, AdmissionKept

\* What QuotaFits says of one run.
QuotaFitsRun(j, r) ==
  /\ r.step = "measure" =>
       /\ r.bytes <= Sizes(r.post, DOMAIN r.post)
       /\ j \in r.unseen \/ r.dir = <<j>> => r.bytes = 0
       /\ r.dir = <<j>> => j \notin r.unseen
       /\ r.dir \notin {<< >>, <<j>>} => r.listed = {}
  /\ r.outcome = "QUOTA" => Sizes(r.post, DOMAIN r.post) > MaxTemp
  /\ r.outcome = "INTERNAL_ERROR" => cleanups > 0

\* A step of a job that was not dead, in its own directory.
LEMMA OneJobKeeps ==
  ASSUME MediaInv, NEW j \in Jobs, NEW new \in Run, NEW files,
         job' = [job EXCEPT ![j] = new], disk' = [disk EXCEPT ![j] = files],
         UNCHANGED <<cleaner, cleanups>>, crashes' \in 0..MaxCrashes,
         job[j].step # "dead", new.step # "download", new.user = job[j].user,
         ResultsFit(new), ChatFits(new), StepFits(new),
         IsDirectory(files), FilesFit(new, files),
         Alone(j) => QuotaFitsRun(j, new),
         cleanups = 0 => Whole(j, new, files),
         AdmissionFits'
  PROVE  MediaInv'
<1> USE DEF MediaInv
<1>1. /\ job = [k \in Jobs |-> job[k]] /\ disk = [k \in Jobs |-> disk[k]]
      /\ \A k \in Jobs : job[k] \in Run
  BY RunTypes
<1>2. job'[j] = new /\ disk'[j] = files
      /\ \A k \in Jobs : k # j => job'[k] = job[k] /\ disk'[k] = disk[k]
  BY <1>1
<1>3. RecordsFit'
  <2>1. job' \in [Jobs -> Run]
    BY <1>1
  <2>2. disk' = [k \in Jobs |-> disk'[k]]
    BY <1>1
  <2>3. \A k \in Jobs : IsDirectory(disk'[k])
    BY <1>2 DEF RecordsFit
  <2> QED
    BY <2>1, <2>2, <2>3 DEF RecordsFit, IsDirectory
<1>4. RunsFit'
  <2>1. \A k \in Jobs :
          /\ ResultsFit(job'[k]) /\ ChatFits(job'[k]) /\ StepFits(job'[k])
          /\ FilesFit(job'[k], disk'[k])
    BY <1>2 DEF RunsFit
  <2> QED
    BY <2>1 DEF RunsFit
<1>5. QuotaFits'
  <2>1. \A k \in Jobs : Alone(k)' => Alone(k)
    BY <1>2 DEF Alone
  <2>2. \A k \in Jobs : Alone(k) => QuotaFitsRun(k, job[k])
    BY DEF QuotaFits, QuotaFitsRun
  <2>3. \A k \in Jobs : Alone(k)' => QuotaFitsRun(k, job'[k])
    BY <1>2, <2>1, <2>2
  <2> QED
    BY <2>3 DEF QuotaFits, QuotaFitsRun
<1>6. CleanerFits'
  BY <1>2 DEF CleanerFits
<1>7. WholeFits'
  <2> SUFFICES ASSUME cleanups = 0
               PROVE  cleaner.step = "off" /\ \A k \in Jobs : Whole(k, job'[k], disk'[k])
    BY DEF WholeFits, Whole
  <2>1. cleaner.step = "off" /\ \A k \in Jobs : Whole(k, job[k], disk[k])
    BY DEF WholeFits
  <2> QED
    BY <1>2, <2>1
<1> QED
  BY <1>3, <1>4, <1>5, <1>6, <1>7

\* A run that ends with an error; a refusal must be justified, and so must an
\* exception.
LEMMA EndKeeps ==
  ASSUME MediaInv, NEW j \in Jobs, job[j].step \in Busy,
         NEW outcome \in Outcomes \ {"none", "ok"},
         Ends(j, outcome), UNCHANGED <<disk, cleaner, cleanups, crashes>>,
         outcome = "QUOTA" /\ Alone(j) =>
           Sizes(job[j].post, DOMAIN job[j].post) > MaxTemp,
         outcome = "INTERNAL_ERROR" /\ Alone(j) => cleanups > 0
  PROVE  MediaInv'
<1> DEFINE new == [job[j] EXCEPT !.step = "finally", !.outcome = outcome]
<1>1. /\ job[j] \in Run /\ IsDirectory(disk[j])
      /\ ResultsFit(job[j]) /\ ChatFits(job[j]) /\ StepFits(job[j])
      /\ FilesFit(job[j], disk[j])
      /\ job = [k \in Jobs |-> job[k]] /\ disk = [k \in Jobs |-> disk[k]]
  BY RunTypes
<1>2. /\ new \in Run /\ new.step = "finally" /\ new.outcome = outcome
      /\ new.user = job[j].user /\ new.post = job[j].post /\ new.todo = job[j].todo
      /\ new.result = job[j].result /\ new.sent = job[j].sent /\ new.chat = job[j].chat
  BY <1>1 DEF Run, Steps
<1>3. job' = [job EXCEPT ![j] = new] /\ disk' = [disk EXCEPT ![j] = disk[j]]
  BY <1>1 DEF Ends
<1> HIDE DEF new
<1>4. ResultsFit(new) /\ ChatFits(new)
  BY <1>1, <1>2 DEF ResultsFit, ChatFits
<1>5. StepFits(new) /\ FilesFit(new, disk[j])
  BY <1>2 DEF StepFits, FilesFit, Busy
<1>6. Alone(j) => QuotaFitsRun(j, new)
  BY <1>2 DEF QuotaFitsRun
<1>7. AdmissionFits'
  BY <1>1, <1>2, <1>3, AdmissionUndisturbed DEF MediaInv, Busy
<1>8. crashes' \in 0..MaxCrashes /\ job[j].step # "dead"
  BY DEF MediaInv, RecordsFit, Busy
<1>9. Whole(j, new, disk[j])
  BY <1>2 DEF Whole
<1> QED
  BY <1>1, <1>2, <1>3, <1>4, <1>5, <1>6, <1>7, <1>8, <1>9, OneJobKeeps

-----------------------------------------------------------------------------
(* The quota                                                               *)

\* A post that has just been downloaded.
LEMMA DownloadKeeps ==
  ASSUME MediaInv, NEW j \in Jobs, NEW post \in Posts, Download(j, post)
  PROVE  MediaInv'
<1> DEFINE new == [job[j] EXCEPT !.step = "measure", !.post = post,
                                 !.todo = Media(post), !.unseen = Directories]
           files == [p \in DOMAIN post |->
             [content |-> <<"original", p>>, size |-> post[p].size, old |-> post[p].old]]
<1>1. /\ job[j] \in Run /\ ResultsFit(job[j]) /\ StepFits(job[j])
      /\ job = [k \in Jobs |-> job[k]] /\ disk = [k \in Jobs |-> disk[k]]
  BY RunTypes
<1>2. job[j].step = "download" /\ UNCHANGED <<cleaner, cleanups, crashes>>
  BY DEF Download
<1>3. /\ job[j].result = << >> /\ job[j].chat = << >> /\ job[j].bytes = 0
      /\ job[j].dir = << >> /\ job[j].outcome = "none" /\ job[j].sent = Len(job[j].chat)
  BY <1>1, <1>2 DEF StepFits, ResultsFit
<1>4. /\ DOMAIN post \subseteq PostPaths /\ Directories \subseteq Jobs
      /\ Media(post) \subseteq DOMAIN post
  BY DEF PostPaths, Directories, Media
<1>5. /\ new \in Run /\ new.step = "measure" /\ new.post = post /\ new.todo = Media(post)
      /\ new.unseen = Directories /\ new.user = job[j].user /\ new.outcome = "none"
      /\ new.result = << >> /\ new.chat = << >> /\ new.bytes = 0 /\ new.dir = << >>
      /\ new.sent = 0
  BY <1>1, <1>3, <1>4, LenProperties DEF Run, Steps
<1>6. job' = [job EXCEPT ![j] = new] /\ disk' = [disk EXCEPT ![j] = files]
  BY <1>1 DEF Download
<1>7. IsFiniteSet(DOMAIN post) /\ Cardinality(Media(post)) \in Nat
  BY <1>4, MediaAssumption, FS_Subset, FS_CardinalityType
<1>8. \A p \in DOMAIN post : post[p].size \in Nat /\ post[p].old \in BOOLEAN
  BY MediaAssumption
<1>9. DOMAIN files = DOMAIN post
      /\ \A p \in DOMAIN post : files[p].content = <<"original", p>>
                                /\ files[p].size = post[p].size
  OBVIOUS
<1>10. IsDirectory(files)
  <2>1. \A p \in DOMAIN post : p \in Paths /\ <<"original", p>> \in Contents
    BY <1>4, OutputPaths DEF Contents
  <2> QED
    BY <1>7, <1>8, <2>1 DEF IsDirectory, File
<1> HIDE DEF new, files
<1>11. ResultsFit(new) /\ ChatFits(new) /\ StepFits(new)
  <2>1. Len(<< >>) = 0 /\ DOMAIN << >> = {}
    OBVIOUS
  <2>2. ResultsFit(new)
    BY <1>5, <1>7, <2>1 DEF ResultsFit
  <2> QED
    BY <1>5, <2>1, <2>2 DEF ChatFits, StepFits, Busy
<1>12. FilesFit(new, files)
  <2>1. \A p \in DOMAIN files : FileFits(new, files, p)
    BY <1>5, <1>9 DEF FileFits
  <2>2. DOMAIN new.result = {}
    BY <1>5
  <2> QED
    BY <1>5, <1>9, <2>1, <2>2 DEF FilesFit, Busy
<1>13. QuotaFitsRun(j, new)
  <2>1. Sizes(post, DOMAIN post) \in Nat
    BY <1>7, <1>8, BytesAreFinite, FS_CardinalityType DEF Sizes
  <2> QED
    BY <1>5, <2>1 DEF QuotaFitsRun
<1>14. AdmissionFits'
  <2>1. PICK counted :
          /\ Counts(counted)
          /\ \A A \in SUBSET Jobs :
               Companions(A) => \E m \in A : \A k \in A : Covers(counted, m, k)
    BY DEF MediaInv, AdmissionFits
  <2>6. PICK next : next = [m \in Jobs |-> IF m = j THEN {} ELSE counted[m]]
    OBVIOUS
  <2>2. job'[j] = new /\ \A k \in Jobs : k # j => job'[k] = job[k] /\ disk'[k] = disk[k]
    BY <1>1, <1>6
  <2>3. next[j] = {} /\ \A m \in Jobs : m # j => next[m] = counted[m]
    BY <2>6
  <2>4. Counts(next)'
    <3>1. IsFiniteSet({}) /\ Cardinality({}) = 0
      BY FS_EmptySet
    <3>2. IsFiniteSet(next[j]) /\ Cardinality(next[j]) <= job'[j].bytes
      BY <1>5, <2>2, <2>3, <3>1
    <3>3. \A m \in Jobs : job'[m].step \in Busy =>
            IsFiniteSet(next[m]) /\ Cardinality(next[m]) <= job'[m].bytes
      BY <2>1, <2>2, <2>3, <3>2 DEF Counts
    <3> QED
      BY <3>3 DEF Counts
  <2>5. ASSUME NEW A \in SUBSET Jobs, Companions(A)'
        PROVE  \E m \in A : \A k \in A : Covers(next, m, k)'
    <3>1. CASE j \in A
      <4>1. \A k \in A : k \in Directories
        BY <1>2, <2>2, <2>5 DEF Companions, Busy, Directories
      <4>2. \A k \in A : Covers(next, j, k)'
        BY <1>5, <2>2, <4>1 DEF Covers
      <4> QED
        BY <3>1, <4>2
    <3>2. CASE j \notin A
      <4>1. \A k \in A : job'[k] = job[k] /\ disk'[k] = disk[k] /\ next[k] = counted[k]
        BY <2>2, <2>3, <3>2
      <4>2. Companions(A)
        BY <2>5, <4>1 DEF Companions
      <4>3. PICK m \in A : \A k \in A : Covers(counted, m, k)
        BY <2>1, <4>2
      <4>4. \A k \in A : OriginalBytes(k)' = OriginalBytes(k) /\ Originals(k)' = Originals(k)
        BY <4>1 DEF OriginalBytes, Originals
      <4>5. \A k \in A : Covers(next, m, k)'
        BY <4>1, <4>3, <4>4 DEF Covers
      <4> QED
        BY <4>5
    <3> QED
      BY <3>1, <3>2
  <2> QED
    BY <2>4, <2>5 DEF AdmissionFits
<1>15. crashes' \in 0..MaxCrashes /\ UNCHANGED <<cleaner, cleanups>>
  BY <1>2 DEF MediaInv, RecordsFit
<1>16. Whole(j, new, files)
  <2>1. << >> # <<j>>
    OBVIOUS
  <2> QED
    BY <1>4, <1>5, <1>9, <2>1 DEF Whole
<1> QED
  BY <1>2, <1>5, <1>6, <1>10, <1>11, <1>12, <1>13, <1>14, <1>15, <1>16, OneJobKeeps

\* A step of the measurement, of which only the count and the directory differ.
LEMMA MeasureKeeps ==
  ASSUME MediaInv, NEW j \in Jobs, NEW new \in Run, job[j].step = "measure",
         job' = [job EXCEPT ![j] = new], UNCHANGED <<disk, cleaner, cleanups, crashes>>,
         new.step \in {"measure", "process"},
         new.step = "process" => new.bytes <= MaxTemp,
         new.user = job[j].user, new.outcome = job[j].outcome, new.todo = job[j].todo,
         new.result = job[j].result, new.sent = job[j].sent, new.post = job[j].post,
         new.chat = job[j].chat,
         new.dir = <<j>> => new.listed = DOMAIN disk[j],
         Alone(j) => QuotaFitsRun(j, new),
         AdmissionFits'
  PROVE  MediaInv'
<1>1. /\ IsDirectory(disk[j]) /\ ResultsFit(job[j]) /\ ChatFits(job[j])
      /\ StepFits(job[j]) /\ FilesFit(job[j], disk[j]) /\ disk = [k \in Jobs |-> disk[k]]
  BY RunTypes
<1>2. ResultsFit(new) /\ ChatFits(new)
  BY <1>1 DEF ResultsFit, ChatFits
<1>3. StepFits(new)
  BY <1>1 DEF StepFits, Busy
<1>4. FilesFit(new, disk[j])
  BY <1>1 DEF FilesFit, FileFits, Busy
<1>5. /\ disk' = [disk EXCEPT ![j] = disk[j]] /\ UNCHANGED <<cleaner, cleanups>>
      /\ crashes' \in 0..MaxCrashes
  BY <1>1 DEF MediaInv, RecordsFit
<1>6. cleanups = 0 => Whole(j, new, disk[j])
  BY DEF MediaInv, WholeFits, Whole
<1> QED
  BY <1>1, <1>2, <1>3, <1>4, <1>5, <1>6, OneJobKeeps

\* What is listed of a directory has still to be counted.
LEMMA ListDirectoryKeeps ==
  ASSUME MediaInv, NEW j \in Jobs, NEW k \in job[j].unseen, ListDirectory(j, k)
  PROVE  MediaInv'
<1> DEFINE new == [job[j] EXCEPT !.unseen = @ \ {k}, !.dir = <<k>>, !.listed = DOMAIN disk[k]]
<1>1. /\ job[j] \in Run /\ StepFits(job[j])
      /\ job = [i \in Jobs |-> job[i]] /\ disk = [i \in Jobs |-> disk[i]]
  BY RunTypes
<1>2. /\ job[j].step = "measure" /\ job[j].dir = << >> /\ job[k].user = job[j].user
      /\ UNCHANGED <<disk, cleaner, cleanups, crashes>>
  BY DEF ListDirectory, InUserStorage
<1>3. k \in Jobs
  BY <1>1 DEF Run
<1>4. DOMAIN disk[k] \subseteq Paths /\ <<k>> \in Listings
  BY <1>3, RunTypes DEF IsDirectory, Listings
<1>5. /\ new \in Run /\ new.step = "measure" /\ new.user = job[j].user
      /\ new.outcome = job[j].outcome /\ new.todo = job[j].todo
      /\ new.result = job[j].result /\ new.sent = job[j].sent /\ new.post = job[j].post
      /\ new.chat = job[j].chat /\ new.bytes = job[j].bytes
  BY <1>1, <1>2, <1>4 DEF Run
<1>9. new.unseen = job[j].unseen \ {k} /\ new.dir = <<k>> /\ new.listed = DOMAIN disk[k]
  BY <1>1 DEF Run
<1>6. job' = [job EXCEPT ![j] = new]
  BY <1>1 DEF ListDirectory
<1> HIDE DEF new
<1>7. Alone(j) => QuotaFitsRun(j, new)
  <2>1. Alone(j) => QuotaFitsRun(j, job[j])
    BY DEF MediaInv, QuotaFits, QuotaFitsRun
  <2>2. Alone(j) /\ k # j => new.listed = {}
    <3>1. Alone(j) /\ k # j => job[k].step = "download"
      BY <1>2, <1>3 DEF Alone
    <3>2. job[k].step = "download" => DOMAIN disk[k] = {}
      BY <1>3, RunTypes DEF FilesFit, NoFiles
    <3> QED
      BY <1>9, <3>1, <3>2
  <2>3. <<k>> = <<j>> => k = j
    OBVIOUS
  <2> QED
    BY <1>2, <1>5, <1>9, <2>1, <2>2, <2>3 DEF QuotaFitsRun
<1>8. AdmissionFits'
  <2>1. PICK counted :
          /\ Counts(counted)
          /\ \A A \in SUBSET Jobs :
               Companions(A) => \E m \in A : \A i \in A : Covers(counted, m, i)
    BY DEF MediaInv, AdmissionFits
  <2>2. job'[j] = new /\ disk' = disk /\ \A i \in Jobs : i # j => job'[i] = job[i]
    BY <1>1, <1>2, <1>6
  <2>3. Counts(counted)'
    BY <1>2, <1>5, <2>1, <2>2 DEF Counts, Busy
  <2>4. \A m \in Jobs : job'[m].step \in Busy =>
          job[m].step \in Busy /\ job'[m].user = job[m].user
    BY <1>2, <1>5, <2>2 DEF Busy
  <2>5. \A i : OriginalBytes(i)' = OriginalBytes(i) /\ Originals(i)' = Originals(i)
    BY <2>2 DEF OriginalBytes, Originals
  <2>6. ASSUME NEW m \in Jobs, NEW i \in Jobs, Covers(counted, m, i)
        PROVE  Covers(counted, m, i)'
    <3>1. CASE m # j
      BY <2>2, <2>5, <2>6, <3>1 DEF Covers
    <3>2. CASE m = j
      <4>1. Originals(k) \subseteq DOMAIN disk[k]
        BY DEF Originals
      <4>2. <<i>> # << >>
        OBVIOUS
      <4>3. OriginalBytes(i) \subseteq counted[m] \/ i \in job[j].unseen
        BY <1>2, <2>6, <3>2, <4>2 DEF Covers
      <4> QED
        BY <1>5, <1>9, <2>2, <2>5, <3>2, <4>1, <4>3 DEF Covers
    <3> QED
      BY <3>1, <3>2
  <2> QED
    BY <2>1, <2>3, <2>4, <2>6, AdmissionKept
<1> QED
  <2>1. new \in Run /\ job[j].step = "measure"
    BY <1>2, <1>5
  <2>2. UNCHANGED <<disk, cleaner, cleanups, crashes>>
    BY <1>2
  <2>3. new.step \in {"measure", "process"} /\ new.step # "process"
    BY <1>5
  <2>4. /\ new.user = job[j].user /\ new.outcome = job[j].outcome /\ new.todo = job[j].todo
        /\ new.result = job[j].result /\ new.sent = job[j].sent /\ new.post = job[j].post
        /\ new.chat = job[j].chat
    BY <1>5
  <2>5. new.dir = <<j>> => new.listed = DOMAIN disk[j]
    <3>1. <<k>> = <<j>> => k = j
      OBVIOUS
    <3> QED
      BY <1>9, <3>1
  <2> QED
    BY <1>6, <1>7, <1>8, <2>1, <2>2, <2>3, <2>4, <2>5, MeasureKeeps

\* What was listed and is still there is counted.
LEMMA SumDirectoryKeeps ==
  ASSUME MediaInv, NEW j \in Jobs, SumDirectory(j)
  PROVE  MediaInv'
<1> DEFINE d == job[j].dir[1]
           size == Sizes(disk[d], job[j].listed)
           new == [job[j] EXCEPT !.bytes = @ + size, !.dir = << >>, !.listed = {}]
<1>1. /\ job[j] \in Run /\ StepFits(job[j]) /\ FilesFit(job[j], disk[j])
      /\ job = [i \in Jobs |-> job[i]] /\ disk = [i \in Jobs |-> disk[i]]
  BY RunTypes
<1>2. /\ job[j].step = "measure" /\ job[j].dir # << >>
      /\ UNCHANGED <<disk, cleaner, cleanups, crashes>>
  BY DEF SumDirectory
<1>3. d \in Jobs /\ job[j].dir = <<d>>
  BY <1>1, <1>2 DEF Run, Listings
<1>4. IsFiniteSet(Bytes(disk[d], job[j].listed)) /\ size \in Nat
  <2> DEFINE D == job[j].listed \cap DOMAIN disk[d]
  <2>1. IsFiniteSet(D) /\ \A p \in D : disk[d][p].size \in Nat
    BY <1>3, RunTypes, FS_Subset DEF IsDirectory, File
  <2>2. Bytes(disk[d], D) = Bytes(disk[d], job[j].listed)
    BY DEF Bytes
  <2> HIDE DEF D
  <2>3. IsFiniteSet(Bytes(disk[d], D))
    BY <2>1, BytesAreFinite
  <2> QED
    BY <2>2, <2>3, FS_CardinalityType DEF Sizes
<1>5. /\ new \in Run /\ new.step = "measure" /\ new.user = job[j].user
      /\ new.outcome = job[j].outcome /\ new.todo = job[j].todo
      /\ new.result = job[j].result /\ new.sent = job[j].sent /\ new.post = job[j].post
      /\ new.chat = job[j].chat
  <2>1. /\ job[j].bytes + size \in Nat /\ << >> \in Listings /\ {} \in SUBSET Paths
    BY <1>1, <1>4 DEF Run, Listings
  <2> HIDE DEF size
  <2> QED
    BY <1>1, <1>2, <2>1 DEF Run
<1>9. /\ new.bytes = job[j].bytes + size /\ job[j].bytes \in Nat
      /\ new.unseen = job[j].unseen /\ new.dir = << >> /\ new.listed = {}
  BY <1>1 DEF Run
<1>6. job' = [job EXCEPT ![j] = new]
  BY <1>1 DEF SumDirectory
<1> HIDE DEF new, d, size
<1>7. Alone(j) => QuotaFitsRun(j, new)
  <2> SUFFICES ASSUME Alone(j) PROVE QuotaFitsRun(j, new)
    OBVIOUS
  <2>1. QuotaFitsRun(j, job[j])
    BY DEF MediaInv, QuotaFits, QuotaFitsRun
  <2>2. <<d>> = <<j>> <=> d = j
    OBVIOUS
  <2>3. CASE d # j
    <3>1. size = 0
      <4>1. job[j].listed = {}
        BY <1>2, <1>3, <2>1, <2>2, <2>3 DEF QuotaFitsRun
      <4>2. Bytes(disk[d], {}) = {}
        BY DEF Bytes
      <4> QED
        BY <4>1, <4>2, FS_EmptySet DEF Sizes, size
    <3>2. job[j].bytes + 0 = job[j].bytes
      BY <1>9
    <3>4. << >> # <<j>>
      OBVIOUS
    <3> QED
      BY <1>2, <1>5, <1>9, <2>1, <3>1, <3>2, <3>4 DEF QuotaFitsRun
  <2>4. CASE d = j
    <3>1. job[j].bytes = 0 /\ j \notin job[j].unseen
      BY <1>2, <1>3, <2>1, <2>4 DEF QuotaFitsRun
    <3>2. \A p \in DOMAIN disk[j] :
            p \in DOMAIN job[j].post /\ disk[j][p].size = job[j].post[p].size
      BY <1>1, <1>2 DEF FilesFit, FileFits, Busy
    <3>3. Bytes(disk[j], job[j].listed) \subseteq Bytes(job[j].post, DOMAIN job[j].post)
      BY <3>2 DEF Bytes
    <3>4. IsFiniteSet(Bytes(job[j].post, DOMAIN job[j].post))
      BY <1>1, PostFacts, BytesAreFinite
    <3>5. size <= Sizes(job[j].post, DOMAIN job[j].post)
      BY <2>4, <3>3, <3>4, SizesAreMonotonic DEF Sizes, size
    <3>6. new.bytes = size /\ << >> # <<j>>
      BY <1>4, <1>5, <1>9, <3>1
    <3>7. new.outcome = "none"
      BY <1>1, <1>2, <1>5 DEF StepFits, Busy
    <3> QED
      BY <1>5, <1>9, <3>1, <3>5, <3>6, <3>7 DEF QuotaFitsRun
  <2> QED
    BY <2>3, <2>4
<1>8. AdmissionFits'
  <2>1. PICK counted :
          /\ Counts(counted)
          /\ \A A \in SUBSET Jobs :
               Companions(A) => \E m \in A : \A i \in A : Covers(counted, m, i)
    BY DEF MediaInv, AdmissionFits
  <2> DEFINE seen == {d} \X Bytes(disk[d], job[j].listed)
  <2>9. PICK next :
          next = [m \in Jobs |-> IF m = j THEN counted[j] \union seen ELSE counted[m]]
    OBVIOUS
  <2>2. job'[j] = new /\ disk' = disk /\ \A i \in Jobs : i # j => job'[i] = job[i]
    BY <1>1, <1>2, <1>6
  <2>3. next[j] = counted[j] \union seen /\ \A m \in Jobs : m # j => next[m] = counted[m]
    BY <2>9
  <2>4. IsFiniteSet(seen) /\ Cardinality(seen) = size
    <3>1. IsFiniteSet({d}) /\ Cardinality({d}) = 1
      BY FS_Singleton
    <3>2. IsFiniteSet(seen) /\ Cardinality(seen) = 1 * size
      BY <1>4, <3>1, FS_Product DEF Sizes, size
    <3> QED
      BY <1>4, <3>2
  <2> HIDE DEF seen
  <2>5. Counts(next)'
    <3>1. IsFiniteSet(counted[j]) /\ Cardinality(counted[j]) <= job[j].bytes
      BY <1>2, <2>1 DEF Counts, Busy
    <3>2. IsFiniteSet(next[j]) /\ Cardinality(next[j]) <= new.bytes
      <4>1. IsFiniteSet(counted[j] \union seen) /\ IsFiniteSet(counted[j] \cap seen)
            /\ Cardinality(counted[j] \union seen) =
                 Cardinality(counted[j]) + Cardinality(seen) - Cardinality(counted[j] \cap seen)
        BY <2>4, <3>1, FS_Union, FS_Intersection
      <4>2. /\ Cardinality(counted[j]) \in Nat /\ Cardinality(seen) \in Nat
            /\ Cardinality(counted[j] \cap seen) \in Nat
        BY <2>4, <3>1, <4>1, FS_CardinalityType
      <4> QED
        BY <1>5, <1>9, <2>3, <2>4, <3>1, <4>1, <4>2
    <3> QED
      BY <2>1, <2>2, <2>3, <3>2 DEF Counts
  <2>6. \A m \in Jobs : job'[m].step \in Busy =>
          job[m].step \in Busy /\ job'[m].user = job[m].user
    BY <1>2, <1>5, <1>9, <2>2 DEF Busy
  <2>7. \A i : OriginalBytes(i)' = OriginalBytes(i) /\ Originals(i)' = Originals(i)
    BY <2>2 DEF OriginalBytes, Originals
  <2>8. ASSUME NEW m \in Jobs, NEW i \in Jobs, Covers(counted, m, i)
        PROVE  Covers(next, m, i)'
    <3>1. CASE m # j
      BY <2>2, <2>3, <2>7, <2>8, <3>1 DEF Covers
    <3>2. CASE m = j /\ OriginalBytes(i) \subseteq counted[j]
      BY <2>3, <2>7, <3>2 DEF Covers
    <3>3. CASE m = j /\ i \in job[j].unseen
      BY <1>2, <1>5, <1>9, <2>2, <3>3 DEF Covers
    <3>4. CASE m = j /\ job[j].dir = <<i>> /\ Originals(i) \subseteq job[j].listed
      <4>1. i = d
        BY <1>3, <3>4
      <4>2. Bytes(disk[d], Originals(d)) \subseteq Bytes(disk[d], job[j].listed)
        BY <3>4, <4>1 DEF Bytes
      <4>3. OriginalBytes(d) \subseteq seen
        BY <4>2 DEF OriginalBytes, seen
      <4> QED
        BY <2>3, <2>7, <3>4, <4>1, <4>3 DEF Covers
    <3> QED
      BY <2>8, <3>1, <3>2, <3>3, <3>4 DEF Covers
  <2> QED
    BY <2>1, <2>5, <2>6, <2>8, AdmissionKept
<1> QED
  <2>1. new \in Run /\ job[j].step = "measure"
    BY <1>2, <1>5
  <2>2. UNCHANGED <<disk, cleaner, cleanups, crashes>>
    BY <1>2
  <2>3. new.step \in {"measure", "process"} /\ new.step # "process"
    BY <1>5
  <2>4. /\ new.user = job[j].user /\ new.outcome = job[j].outcome /\ new.todo = job[j].todo
        /\ new.result = job[j].result /\ new.sent = job[j].sent /\ new.post = job[j].post
        /\ new.chat = job[j].chat
    BY <1>5
  <2>5. ~(new.dir = <<j>>)
    <3>1. << >> # <<j>>
      OBVIOUS
    <3> QED
      BY <1>9, <3>1
  <2> QED
    BY <1>6, <1>7, <1>8, <2>1, <2>2, <2>3, <2>4, <2>5, MeasureKeeps

\* A job is admitted only if all that it covers has been counted.
LEMMA CheckQuotaKeeps ==
  ASSUME MediaInv, NEW j \in Jobs, CheckQuota(j)
  PROVE  MediaInv'
<1>1. /\ job[j] \in Run /\ StepFits(job[j])
      /\ job = [i \in Jobs |-> job[i]] /\ disk = [i \in Jobs |-> disk[i]]
  BY RunTypes
<1>2. /\ job[j].step = "measure" /\ job[j].dir = << >>
      /\ \A k \in job[j].unseen : job[k].user # job[j].user
      /\ UNCHANGED <<disk, cleaner, cleanups, crashes>>
  BY DEF CheckQuota, InUserStorage
<1>3. Alone(j) => QuotaFitsRun(j, job[j])
  BY DEF MediaInv, QuotaFits, QuotaFitsRun
<1>4. CASE job[j].bytes > MaxTemp /\ Ends(j, "QUOTA")
  <2>1. Alone(j) => Sizes(job[j].post, DOMAIN job[j].post) > MaxTemp
    <3>1. job[j].bytes \in Nat /\ MaxTemp \in Nat
      BY <1>1, MediaAssumption DEF Run
    <3>2. Sizes(job[j].post, DOMAIN job[j].post) \in Nat
      BY <1>1, PostFacts, BytesAreFinite, FS_CardinalityType DEF Sizes
    <3> QED
      BY <1>2, <1>3, <1>4, <3>1, <3>2 DEF QuotaFitsRun
  <2> QED
    BY <1>2, <1>4, <2>1, EndKeeps DEF Outcomes, Busy
<1>5. CASE job[j].bytes <= MaxTemp /\ job' = [job EXCEPT ![j].step = "process"]
  <2> DEFINE new == [job[j] EXCEPT !.step = "process"]
  <2>1. /\ new \in Run /\ new.step = "process" /\ new.user = job[j].user
        /\ new.outcome = job[j].outcome /\ new.todo = job[j].todo
        /\ new.result = job[j].result /\ new.sent = job[j].sent /\ new.post = job[j].post
        /\ new.chat = job[j].chat /\ new.bytes = job[j].bytes /\ new.dir = << >>
    BY <1>1, <1>2 DEF Run, Steps
  <2>2. job' = [job EXCEPT ![j] = new]
    BY <1>1, <1>5
  <2> HIDE DEF new
  <2>3. Alone(j) => QuotaFitsRun(j, new)
    BY <1>1, <1>2, <2>1 DEF QuotaFitsRun, StepFits, Busy
  <2>4. AdmissionFits'
    <3>1. PICK counted :
            /\ Counts(counted)
            /\ \A A \in SUBSET Jobs :
                 Companions(A) => \E m \in A : \A i \in A : Covers(counted, m, i)
      BY DEF MediaInv, AdmissionFits
    <3>2. job'[j] = new /\ disk' = disk /\ \A i \in Jobs : i # j => job'[i] = job[i]
      BY <1>1, <1>2, <2>2
    <3>3. Counts(counted)'
      BY <1>2, <2>1, <3>1, <3>2 DEF Counts, Busy
    <3>4. \A m \in Jobs : job'[m].step \in Busy =>
            job[m].step \in Busy /\ job'[m].user = job[m].user
      BY <1>2, <2>1, <3>2 DEF Busy
    <3>5. \A i : OriginalBytes(i)' = OriginalBytes(i) /\ Originals(i)' = Originals(i)
      BY <3>2 DEF OriginalBytes, Originals
    <3>6. ASSUME NEW m \in Jobs, NEW i \in Jobs, job'[m].user = job'[i].user,
                 Covers(counted, m, i)
          PROVE  Covers(counted, m, i)'
      <4>1. CASE m # j
        BY <3>2, <3>5, <3>6, <4>1 DEF Covers
      <4>2. CASE m = j
        <5>1. job[i].user = job[j].user
          BY <2>1, <3>2, <3>6, <4>2
        <5>2. <<i>> # << >>
          OBVIOUS
        <5>3. OriginalBytes(i) \subseteq counted[j]
          BY <1>2, <3>6, <4>2, <5>1, <5>2 DEF Covers
        <5> QED
          BY <3>5, <4>2, <5>3 DEF Covers
      <4> QED
        BY <4>1, <4>2
    <3> QED
      BY <3>1, <3>3, <3>4, <3>6, AdmissionKept
  <2>5. ~(new.dir = <<j>>)
    <3>1. << >> # <<j>>
      OBVIOUS
    <3> QED
      BY <2>1, <3>1
  <2> QED
    BY <1>2, <1>5, <2>1, <2>2, <2>3, <2>4, <2>5, MeasureKeeps
<1> QED
  BY <1>4, <1>5 DEF CheckQuota

\* The other ends of a run: what raises is the end of another job of the user or
\* the work of a cleanup.
LEMMA RaisesKeep ==
  ASSUME MediaInv, NEW j \in Jobs,
         \/ \E k \in job[j].unseen : ListRaises(j, k)
         \/ SumRaises(j)
         \/ \E path \in job[j].todo : TooLarge(j, path)
         \/ ProcessRaises(j)
         \/ SendFails(j)
  PROVE  MediaInv'
<1>1. job[j] \in Run /\ IsDirectory(disk[j])
  BY RunTypes
<1>2. cleanups \in Nat /\ (cleanups = 0 => Whole(j, job[j], disk[j]))
  BY MediaAssumption DEF MediaInv, RecordsFit, WholeFits
<1>3. CASE \E k \in job[j].unseen : ListRaises(j, k)
  <2>1. PICK k \in job[j].unseen : ListRaises(j, k)
    BY <1>3
  <2>2. /\ job[j].step = "measure" /\ job[k].user = job[j].user /\ job[k].step = "ended"
        /\ Ends(j, "INTERNAL_ERROR") /\ UNCHANGED <<disk, cleaner, cleanups, crashes>>
    BY <2>1 DEF ListRaises, InUserStorage
  <2>3. k \in Jobs \ {j}
    BY <1>1, <2>2 DEF Run
  <2>4. ~Alone(j)
    BY <2>2, <2>3 DEF Alone
  <2> QED
    BY <2>2, <2>4, EndKeeps DEF Outcomes, Busy
<1>4. CASE SumRaises(j)
  <2>1. /\ job[j].step = "measure" /\ job[j].dir # << >>
        /\ ~(job[j].listed \subseteq DOMAIN disk[job[j].dir[1]])
        /\ Ends(j, "INTERNAL_ERROR") /\ UNCHANGED <<disk, cleaner, cleanups, crashes>>
    BY <1>4 DEF SumRaises
  <2>2. Alone(j) => cleanups > 0
    <3>1. CASE job[j].dir = <<j>>
      <4>1. job[j].dir[1] = j
        BY <3>1
      <4>2. cleanups # 0
        BY <1>2, <2>1, <3>1, <4>1 DEF Whole
      <4> QED
        BY <1>2, <4>2
    <3>2. CASE job[j].dir # <<j>>
      <4>1. Alone(j) => job[j].listed = {}
        BY <2>1, <3>2 DEF MediaInv, QuotaFits
      <4> QED
        BY <2>1, <4>1
    <3> QED
      BY <3>1, <3>2
  <2> QED
    BY <2>1, <2>2, EndKeeps DEF Outcomes, Busy
<1>5. CASE ProcessRaises(j)
  <2>1. /\ job[j].step = "process" /\ disk[j] = NoFiles /\ job[j].todo # {}
        /\ Ends(j, "INTERNAL_ERROR") /\ UNCHANGED <<disk, cleaner, cleanups, crashes>>
    BY <1>5 DEF ProcessRaises
  <2>2. DOMAIN disk[j] = {}
    BY <2>1 DEF NoFiles
  <2>3. cleanups # 0
    BY <1>2, <2>1, <2>2 DEF Whole
  <2>4. cleanups > 0
    BY <1>2, <2>3
  <2> QED
    BY <2>1, <2>4, EndKeeps DEF Outcomes, Busy
<1>6. CASE (\E path \in job[j].todo : TooLarge(j, path)) \/ SendFails(j)
  <2>1. /\ job[j].step \in Busy /\ UNCHANGED <<disk, cleaner, cleanups, crashes>>
        /\ Ends(j, "MEDIA_TOO_LARGE") \/ Ends(j, "TELEGRAM_UPLOAD_FAILED")
    BY <1>6 DEF TooLarge, SendFails, Busy
  <2> QED
    BY <2>1, EndKeeps DEF Outcomes
<1> QED
  BY <1>3, <1>4, <1>5, <1>6

-----------------------------------------------------------------------------
(* Compression and thumbnails                                              *)

\* The files after a result: everything new fits and is no original, and nothing is
\* gone.
Grown(j, files) ==
  /\ DirectoryFits(job[j], files) /\ OriginalsFrom(files, disk[j])
  /\ DOMAIN disk[j] \subseteq DOMAIN files

\* One more result, whose file is an original only if that is the media file itself
\* and within the limit.
LEMMA ProcessedKeeps ==
  ASSUME MediaInv, NEW j \in Jobs, job[j].step = "process", NEW path \in job[j].todo,
         NEW processed \in {path, CompressedPath(path)}, NEW files,
         MediaType(processed) = MediaType(path),
         Grown(j, files),
         processed \in DOMAIN files /\ files[processed].content[1] = "original" =>
           files[processed].size <= MaxFile /\ processed = path,
         Processed(j, path, processed, files),
         path \in PostPaths
  PROVE  MediaInv'
<1> DEFINE item == [for |-> path, path |-> processed]
           step == IF job[j].todo = {path} THEN "send" ELSE "process"
           result == Append(job[j].result, item)
           thumbnail(size) == [content |-> <<"thumbnail", path>>, size |-> size, old |-> FALSE]
           new == [job[j] EXCEPT !.todo = @ \ {path}, !.result = result, !.step = step]
<1>1. /\ job[j] \in Run /\ IsDirectory(disk[j])
      /\ ResultsFit(job[j]) /\ ChatFits(job[j]) /\ StepFits(job[j])
      /\ FilesFit(job[j], disk[j])
      /\ job = [k \in Jobs |-> job[k]] /\ disk = [k \in Jobs |-> disk[k]]
  BY RunTypes
<1>2. processed \in Paths /\ processed[1] = path[1]
  BY OutputPaths
<1>3. item \in Result /\ item.for = path /\ item.path = processed
  BY <1>2 DEF Result
<1>4. job[j].result \in Seq(Result) /\ step \in Steps
  BY <1>1 DEF Run, Steps
<1> HIDE DEF item
<1>5. /\ result \in Seq(Result) /\ Len(result) = Len(job[j].result) + 1
      /\ DOMAIN result = 1..Len(job[j].result) + 1
      /\ DOMAIN job[j].result = 1..Len(job[j].result) /\ Len(job[j].result) \in Nat
      /\ \A i \in 1..Len(job[j].result) : result[i] = job[j].result[i]
      /\ result[Len(job[j].result) + 1] = item
  BY <1>3, <1>4, AppendFacts
<1> HIDE DEF result
<1>6. /\ new \in Run /\ new.user = job[j].user
      /\ new.outcome = job[j].outcome /\ new.todo = job[j].todo \ {path}
      /\ new.result = result /\ new.sent = job[j].sent /\ new.post = job[j].post
      /\ new.chat = job[j].chat /\ new.bytes = job[j].bytes
  <2> HIDE DEF step
  <2> QED
    BY <1>1, <1>4, <1>5 DEF Run
<1>7. new.step = step
  <2> HIDE DEF step
  <2> QED
    BY <1>1 DEF Run
<1>8. job' = [job EXCEPT ![j] = new]
  BY <1>1 DEF Processed, item, result
<1>9. path \in Media(job[j].post)
  BY <1>1 DEF ResultsFit
<1>10. PICK after :
         /\ disk' = [disk EXCEPT ![j] = after]
         /\ \/ after = files
            \/ /\ MediaType(processed) = "video"
               /\ \E size \in Thumbnails :
                    after = Put(files, ThumbnailPath(processed), thumbnail(size))
  <2> HIDE DEF new
  <2>1. CASE MediaType(processed) # "video" \/ processed \notin DOMAIN files
    BY <2>1 DEF Processed
  <2>2. CASE ~(MediaType(processed) # "video" \/ processed \notin DOMAIN files)
    BY <2>2 DEF Processed
  <2> QED
    BY <2>1, <2>2
<1>11. /\ DirectoryFits(job[j], after) /\ OriginalsFrom(after, files)
       /\ DOMAIN files \subseteq DOMAIN after
  <2>1. CASE after = files
    BY <2>1 DEF Grown, OriginalsFrom
  <2>2. CASE /\ MediaType(processed) = "video"
             /\ \E size \in Thumbnails :
                  after = Put(files, ThumbnailPath(processed), thumbnail(size))
    <3>1. PICK size \in Thumbnails :
            after = Put(files, ThumbnailPath(processed), thumbnail(size))
      BY <2>2
    <3>2. PICK image : image = thumbnail(size)
      OBVIOUS
    <3>3. size \in Nat
      BY MediaAssumption
    <3>4. image \in File /\ image.content = <<"thumbnail", path>>
      BY <3>2, <3>3 DEF File, Contents
    <3>5. /\ ThumbnailPath(processed) \in Paths /\ ThumbnailPath(processed)[1] = path[1]
          /\ MediaType(ThumbnailPath(processed)) = "photo"
      BY OutputPaths
    <3> DEFINE q == ThumbnailPath(processed)
    <3>6. after = Put(files, q, image)
      BY <3>1, <3>2
    <3>7. image.content[1] = "thumbnail" /\ image.content[2] = path
      BY <3>4
    <3> HIDE DEF q
    <3>8. q \in Paths /\ q[1] = path[1] /\ MediaType(q) = "photo"
      BY <3>5 DEF q
    <3>9. MediaType(path) = "video"
      BY <2>2
    <3>10. OutputFits(job[j], q, image)
      BY <1>9, <3>4, <3>7, <3>8, <3>9 DEF OutputFits
    <3> QED
      BY <1>1, <3>6, <3>10, PutFits DEF Grown
  <2> QED
    BY <1>10, <2>1, <2>2
<1> HIDE DEF new
<1>12. ResultsFit(new)
  <2>1. /\ job[j].todo \subseteq Media(job[j].post)
        /\ Len(job[j].result) + Cardinality(job[j].todo) = Cardinality(Media(job[j].post))
        /\ job[j].sent = Len(job[j].chat) /\ job[j].sent <= Len(job[j].result)
        /\ \A n \in DOMAIN job[j].result :
             /\ job[j].result[n].for \in Media(job[j].post)
             /\ job[j].result[n].path[1] = job[j].result[n].for[1]
             /\ MediaType(job[j].result[n].path) = MediaType(job[j].result[n].for)
        /\ \A p \in Media(job[j].post) :
             p \in job[j].todo \/ \E n \in DOMAIN job[j].result : job[j].result[n].for = p
        /\ \A n \in DOMAIN job[j].chat : job[j].chat[n].for = job[j].result[n].for
    BY <1>1 DEF ResultsFit
  <2>2. Len(result) + Cardinality(new.todo) = Cardinality(Media(new.post))
    <3>1. IsFiniteSet(job[j].todo)
      BY <1>1, <2>1, PostFacts, FS_Subset
    <3>2. IsFiniteSet(new.todo) /\ Cardinality(new.todo) = Cardinality(job[j].todo) - 1
      BY <1>6, <3>1, FS_RemoveElement
    <3>3. Cardinality(job[j].todo) \in Nat
      BY <3>1, FS_CardinalityType
    <3>4. Len(result) = Len(job[j].result) + 1 /\ Len(job[j].result) \in Nat
      BY <1>5
    <3>5. Len(job[j].result) + Cardinality(job[j].todo) = Cardinality(Media(new.post))
      BY <1>6, <2>1
    <3> QED
      BY <3>2, <3>3, <3>4, <3>5
  <2>3. new.sent = Len(new.chat) /\ new.sent <= Len(new.result)
    <3>1. job[j].sent \in Nat
      BY <1>1 DEF Run
    <3> QED
      BY <1>5, <1>6, <2>1, <3>1
  <2>4. ASSUME NEW n \in DOMAIN new.result
        PROVE  /\ new.result[n].for \in Media(new.post)
               /\ new.result[n].path[1] = new.result[n].for[1]
               /\ MediaType(new.result[n].path) = MediaType(new.result[n].for)
    <3>1. CASE n \in 1..Len(job[j].result)
      BY <1>5, <1>6, <2>1, <3>1
    <3>2. CASE n = Len(job[j].result) + 1
      BY <1>2, <1>3, <1>5, <1>6, <1>9, <3>2
    <3>3. n \in 1..Len(job[j].result) + 1
      BY <1>5, <1>6
    <3>4. n \in 1..Len(job[j].result) \/ n = Len(job[j].result) + 1
      BY <1>5, <3>3
    <3> QED
      BY <3>1, <3>2, <3>4
  <2>5. ASSUME NEW p \in Media(new.post)
        PROVE  p \in new.todo \/ \E n \in DOMAIN new.result : new.result[n].for = p
    <3>1. CASE p = path
      BY <1>3, <1>5, <1>6, <3>1
    <3>2. CASE p # path
      BY <1>5, <1>6, <2>1, <3>2
    <3> QED
      BY <3>1, <3>2
  <2>6. new.chat = << >>
    BY <1>1, <1>6 DEF StepFits
  <2>7. \A n \in DOMAIN new.chat : new.chat[n].for = new.result[n].for
    BY <2>6
  <2>8. new.todo \subseteq Media(new.post)
    BY <1>6, <2>1
  <2> QED
    BY <1>6, <2>2, <2>3, <2>4, <2>5, <2>7, <2>8 DEF ResultsFit
<1>13. ChatFits(new) /\ StepFits(new)
  <2>1. /\ job[j].outcome = "none" /\ job[j].chat = << >> /\ job[j].bytes <= MaxTemp
        /\ job[j].sent = 0
    BY <1>1, LenProperties DEF StepFits, ResultsFit, Busy
  <2>2. job[j].todo = {path} => new.todo = {}
    BY <1>6
  <2>3. 0 < Len(result)
    BY <1>5
  <2> QED
    BY <1>6, <1>7, <2>1, <2>2, <2>3 DEF ChatFits, StepFits, Busy
<1>14. FilesFit(new, after)
  <2>1. \A p \in DOMAIN after : FileFits(new, after, p)
    BY <1>6, <1>11 DEF DirectoryFits, FileFits
  <2>2. ASSUME NEW n \in DOMAIN new.result,
               result[n].path \in DOMAIN after,
               after[result[n].path].content[1] = "original"
        PROVE  after[result[n].path].size <= MaxFile /\ result[n].path = result[n].for
    <3>1. CASE n = Len(job[j].result) + 1
      BY <1>3, <1>5, <1>11, <2>2, <3>1 DEF OriginalsFrom
    <3>2. CASE n \in 1..Len(job[j].result)
      <4>1. result[n].path = job[j].result[n].path
        BY <1>5, <3>2
      <4>2. /\ result[n].path \in DOMAIN disk[j]
            /\ after[result[n].path] = disk[j][result[n].path]
        BY <1>11, <2>2 DEF Grown, OriginalsFrom
      <4> QED
        BY <1>1, <1>5, <2>2, <3>2, <4>1, <4>2 DEF FilesFit, Busy
    <3> QED
      BY <1>5, <1>6, <3>1, <3>2
  <2>3. new.step \in {"process", "send"}
    BY <1>7
  <2> QED
    BY <1>6, <2>1, <2>2, <2>3 DEF FilesFit, Busy
<1>15. QuotaFitsRun(j, new)
  BY <1>1, <1>6, <1>7 DEF QuotaFitsRun, StepFits, Busy
<1>16. AdmissionFits'
  <2>1. \A p \in DOMAIN after : after[p].content[1] = "original" =>
          p \in DOMAIN disk[j] /\ after[p] = disk[j][p]
    BY <1>11 DEF Grown, OriginalsFrom
  <2> QED
    BY <1>1, <1>6, <1>8, <1>10, <2>1, AdmissionUndisturbed DEF MediaInv, Busy
<1>17. crashes' \in 0..MaxCrashes /\ UNCHANGED <<cleaner, cleanups>>
  BY DEF Processed, MediaInv, RecordsFit
<1>18. new.step # "download"
  BY <1>7
<1>19. IsDirectory(after)
  BY <1>11 DEF DirectoryFits
<1>20. cleanups = 0 => Whole(j, new, after)
  <2>1. cleanups = 0 => job[j].todo \subseteq DOMAIN disk[j]
    BY DEF MediaInv, WholeFits, Whole
  <2>2. DOMAIN disk[j] \subseteq DOMAIN after /\ new.todo \subseteq job[j].todo
    BY <1>6, <1>11 DEF Grown
  <2>3. new.step # "measure"
    BY <1>7
  <2> QED
    BY <2>1, <2>2, <2>3 DEF Whole
<1> QED
  BY <1>6, <1>8, <1>12, <1>13, <1>14, <1>15, <1>16, <1>17, <1>18, <1>19, <1>10, <1>20,
     OneJobKeeps

\* The files before a result.
LEMMA DiskHasGrown ==
  ASSUME MediaInv, NEW j \in Jobs, job[j].step = "process"
  PROVE  /\ Grown(j, disk[j])
         /\ job[j].todo \subseteq Media(job[j].post) /\ job[j].todo \subseteq PostPaths
<1>1. /\ job[j] \in Run /\ IsDirectory(disk[j]) /\ ResultsFit(job[j])
      /\ FilesFit(job[j], disk[j])
  BY RunTypes
<1>2. Grown(j, disk[j])
  BY <1>1 DEF Grown, DirectoryFits, OriginalsFrom, FilesFit, Busy
<1> QED
  BY <1>1, <1>2, PostFacts DEF ResultsFit

\* A file within the limit is sent from where the engine left it.
LEMMA ProcessFileKeeps ==
  ASSUME MediaInv, NEW j \in Jobs, NEW path \in job[j].todo, ProcessFile(j, path)
  PROVE  MediaInv'
<1>1. /\ job[j].step = "process" /\ job[j].post[path].size <= MaxFile
      /\ Processed(j, path, path, disk[j])
  BY DEF ProcessFile
<1>2. Grown(j, disk[j]) /\ path \in PostPaths
  BY <1>1, DiskHasGrown
<1>3. path \in DOMAIN disk[j] /\ disk[j][path].content[1] = "original" =>
        disk[j][path].size <= MaxFile
  BY <1>1, <1>2 DEF Grown, DirectoryFits, FileFits
<1> QED
  BY <1>1, <1>2, <1>3, ProcessedKeeps

\* A video over the limit is sent from its compressed form.
LEMMA CompressKeeps ==
  ASSUME MediaInv, NEW j \in Jobs, NEW path \in job[j].todo, Compress(j, path)
  PROVE  MediaInv'
<1>1. job[j].step = "process" /\ MediaType(path) = "video"
  BY DEF Compress
<1>2. PICK size \in 1..MaxFile :
        Processed(j, path, CompressedPath(path),
                  Put(disk[j], CompressedPath(path),
                      [content |-> <<"compressed", path>>, size |-> size, old |-> FALSE]))
  BY DEF Compress
<1> DEFINE file == [content |-> <<"compressed", path>>, size |-> size, old |-> FALSE]
           q == CompressedPath(path)
           files == Put(disk[j], q, file)
<1>3. Grown(j, disk[j]) /\ path \in PostPaths /\ path \in Media(job[j].post)
  BY <1>1, DiskHasGrown
<1>4. /\ file \in File /\ file.content[1] = "compressed" /\ file.content[2] = path
      /\ file.size <= MaxFile
  BY <1>3, MediaAssumption DEF File, Contents
<1>5. q \in Paths /\ q[1] = path[1] /\ MediaType(q) = "video"
  BY <1>3, OutputPaths
<1>6. job[j] \in Run
  BY RunTypes
<1> HIDE DEF file, q
<1>7. OutputFits(job[j], q, file)
  BY <1>3, <1>4, <1>5 DEF OutputFits
<1>8. Processed(j, path, q, files)
  BY <1>2 DEF file, q
<1> HIDE DEF files
<1>9. Grown(j, files) /\ files[q] = file
  BY <1>3, <1>6, <1>7, PutFits DEF Grown, files
<1>10. ~(files[q].content[1] = "original")
  BY <1>4, <1>9
<1>11. q \in {path, CompressedPath(path)}
  BY DEF q
<1>12. MediaType(q) = MediaType(path)
  BY <1>1, <1>5
<1> QED
  BY <1>1, <1>3, <1>8, <1>9, <1>10, <1>11, <1>12, ProcessedKeeps

-----------------------------------------------------------------------------
(* The upload and the end of the run                                       *)

\* What a path holds when it is sent.
LEMMA SendFileKeeps ==
  ASSUME MediaInv, NEW j \in Jobs, SendFile(j)
  PROVE  MediaInv'
<1> DEFINE n == job[j].sent + 1
           for == job[j].result[n].for
           path == job[j].result[n].path
           file == disk[j][path]
           message == [for |-> for, content |-> file.content, size |-> file.size,
                       type |-> MediaType(path)]
           chat == Append(job[j].chat, message)
           last == n = Len(job[j].result)
           step == IF last THEN "finally" ELSE "send"
           outcome == IF last THEN "ok" ELSE "none"
           new == [job[j] EXCEPT !.sent = n, !.chat = chat, !.step = step, !.outcome = outcome]
<1>1. /\ job[j] \in Run /\ IsDirectory(disk[j])
      /\ ResultsFit(job[j]) /\ ChatFits(job[j]) /\ StepFits(job[j])
      /\ FilesFit(job[j], disk[j])
      /\ job = [k \in Jobs |-> job[k]] /\ disk = [k \in Jobs |-> disk[k]]
  BY RunTypes
<1>2. job[j].step = "send" /\ path \in DOMAIN disk[j]
      /\ UNCHANGED <<disk, cleaner, cleanups, crashes>>
  BY DEF SendFile, Current
<1>3. job' = [job EXCEPT ![j] = new] /\ disk' = [disk EXCEPT ![j] = disk[j]]
  BY <1>1, <1>2 DEF SendFile, Current
<1>4. /\ job[j].sent \in Nat /\ job[j].result \in Seq(Result) /\ job[j].chat \in Seq(Message)
      /\ Len(job[j].result) \in Nat /\ DOMAIN job[j].result = 1..Len(job[j].result)
      /\ job[j].sent = Len(job[j].chat) /\ job[j].sent < Len(job[j].result)
      /\ job[j].todo = {} /\ job[j].outcome = "none"
  BY <1>1, <1>2, LenProperties DEF Run, StepFits, ResultsFit, Busy
<1>5. n \in DOMAIN job[j].result /\ n \in Nat /\ n <= Len(job[j].result)
  BY <1>4
<1>6. job[j].result[n] \in Result
  BY <1>4, <1>5
<1>7. file \in File /\ FileFits(job[j], disk[j], path)
  BY <1>1, <1>2 DEF IsDirectory, FilesFit, Busy
<1>8. for \in Media(job[j].post) /\ path[1] = for[1] /\ MediaType(path) = MediaType(for)
  BY <1>1, <1>5 DEF ResultsFit
<1>9. file.content[1] \in {"original", "compressed", "thumbnail"}
  BY <1>7 DEF File, Contents
<1>10. file.content[1] = "original" => file.size <= MaxFile /\ path = for
  BY <1>1, <1>2, <1>5 DEF FilesFit, Busy
<1>11. file.content[1] # "thumbnail" => file.size <= MaxFile
  BY <1>7, <1>9, <1>10 DEF FileFits
<1>12. (\A p \in Media(job[j].post) : p[1] = for[1] => p = for) =>
         /\ file.content[1] \in {"original", "compressed"} /\ file.content[2] = for
  <2> SUFFICES ASSUME \A p \in Media(job[j].post) : p[1] = for[1] => p = for
               PROVE  file.content[1] \in {"original", "compressed"} /\ file.content[2] = for
    OBVIOUS
  <2>1. file.content[2] = for
    BY <1>7, <1>8, <1>10 DEF FileFits
  <2>2. file.content[1] # "thumbnail"
    BY <1>7, <1>8, <2>1 DEF FileFits
  <2> QED
    BY <1>9, <2>1, <2>2
<1>13. /\ message \in Message /\ message.for = for /\ message.content = file.content
       /\ message.size = file.size /\ message.type = MediaType(path)
  BY <1>6, <1>7, MediaTypes DEF Message, Result, File
<1> HIDE DEF message
<1>14. /\ chat \in Seq(Message) /\ Len(chat) = n /\ DOMAIN chat = 1..n
       /\ DOMAIN job[j].chat = 1..job[j].sent
       /\ \A i \in 1..job[j].sent : chat[i] = job[j].chat[i]
       /\ chat[n] = message
  BY <1>4, <1>13, AppendFacts
<1>15. step \in Steps /\ outcome \in Outcomes
  BY DEF Steps, Outcomes
<1> HIDE DEF chat, n
<1>16. /\ new \in Run /\ new.user = job[j].user /\ new.todo = {}
       /\ new.result = job[j].result /\ new.sent = n /\ new.post = job[j].post
       /\ new.chat = chat /\ new.bytes = job[j].bytes
  <2> HIDE DEF step, outcome
  <2> QED
    BY <1>1, <1>4, <1>5, <1>14, <1>15 DEF Run
<1>17. new.step = step /\ new.outcome = outcome
  <2> HIDE DEF step, outcome
  <2> QED
    BY <1>1 DEF Run
<1> HIDE DEF new
<1>18. \A i \in 1..n : i \in 1..job[j].sent \/ i = n
  BY <1>4 DEF n
<1>19. ResultsFit(new)
  <2>1. \A i \in DOMAIN new.chat : new.chat[i].for = new.result[i].for
    BY <1>1, <1>13, <1>14, <1>16, <1>18 DEF ResultsFit
  <2>2. new.sent = Len(new.chat) /\ new.sent <= Len(new.result)
    BY <1>5, <1>14, <1>16
  <2>3. /\ job[j].todo \subseteq Media(job[j].post)
        /\ Len(job[j].result) + Cardinality(job[j].todo) = Cardinality(Media(job[j].post))
        /\ \A i \in DOMAIN job[j].result :
             /\ job[j].result[i].for \in Media(job[j].post)
             /\ job[j].result[i].path[1] = job[j].result[i].for[1]
             /\ MediaType(job[j].result[i].path) = MediaType(job[j].result[i].for)
        /\ \A p \in Media(job[j].post) :
             p \in job[j].todo \/ \E i \in DOMAIN job[j].result : job[j].result[i].for = p
    BY <1>1 DEF ResultsFit
  <2>4. new.todo = job[j].todo
    BY <1>4, <1>16
  <2>5. /\ new.todo \subseteq Media(new.post)
        /\ Len(new.result) + Cardinality(new.todo) = Cardinality(Media(new.post))
    BY <1>16, <2>3, <2>4
  <2>6. \A i \in DOMAIN new.result :
          /\ new.result[i].for \in Media(new.post)
          /\ new.result[i].path[1] = new.result[i].for[1]
          /\ MediaType(new.result[i].path) = MediaType(new.result[i].for)
    BY <1>16, <2>3
  <2>7. \A p \in Media(new.post) :
          p \in new.todo \/ \E i \in DOMAIN new.result : new.result[i].for = p
    BY <1>16, <2>3, <2>4
  <2> QED
    BY <2>1, <2>2, <2>5, <2>6, <2>7 DEF ResultsFit
<1>20. ChatFits(new)
  <2> SUFFICES ASSUME NEW i \in 1..n
               PROVE  /\ chat[i].content[1] # "thumbnail" => chat[i].size <= MaxFile
                      /\ (\A p \in Media(job[j].post) :
                            p[1] = chat[i].for[1] => p = chat[i].for) =>
                           /\ chat[i].content[1] \in {"original", "compressed"}
                           /\ chat[i].content[2] = chat[i].for
                           /\ chat[i].type = MediaType(chat[i].for)
    BY <1>14, <1>16 DEF ChatFits
  <2>1. CASE i \in 1..job[j].sent
    BY <1>1, <1>14, <2>1 DEF ChatFits
  <2>2. CASE i = n
    BY <1>8, <1>12, <1>13, <1>14, <1>11, <2>2
  <2> QED
    BY <1>18, <2>1, <2>2
<1>21. StepFits(new)
  <2>1. ~last => n < Len(job[j].result)
    BY <1>4, <1>5
  <2>2. job[j].bytes <= MaxTemp
    BY <1>1, <1>2 DEF StepFits
  <2> QED
    BY <1>16, <1>17, <2>1, <2>2 DEF StepFits, Busy
<1>22. FilesFit(new, disk[j])
  <2>1. new.step \notin {"download", "ended", "measure"}
    BY <1>17
  <2> QED
    BY <1>1, <1>2, <1>16, <2>1 DEF FilesFit, FileFits, Busy
<1>23. QuotaFitsRun(j, new)
  BY <1>17 DEF QuotaFitsRun
<1>24. AdmissionFits'
  BY <1>1, <1>2, <1>3, <1>16, AdmissionUndisturbed DEF MediaInv, Busy
<1>25. crashes' \in 0..MaxCrashes /\ UNCHANGED <<cleaner, cleanups>>
  BY <1>2 DEF MediaInv, RecordsFit
<1>26. new.step # "download" /\ Whole(j, new, disk[j])
  BY <1>17 DEF Whole
<1> QED
  BY <1>1, <1>2, <1>3, <1>16, <1>19, <1>20, <1>21, <1>22, <1>23, <1>24, <1>25, <1>26,
     OneJobKeeps

\* The directory is emptied and the run forgotten.
LEMMA CleanUpKeeps ==
  ASSUME MediaInv, NEW j \in Jobs, CleanUp(j)
  PROVE  MediaInv'
<1> DEFINE new == EmptyRun(job[j].user, "ended")
<1>1. /\ job[j].step = "finally" /\ UNCHANGED <<cleaner, cleanups, crashes>>
      /\ job' = [job EXCEPT ![j] = new] /\ disk' = [disk EXCEPT ![j] = NoFiles]
  BY DEF CleanUp, EmptyRun
<1>2. /\ job = [k \in Jobs |-> job[k]] /\ disk = [k \in Jobs |-> disk[k]]
      /\ job[j].user \in Users
  BY RunTypes DEF Run
<1>3. PICK r : r = new
  OBVIOUS
<1> HIDE DEF new
<1>9. IsEmptyRun(r, job[j].user, "ended")
  BY <1>3 DEF new, IsEmptyRun
<1>4. /\ r \in Run /\ r.user = job[j].user /\ r.step = "ended" /\ r.outcome = "none"
      /\ ResultsFit(r) /\ ChatFits(r) /\ StepFits(r)
  BY <1>2, <1>9, EmptyRunFits
<1>5. IsDirectory(NoFiles) /\ FilesFit(r, NoFiles)
  <2>1. DOMAIN NoFiles = {}
    BY DEF NoFiles
  <2> QED
    BY <1>4, <2>1, FS_EmptySet DEF IsDirectory, FilesFit, Busy
<1>6. AdmissionFits'
  BY <1>1, <1>2, <1>3, <1>4, AdmissionUndisturbed DEF MediaInv, Busy
<1>7. QuotaFitsRun(j, r) /\ Whole(j, r, NoFiles)
  BY <1>4 DEF QuotaFitsRun, Whole
<1>8. crashes' \in 0..MaxCrashes
  BY <1>1 DEF MediaInv, RecordsFit
<1> QED
  BY <1>1, <1>3, <1>4, <1>5, <1>6, <1>7, <1>8, OneJobKeeps

\* The run is forgotten and the directory left.
LEMMA CrashKeeps ==
  ASSUME MediaInv, NEW j \in Jobs, Crash(j)
  PROVE  MediaInv'
<1> DEFINE new == EmptyRun(job[j].user, "dead")
<1>1. /\ job[j].step # "dead" /\ UNCHANGED <<disk, cleaner, cleanups>>
      /\ job' = [job EXCEPT ![j] = new] /\ crashes < MaxCrashes /\ crashes' = crashes + 1
  BY DEF Crash, EmptyRun
<1>2. /\ job = [k \in Jobs |-> job[k]] /\ disk = [k \in Jobs |-> disk[k]]
      /\ job[j].user \in Users /\ IsDirectory(disk[j])
  BY RunTypes DEF Run
<1>3. PICK r : r = new
  OBVIOUS
<1> HIDE DEF new
<1>9. IsEmptyRun(r, job[j].user, "dead")
  BY <1>3 DEF new, IsEmptyRun
<1>4. /\ r \in Run /\ r.user = job[j].user /\ r.step = "dead" /\ r.outcome = "none"
      /\ ResultsFit(r) /\ ChatFits(r) /\ StepFits(r)
  BY <1>2, <1>9, EmptyRunFits
<1>5. FilesFit(r, disk[j]) /\ QuotaFitsRun(j, r) /\ Whole(j, r, disk[j])
  BY <1>4 DEF FilesFit, QuotaFitsRun, Whole, Busy
<1>6. disk' = [disk EXCEPT ![j] = disk[j]]
  BY <1>1, <1>2
<1>7. AdmissionFits'
  BY <1>1, <1>2, <1>3, <1>4, <1>6, AdmissionUndisturbed DEF MediaInv, Busy
<1>8. crashes' \in 0..MaxCrashes
  BY <1>1, MediaAssumption DEF MediaInv, RecordsFit
<1> QED
  BY <1>1, <1>2, <1>3, <1>4, <1>5, <1>6, <1>7, <1>8, OneJobKeeps

\* What a dead worker left gets older.
LEMMA ExpireKeeps ==
  ASSUME MediaInv, NEW j \in Jobs, Expire(j)
  PROVE  MediaInv'
<1> USE DEF MediaInv
<1> DEFINE older == [p \in DOMAIN disk[j] |-> [disk[j][p] EXCEPT !.old = TRUE]]
<1>1. /\ job[j].step = "dead" /\ UNCHANGED <<job, cleaner, cleanups, crashes>>
      /\ disk' = [disk EXCEPT ![j] = older]
  BY DEF Expire
<1>2. disk = [k \in Jobs |-> disk[k]] /\ IsDirectory(disk[j])
  BY RunTypes
<1>3. disk'[j] = older /\ \A k \in Jobs : k # j => disk'[k] = disk[k]
  BY <1>1, <1>2
<1>4. DOMAIN older = DOMAIN disk[j]
      /\ \A p \in DOMAIN disk[j] : older[p] \in File /\ older[p].old = TRUE
  <2>1. \A p \in DOMAIN disk[j] : disk[j][p] \in File
    BY <1>2 DEF IsDirectory
  <2> QED
    BY <2>1 DEF File
<1> HIDE DEF older
<1>5. RecordsFit'
  <2>1. disk' = [k \in Jobs |-> disk'[k]]
    BY <1>1, <1>2
  <2>2. \A k \in Jobs : IsDirectory(disk'[k])
    BY <1>2, <1>3, <1>4 DEF RecordsFit, IsDirectory
  <2> QED
    BY <1>1, <2>1, <2>2 DEF RecordsFit, IsDirectory
<1>6. RunsFit'
  <2>1. FilesFit(job[j], older)
    BY <1>1 DEF FilesFit, Busy
  <2>2. \A k \in Jobs : FilesFit(job[k], disk'[k])
    BY <1>3, <2>1 DEF RunsFit
  <2>3. \A k \in Jobs : job'[k] = job[k]
    BY <1>1
  <2> QED
    BY <2>2, <2>3 DEF RunsFit
<1>7. QuotaFits'
  BY <1>1 DEF QuotaFits, Alone
<1>8. AdmissionFits'
  <2>1. PICK counted :
          /\ Counts(counted)
          /\ \A A \in SUBSET Jobs :
               Companions(A) => \E m \in A : \A k \in A : Covers(counted, m, k)
    BY DEF AdmissionFits
  <2>2. Counts(counted)'
    BY <1>1, <2>1 DEF Counts
  <2>3. \A m, k \in Jobs : job[k].step \in Busy /\ Covers(counted, m, k) => Covers(counted, m, k)'
    BY <1>1, <1>3 DEF Covers, OriginalBytes, Originals, Busy
  <2> QED
    BY <1>1, <2>1, <2>2, <2>3, AdmissionKept
<1>9. CleanerFits'
  BY <1>1, <1>3, <1>4 DEF CleanerFits
<1>10. WholeFits'
  BY <1>1, <1>3 DEF WholeFits, Whole
<1> QED
  BY <1>5, <1>6, <1>7, <1>8, <1>9, <1>10

-----------------------------------------------------------------------------
(* cleanup-once                                                            *)

\* Only the cleaner moves.
LEMMA CleanerAlone ==
  ASSUME MediaInv, UNCHANGED <<job, disk, crashes>>,
         cleanups' \in 0..MaxCleanups, cleaner' \in Cleaner, CleanerFits',
         cleanups > 0 => cleanups' > 0,
         cleanups' = 0 => cleanups = 0 /\ cleaner'.step = "off"
  PROVE  MediaInv'
<1> USE DEF MediaInv
<1>1. RecordsFit' /\ RunsFit'
  BY DEF RecordsFit, IsDirectory, RunsFit
<1>2. QuotaFits'
  BY DEF QuotaFits, Alone
<1>3. WholeFits'
  BY DEF WholeFits, Whole
<1>4. AdmissionFits'
  <2>1. PICK counted :
          /\ Counts(counted)
          /\ \A A \in SUBSET Jobs :
               Companions(A) => \E m \in A : \A k \in A : Covers(counted, m, k)
    BY DEF AdmissionFits
  <2>2. Counts(counted)'
    BY <2>1 DEF Counts
  <2>3. \A m, k \in Jobs : Covers(counted, m, k) => Covers(counted, m, k)'
    BY DEF Covers, OriginalBytes, Originals
  <2> QED
    BY <2>1, <2>2, <2>3, AdmissionKept
<1> QED
  BY <1>1, <1>4, <1>2, <1>3

\* What is due when a cleanup begins lies in directories it has still to see.
LEMMA CleanerStartsKeeps ==
  ASSUME MediaInv, CleanerStarts
  PROVE  MediaInv'
<1>1. /\ cleaner' = [Resting EXCEPT !.step = "run", !.unseen = Directories, !.due = Leftovers]
      /\ UNCHANGED <<job, disk, crashes>>
      /\ cleanups < MaxCleanups /\ cleanups' = cleanups + 1
  BY DEF CleanerStarts
<1>2. Directories \subseteq Jobs
  BY DEF Directories
<1>3. \A e \in Leftovers : /\ e \in Jobs \X Paths /\ job[e[1]].step = "dead"
                           /\ e[2] \in DOMAIN disk[e[1]] /\ disk[e[1]][e[2]].old
  BY RunTypes DEF Leftovers, IsDirectory
<1>4. cleaner' \in Cleaner
  BY <1>1, <1>2, <1>3 DEF Resting, Cleaner, Listings
<1>5. /\ cleaner'.step = "run" /\ cleaner'.unseen = Directories
      /\ cleaner'.due = Leftovers /\ cleaner'.listed = {}
  BY <1>1 DEF Resting
<1>6. ASSUME NEW j \in Jobs, NEW p \in Paths, <<j, p>> \in Leftovers
      PROVE  /\ job[j].step = "dead" /\ j \in Directories
             /\ p \in DOMAIN disk[j] => disk[j][p].old
  BY <1>3, <1>6 DEF Directories
<1>7. CleanerFits'
  BY <1>1, <1>5, <1>6 DEF CleanerFits
<1>8. cleanups' \in 0..MaxCleanups /\ cleanups' > 0
  BY <1>1, MediaAssumption DEF MediaInv, RecordsFit
<1> QED
  BY <1>1, <1>4, <1>7, <1>8, CleanerAlone

\* What is due in a directory is listed when it is read.
LEMMA CleanerListsKeeps ==
  ASSUME MediaInv, NEW k \in cleaner.unseen, CleanerLists(k)
  PROVE  MediaInv'
<1>1. /\ cleaner' = [cleaner EXCEPT !.unseen = @ \ {k}, !.dir = <<k>>, !.listed = DOMAIN disk[k]]
      /\ UNCHANGED <<job, disk, cleanups, crashes>>
      /\ cleaner.step = "run" /\ cleaner.listed = {}
  BY DEF CleanerLists
<1>2. cleaner \in Cleaner /\ cleanups \in 0..MaxCleanups
  BY DEF MediaInv, RecordsFit
<1>3. k \in Jobs
  BY <1>2 DEF Cleaner
<1>4. DOMAIN disk[k] \subseteq Paths /\ <<k>> \in Listings
  BY <1>3, RunTypes DEF IsDirectory, Listings
<1>5. cleaner' \in Cleaner
  BY <1>1, <1>2, <1>4 DEF Cleaner
<1>6. /\ cleaner'.step = "run" /\ cleaner'.unseen = cleaner.unseen \ {k}
      /\ cleaner'.dir = <<k>> /\ cleaner'.listed = DOMAIN disk[k]
      /\ cleaner'.due = cleaner.due
  BY <1>1, <1>2 DEF Cleaner
<1>7. CleanerFits'
  <2>1. CleanerFits
    BY DEF MediaInv
  <2>2. ASSUME NEW j \in Jobs, NEW p \in Paths, <<j, p>> \in cleaner.due
        PROVE  /\ job[j].step = "dead"
               /\ p \in DOMAIN disk[j] =>
                    /\ disk[j][p].old
                    /\ j \in cleaner.unseen \ {k} \/ (j = k /\ p \in DOMAIN disk[k])
    BY <1>1, <2>1, <2>2 DEF CleanerFits
  <2>3. <<k>> # << >>
    OBVIOUS
  <2>4. ASSUME NEW j \in Jobs, NEW p \in Paths, <<j, p>> \in cleaner'.due
        PROVE  /\ job'[j].step = "dead"
               /\ p \in DOMAIN disk'[j] =>
                    /\ cleaner'.step = "run" /\ disk'[j][p].old
                    /\ j \in cleaner'.unseen \/ (cleaner'.dir = <<j>> /\ p \in cleaner'.listed)
    BY <1>1, <1>6, <2>2, <2>4
  <2> QED
    BY <1>6, <2>3, <2>4 DEF CleanerFits
<1>8. cleanups # 0
  BY <1>1 DEF MediaInv, WholeFits
<1> QED
  BY <1>1, <1>2, <1>5, <1>7, <1>8, CleanerAlone

\* The process is over; if it has seen everything, so has it removed what was due.
LEMMA CleanerEndsKeeps ==
  ASSUME MediaInv, CleanerRaises \/ CleanerEnds
  PROVE  MediaInv'
<1>1. cleaner \in Cleaner /\ cleanups \in 0..MaxCleanups
  BY DEF MediaInv, RecordsFit
<1>2. cleanups # 0
  BY DEF MediaInv, WholeFits, CleanerRaises, CleanerEnds
<1>3. CASE CleanerRaises
  <2>1. /\ cleaner' = [Resting EXCEPT !.step = "raised"]
        /\ UNCHANGED <<job, disk, cleanups, crashes>>
    BY <1>3 DEF CleanerRaises
  <2>2. cleaner' \in Cleaner /\ cleaner'.step = "raised" /\ cleaner'.listed = {}
    BY <2>1 DEF Resting, Cleaner, Listings
  <2>3. CleanerFits'
    BY <2>2 DEF CleanerFits
  <2> QED
    BY <1>1, <1>2, <2>1, <2>2, <2>3, CleanerAlone
<1>4. CASE CleanerEnds
  <2>1. /\ cleaner' = [Resting EXCEPT !.step = "done", !.due = cleaner.due]
        /\ UNCHANGED <<job, disk, cleanups, crashes>>
        /\ cleaner.step = "run" /\ cleaner.unseen = {} /\ cleaner.listed = {}
    BY <1>4 DEF CleanerEnds
  <2>2. cleaner.due \in SUBSET (Jobs \X Paths)
    BY <1>1 DEF Cleaner
  <2>3. cleaner' \in Cleaner
    BY <2>1, <2>2 DEF Resting, Cleaner, Listings
  <2>4. cleaner'.step = "done" /\ cleaner'.listed = {} /\ cleaner'.due = cleaner.due
    BY <2>1 DEF Resting
  <2>5. \A j \in Jobs, p \in Paths : <<j, p>> \in cleaner.due =>
          job[j].step = "dead" /\ p \notin DOMAIN disk[j]
    BY <2>1 DEF MediaInv, CleanerFits
  <2>6. CleanerFits'
    BY <2>1, <2>4, <2>5 DEF CleanerFits
  <2> QED
    BY <1>1, <1>2, <2>1, <2>3, <2>6, CleanerAlone
<1> QED
  BY <1>3, <1>4

\* A file that is removed was nobody's to send, or is missed only when it is sent:
\* the other files of its directory are as they were.
LEMMA CleanerVisitsKeeps ==
  ASSUME MediaInv, NEW p \in cleaner.listed, CleanerVisits(p)
  PROVE  MediaInv'
<1> USE DEF MediaInv
<1> DEFINE k == cleaner.dir[1]
           goes == p \in DOMAIN disk[k] /\ disk[k][p].old
<1>1. /\ disk' = IF goes THEN [disk EXCEPT ![k] = Without(@, p)] ELSE disk
      /\ cleaner' = [cleaner EXCEPT !.listed = @ \ {p}]
      /\ UNCHANGED <<job, cleanups, crashes>> /\ cleaner.step = "run"
  BY DEF CleanerVisits, RemainingAfter
<1>2. /\ cleaner \in Cleaner /\ disk = [i \in Jobs |-> disk[i]] /\ CleanerFits
      /\ \A i \in Jobs : IsDirectory(disk[i])
  BY DEF RecordsFit
<1>3. k \in Jobs /\ cleaner.dir = <<k>>
  BY <1>2 DEF CleanerFits, Cleaner, Listings
<1>4. /\ cleaner' \in Cleaner /\ cleaner'.step = "run" /\ cleaner'.unseen = cleaner.unseen
      /\ cleaner'.dir = cleaner.dir /\ cleaner'.due = cleaner.due
      /\ cleaner'.listed = cleaner.listed \ {p}
  BY <1>1, <1>2 DEF Cleaner
<1> HIDE DEF k
<1>5. ASSUME NEW i \in Jobs
      PROVE  /\ DOMAIN disk'[i] = DOMAIN disk[i] \ (IF i = k /\ goes THEN {p} ELSE {})
             /\ \A q \in DOMAIN disk'[i] : disk'[i][q] = disk[i][q]
  <2>1. CASE i = k /\ goes
    <3>1. disk'[i] = Without(disk[i], p)
      BY <1>1, <1>2, <1>3, <2>1
    <3> QED
      BY <2>1, <3>1 DEF Without
  <2>2. CASE ~(i = k /\ goes)
    <3>1. disk'[i] = disk[i]
      BY <1>1, <1>2, <1>3, <2>2
    <3> QED
      BY <2>2, <3>1
  <2> QED
    BY <2>1, <2>2
<1>6. \A i \in Jobs : DOMAIN disk'[i] \subseteq DOMAIN disk[i]
  BY <1>5
<1>7. RecordsFit'
  <2>1. disk' = [i \in Jobs |-> disk'[i]]
    BY <1>1, <1>2
  <2>2. \A i \in Jobs : IsFiniteSet(DOMAIN disk'[i])
    BY <1>2, <1>6, FS_Subset DEF IsDirectory
  <2>3. \A i \in Jobs : IsDirectory(disk'[i])
    BY <1>2, <1>5, <1>6, <2>2 DEF IsDirectory
  <2> QED
    BY <1>1, <1>4, <2>1, <2>3 DEF RecordsFit, IsDirectory
<1>8. RunsFit'
  <2>1. ASSUME NEW i \in Jobs
        PROVE  FilesFit(job[i], disk'[i])
    <3>1. FilesFit(job[i], disk[i])
      BY DEF RunsFit
    <3>2. CASE job[i].step \in {"download", "ended"}
      <4>1. disk[i] = NoFiles /\ DOMAIN NoFiles = {}
        BY <3>1, <3>2 DEF FilesFit, NoFiles
      <4>2. ~(i = k /\ goes)
        BY <4>1
      <4>3. disk'[i] = disk[i]
        BY <1>1, <1>2, <1>3, <4>2
      <4> QED
        BY <3>1, <4>3
    <3>3. CASE job[i].step \notin {"download", "ended"}
      BY <1>5, <1>6, <3>1, <3>3 DEF FilesFit, FileFits
    <3> QED
      BY <3>2, <3>3
  <2>2. \A i \in Jobs : job'[i] = job[i]
    BY <1>1
  <2> QED
    BY <2>1, <2>2 DEF RunsFit
<1>9. QuotaFits'
  BY <1>1 DEF QuotaFits, Alone
<1>10. AdmissionFits'
  <2>1. PICK counted :
          /\ Counts(counted)
          /\ \A A \in SUBSET Jobs :
               Companions(A) => \E m \in A : \A i \in A : Covers(counted, m, i)
    BY DEF AdmissionFits
  <2>2. Counts(counted)'
    BY <1>1, <2>1 DEF Counts
  <2>3. ASSUME NEW m \in Jobs, NEW i \in Jobs, Covers(counted, m, i)
        PROVE  Covers(counted, m, i)'
    <3>1. OriginalBytes(i)' \subseteq OriginalBytes(i) /\ Originals(i)' \subseteq Originals(i)
      BY <1>5, <1>6, OriginalsKept
    <3> QED
      BY <1>1, <2>3, <3>1, CoversKept
  <2> QED
    BY <1>1, <2>1, <2>2, <2>3, AdmissionKept
<1>11. CleanerFits'
  <2>1. ASSUME NEW j \in Jobs, NEW q \in Paths, <<j, q>> \in cleaner.due
        PROVE  /\ job[j].step = "dead"
               /\ q \in DOMAIN disk'[j] =>
                    /\ disk'[j][q].old
                    /\ j \in cleaner.unseen \/ (cleaner.dir = <<j>> /\ q \in cleaner.listed \ {p})
    <3>1. /\ job[j].step = "dead"
          /\ q \in DOMAIN disk[j] =>
               /\ disk[j][q].old
               /\ j \in cleaner.unseen \/ (cleaner.dir = <<j>> /\ q \in cleaner.listed)
      BY <1>1, <1>2, <2>1 DEF CleanerFits
    <3>2. cleaner.dir = <<j>> => j = k
      BY <1>3
    <3>3. q \in DOMAIN disk'[j] => disk[j][q].old /\ ~(j = k /\ q = p)
      BY <1>5, <1>6, <3>1
    <3> QED
      BY <1>5, <1>6, <3>1, <3>2, <3>3
  <2>2. \A i \in Jobs : job'[i] = job[i]
    BY <1>1
  <2>3. cleaner'.dir # << >>
    BY <1>3, <1>4
  <2> QED
    BY <1>4, <2>1, <2>2, <2>3 DEF CleanerFits
<1>12. WholeFits'
  BY <1>1 DEF WholeFits
<1> QED
  BY <1>7, <1>8, <1>9, <1>10, <1>11, <1>12

-----------------------------------------------------------------------------
(* The theorems                                                            *)

\* Nothing has been downloaded.
LEMMA InitFits == Init => MediaInv
<1> SUFFICES ASSUME Init PROVE MediaInv
  OBVIOUS
<1>1. PICK user \in [Jobs -> Users] : job = [j \in Jobs |-> Start(user[j])]
  BY DEF Init
<1>2. /\ disk = [j \in Jobs |-> NoFiles] /\ cleaner = Resting
      /\ cleanups = 0 /\ crashes = 0
  BY DEF Init
<1>3. ASSUME NEW j \in Jobs
      PROVE  /\ job[j] \in Run /\ job[j].step = "download" /\ job[j].outcome = "none"
             /\ ResultsFit(job[j]) /\ ChatFits(job[j]) /\ StepFits(job[j])
  <2>1. IsEmptyRun(job[j], user[j], "download") /\ user[j] \in Users
    BY <1>1 DEF IsEmptyRun
  <2> QED
    BY <2>1, EmptyRunFits
<1>4. \A j \in Jobs : disk[j] = NoFiles
  BY <1>2
<1>5. DOMAIN NoFiles = {} /\ IsFiniteSet({})
  BY FS_EmptySet DEF NoFiles
<1>6. RecordsFit
  <2>1. cleaner \in Cleaner
    BY <1>2 DEF Resting, Cleaner, Listings
  <2>2. cleanups \in 0..MaxCleanups /\ crashes \in 0..MaxCrashes
    BY <1>2, MediaAssumption
  <2>3. job \in [Jobs -> Run] /\ disk = [j \in Jobs |-> disk[j]]
    BY <1>1, <1>2, <1>3
  <2>4. \A j \in Jobs : IsDirectory(disk[j])
    BY <1>4, <1>5 DEF IsDirectory
  <2> QED
    BY <2>1, <2>2, <2>3, <2>4 DEF RecordsFit
<1>7. RunsFit
  BY <1>3, <1>4 DEF RunsFit, FilesFit, Busy
<1>8. QuotaFits
  BY <1>3 DEF QuotaFits
<1>9. AdmissionFits
  <2>1. PICK counted : counted = [j \in Jobs |-> {}]
    OBVIOUS
  <2>2. Counts(counted)
    BY <1>3 DEF Counts, Busy
  <2>3. \A A \in SUBSET Jobs : ~Companions(A)
    BY <1>3 DEF Companions, Busy
  <2> QED
    BY <2>2, <2>3 DEF AdmissionFits
<1>10. CleanerFits
  BY <1>2 DEF CleanerFits, Resting
<1>11. WholeFits
  BY <1>2, <1>3 DEF WholeFits, Whole, Resting
<1> QED
  BY <1>6, <1>7, <1>8, <1>9, <1>10, <1>11 DEF MediaInv

\* Every step is one of a job, of the cleaner, or none.
LEMMA StepKeeps == MediaInv /\ [Next]_vars => MediaInv'
<1> SUFFICES ASSUME MediaInv, [Next]_vars PROVE MediaInv'
  OBVIOUS
<1>1. ASSUME NEW j \in Jobs, JobStep(j) PROVE MediaInv'
  <2>1. ASSUME NEW path \in job[j].todo, ProcessFile(j, path) \/ Compress(j, path)
        PROVE  MediaInv'
    BY <2>1, ProcessFileKeeps, CompressKeeps
  <2>2. CASE \E k \in job[j].unseen : ListDirectory(j, k)
    BY <2>2, ListDirectoryKeeps
  <2>3. CASE \E post \in Posts : Download(j, post)
    BY <2>3, DownloadKeeps
  <2>4. CASE \/ \E k \in job[j].unseen : ListRaises(j, k)
             \/ SumRaises(j)
             \/ \E path \in job[j].todo : TooLarge(j, path)
             \/ ProcessRaises(j)
             \/ SendFails(j)
    BY <2>4, RaisesKeep
  <2>5. CASE SumDirectory(j) \/ CheckQuota(j)
    BY <2>5, SumDirectoryKeeps, CheckQuotaKeeps
  <2>6. CASE SendFile(j) \/ CleanUp(j) \/ Crash(j) \/ Expire(j)
    BY <2>6, SendFileKeeps, CleanUpKeeps, CrashKeeps, ExpireKeeps
  <2> QED
    BY <1>1, <2>1, <2>2, <2>3, <2>4, <2>5, <2>6 DEF JobStep
<1>2. CASE CleanerStep
  BY <1>2, CleanerStartsKeeps, CleanerListsKeeps, CleanerVisitsKeeps, CleanerEndsKeeps
     DEF CleanerStep
<1>3. CASE UNCHANGED vars
  <2>1. cleaner \in Cleaner /\ cleanups \in 0..MaxCleanups /\ CleanerFits
    BY DEF MediaInv, RecordsFit
  <2>2. CleanerFits'
    BY <1>3, <2>1 DEF vars, CleanerFits
  <2>3. cleanups = 0 => cleaner.step = "off"
    BY DEF MediaInv, WholeFits
  <2> QED
    BY <1>3, <2>1, <2>2, <2>3, CleanerAlone DEF vars
<1> QED
  BY <1>1, <1>2, <1>3 DEF Next

\* The inductive invariant holds in every behaviour of jobs, cleanups and deaths.
THEOREM MediaInductive == Spec => []MediaInv
BY InitFits, StepKeeps, PTL DEF Spec

\* The records of the jobs and files are what the code reads them as; every file
\* of the result is still to be processed or has exactly one path to send.
THEOREM MediaTypeCorrect == Spec => []TypeOK
<1>1. MediaInv => TypeOK
  <2> SUFFICES ASSUME MediaInv PROVE TypeOK
    OBVIOUS
  <2>1. ASSUME NEW j \in Jobs
        PROVE  /\ job[j].user \in Users
               /\ job[j].step \in Steps
               /\ job[j].outcome \in Outcomes
               /\ job[j].todo \subseteq Media(job[j].post)
               /\ Len(job[j].result) + Cardinality(job[j].todo) = Cardinality(Media(job[j].post))
               /\ job[j].sent = Len(job[j].chat) /\ job[j].sent <= Len(job[j].result)
               /\ \A p \in DOMAIN disk[j] : disk[j][p].size \in Nat /\ disk[j][p].old \in BOOLEAN
    <3>1. job[j] \in Run /\ IsDirectory(disk[j]) /\ ResultsFit(job[j])
      BY RunTypes
    <3>2. job[j].user \in Users /\ job[j].step \in Steps /\ job[j].outcome \in Outcomes
      BY <3>1 DEF Run
    <3>3. \A p \in DOMAIN disk[j] : disk[j][p].size \in Nat /\ disk[j][p].old \in BOOLEAN
      BY <3>1 DEF IsDirectory, File
    <3> QED
      BY <3>1, <3>2, <3>3 DEF ResultsFit
  <2>2. cleaner.step \in {"off", "run", "done", "raised"}
    BY DEF MediaInv, RecordsFit, Cleaner
  <2> QED
    BY <2>1, <2>2 DEF TypeOK, MediaInv, RecordsFit
<1> QED
  BY <1>1, MediaInductive, PTL

\* What the admitted jobs of a user have downloaded never adds up to more than the
\* limit, although they measure side by side: the last of them to download has
\* counted the files of them all, and nobody downloads after having counted.
THEOREM AdmittedAlwaysFit == Spec => []AdmittedFit
<1>1. MediaInv => AdmittedFit
  <2> SUFFICES ASSUME MediaInv, NEW u \in Users
               PROVE  LET admitted == {j \in Jobs : job[j].user = u
                                                    /\ job[j].step \in {"process", "send"}}
                      IN  Cardinality(UNION {{j} \X Bytes(disk[j], Originals(j)) : j \in admitted})
                            <= MaxTemp
    BY DEF AdmittedFit
  <2> DEFINE admitted == {j \in Jobs : job[j].user = u /\ job[j].step \in {"process", "send"}}
             downloaded == UNION {{j} \X Bytes(disk[j], Originals(j)) : j \in admitted}
  <2>1. CASE admitted = {}
    <3>1. downloaded = {}
      BY <2>1
    <3>2. Cardinality({}) = 0 /\ MaxTemp \in Nat
      BY FS_EmptySet, MediaAssumption
    <3> HIDE DEF downloaded
    <3>3. Cardinality(downloaded) <= MaxTemp
      BY <3>1, <3>2
    <3> QED
      BY <3>3 DEF downloaded
  <2>2. CASE admitted # {}
    <3>1. PICK counted :
            /\ Counts(counted)
            /\ \A A \in SUBSET Jobs :
                 Companions(A) => \E m \in A : \A k \in A : Covers(counted, m, k)
      BY DEF MediaInv, AdmissionFits
    <3>2. Companions(admitted) /\ admitted \in SUBSET Jobs
      BY <2>2 DEF Companions, Busy
    <3>3. PICK m \in admitted : \A k \in admitted : Covers(counted, m, k)
      BY <3>1, <3>2
    <3>4. m \in Jobs /\ job[m].step \in {"process", "send"}
      OBVIOUS
    <3>5. \A k \in admitted : OriginalBytes(k) \subseteq counted[m]
      BY <3>3, <3>4 DEF Covers
    <3>6. downloaded \subseteq counted[m]
      BY <3>5 DEF OriginalBytes
    <3>7. IsFiniteSet(counted[m]) /\ Cardinality(counted[m]) <= job[m].bytes
      BY <3>1, <3>4 DEF Counts, Busy
    <3>8. job[m].bytes <= MaxTemp /\ job[m].bytes \in Nat /\ MaxTemp \in Nat
      BY <3>4, RunTypes, MediaAssumption DEF StepFits, Run
    <3> HIDE DEF downloaded
    <3>9. /\ Cardinality(downloaded) \in Nat /\ Cardinality(counted[m]) \in Nat
          /\ Cardinality(downloaded) <= Cardinality(counted[m])
      BY <3>6, <3>7, SizesAreMonotonic
    <3>10. Cardinality(downloaded) <= MaxTemp
      BY <3>7, <3>8, <3>9
    <3> QED
      BY <3>10 DEF downloaded
  <2> QED
    BY <2>1, <2>2
<1> QED
  BY <1>1, MediaInductive, PTL

\* No media file and no compressed video larger than the limit reaches Telegram,
\* whatever other outputs were written over it after its size had been checked and
\* whatever failed engines left beside it.
THEOREM SentAlwaysFit == Spec => []SentFits
<1>1. MediaInv => SentFits
  BY RunTypes DEF SentFits, ChatFits
<1> QED
  BY <1>1, MediaInductive, PTL

\* A media file whose stem is its own is sent as itself or compressed, never as what
\* a failed engine left, and a job that is ok has sent each file of the result.
THEOREM SentAsThemselves == Spec => []SentAsItself
<1>1. MediaInv => SentAsItself
  <2> SUFFICES ASSUME MediaInv, NEW j \in Jobs
               PROVE  /\ \A n \in DOMAIN job[j].chat :
                           LET item == job[j].chat[n] IN
                             (\A p \in Media(job[j].post) : p[1] = item.for[1] => p = item.for) =>
                               /\ item.content[1] \in {"original", "compressed"}
                               /\ item.content[2] = item.for
                               /\ item.type = MediaType(item.for)
                      /\ job[j].outcome = "ok" =>
                           {job[j].chat[n].for : n \in DOMAIN job[j].chat} = Media(job[j].post)
    BY DEF SentAsItself
  <2>1. job[j] \in Run /\ ResultsFit(job[j]) /\ ChatFits(job[j]) /\ StepFits(job[j])
    BY RunTypes
  <2>2. job[j].outcome = "ok" =>
          {job[j].chat[n].for : n \in DOMAIN job[j].chat} = Media(job[j].post)
    <3> SUFFICES ASSUME job[j].outcome = "ok"
                 PROVE  {job[j].chat[n].for : n \in DOMAIN job[j].chat} = Media(job[j].post)
      OBVIOUS
    <3>1. job[j].todo = {} /\ Len(job[j].chat) = Len(job[j].result)
      BY <2>1 DEF StepFits, ResultsFit
    <3>2. DOMAIN job[j].chat = DOMAIN job[j].result
      BY <2>1, <3>1, LenProperties DEF Run
    <3>3. \A n \in DOMAIN job[j].chat :
            job[j].chat[n].for = job[j].result[n].for
            /\ job[j].result[n].for \in Media(job[j].post)
      BY <2>1, <3>2 DEF ResultsFit
    <3>4. \A p \in Media(job[j].post) : \E n \in DOMAIN job[j].result : job[j].result[n].for = p
      BY <2>1, <3>1 DEF ResultsFit
    <3> QED
      BY <3>2, <3>3, <3>4
  <2> QED
    BY <2>1, <2>2 DEF ChatFits
<1> QED
  BY <1>1, MediaInductive, PTL

\* A job whose own directory fits, leftovers of its failed engines included, is
\* refused only if another job of its user has been on disk beside it; and a job
\* raises while it measures or processes only on account of such a job or of a
\* cleanup-once.
THEOREM QuotaStaysPerUser == Spec => []QuotaIsPerUser
<1>1. MediaInv => QuotaIsPerUser
  <2> SUFFICES ASSUME MediaInv, NEW j \in Jobs
               PROVE  LET Beside == \E k \in Jobs \ {j} : job[k].user = job[j].user
                                                           /\ job[k].step # "download"
                          Fits == Sizes(job[j].post, DOMAIN job[j].post) <= MaxTemp
                      IN  /\ (job[j].outcome = "QUOTA" /\ Fits) => Beside
                          /\ job[j].outcome = "INTERNAL_ERROR" => Beside \/ cleanups > 0
    BY DEF QuotaIsPerUser
  <2>1. Sizes(job[j].post, DOMAIN job[j].post) \in Nat /\ MaxTemp \in Nat
    BY RunTypes, PostFacts, BytesAreFinite, FS_CardinalityType, MediaAssumption DEF Sizes
  <2>2. PICK size : size = Sizes(job[j].post, DOMAIN job[j].post)
    OBVIOUS
  <2>3. ~(size <= MaxTemp /\ size > MaxTemp)
    BY <2>1, <2>2
  <2>4. Alone(j) => /\ job[j].outcome = "QUOTA" => size > MaxTemp
                    /\ job[j].outcome = "INTERNAL_ERROR" => cleanups > 0
    BY <2>2 DEF MediaInv, QuotaFits
  <2> QED
    BY <2>2, <2>3, <2>4 DEF Alone
<1> QED
  BY <1>1, MediaInductive, PTL

\* A cleanup that finishes has removed all that dead workers had left to expire.
THEOREM CleanupsAreComplete == Spec => []CleanupIsComplete
<1>1. MediaInv => CleanupIsComplete
  <2> SUFFICES ASSUME MediaInv, cleaner.step = "done", NEW e \in cleaner.due
               PROVE  e[2] \notin DOMAIN disk[e[1]]
    BY DEF CleanupIsComplete
  <2>1. PICK j \in Jobs, p \in Paths : e = <<j, p>>
    BY DEF MediaInv, RecordsFit, Cleaner
  <2>2. p \notin DOMAIN disk[j]
    BY <2>1 DEF MediaInv, CleanerFits
  <2> QED
    BY <2>1, <2>2
<1> QED
  BY <1>1, MediaInductive, PTL
=============================================================================
