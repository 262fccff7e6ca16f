--------------------------- MODULE MCWorkerService ---------------------------
(* Small instances of WorkerService, with the runs of one worker played out, for TLC. *)
EXTENDS WorkerRuns

CONSTANTS j1, j2, j3, w1, w2

\* One error that ends the job at once, one that is retried, and the upload
\* error, which is retried and may leave media in the chat.
MCRunErrors == {"ACCESS_DENIED", "DOWNLOAD_FAILED", "TELEGRAM_UPLOAD_FAILED"}

TwoJobs == {j1, j2}
ThreeJobs == {j1, j2, j3}
TwoWorkers == {w1, w2}
SecondOneShot == {w2}
=============================================================================
