--------------------------- MODULE DownloadErrors ---------------------------
(***************************************************************************)
(* The error codes a download can end with, and the two flags the worker   *)
(* and the engine chain decide by (omnisaver_downloader/errors.py).  Each  *)
(* constructor there fixes both flags for its code; INTERNAL_ERROR is only *)
(* ever built inline, with retryable=True (service.py, public_job.py).     *)
(***************************************************************************)

ErrorCodes ==
  { "UNSUPPORTED_URL", "LOGIN_REQUIRED", "SESSION_MISSING", "SESSION_EXPIRED",
    "ACCESS_DENIED", "RATE_LIMITED", "MEDIA_TOO_LARGE", "DOWNLOAD_FAILED",
    "TELEGRAM_UPLOAD_FAILED", "INTERNAL_ERROR" }

\* The codes whose error carries retryable=True.
RetryableCodes == {"DOWNLOAD_FAILED", "TELEGRAM_UPLOAD_FAILED", "INTERNAL_ERROR"}

\* The codes after which the next engine of the platform is tried.
FallbackCodes == {"DOWNLOAD_FAILED"}

Retryable(code) == code \in RetryableCodes

FallbackAllowed(code) == code \in FallbackCodes
=============================================================================
