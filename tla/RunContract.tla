----------------------------- MODULE RunContract -----------------------------
(***************************************************************************)
(* What WorkerService relies on when it calls runner.run: the run delivers *)
(* nothing or something, then returns completed (only after delivering),   *)
(* returns an error (after a delivery only TELEGRAM_UPLOAD_FAILED), raises *)
(* (never after a delivery), or dies with its process.                     *)
(*                                                                         *)
(* JobRunner implements it; the statements "run" and "sent" of             *)
(* WorkerService are it.                                                   *)
(***************************************************************************)
EXTENDS DownloadErrors

CONSTANT RunErrors   (* the codes a run may return *)

VARIABLES
  stage,     (* idle | run: nothing delivered yet | sent | dead *)
  returned   (* what the last run returned                      *)

vars == <<stage, returned>>

Init == stage = "idle" /\ returned = "none"

Start == stage = "idle" /\ stage' = "run" /\ returned' = "none"

Deliver == stage = "run" /\ stage' = "sent" /\ UNCHANGED returned

Complete == stage = "sent" /\ stage' = "idle" /\ returned' = "ok"

Fail ==
  /\ \/ stage = "run" /\ returned' \in RunErrors
     \/ stage = "sent" /\ returned' = "TELEGRAM_UPLOAD_FAILED"
  /\ stage' = "idle"

Raise == stage = "run" /\ stage' = "idle" /\ returned' = "raised"

Crash == stage # "dead" /\ stage' = "dead" /\ returned' = "none"

Next == Start \/ Deliver \/ Complete \/ Fail \/ Raise \/ Crash

Spec == Init /\ [][Next]_vars
=============================================================================
