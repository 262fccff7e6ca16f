---------------------------- MODULE JobLifecycle ----------------------------
(***************************************************************************)
(* What the download pipeline promises about one accepted link, with no    *)
(* queue, worker or row in sight: the job waits, is worked on by exactly   *)
(* one owner, and is then completed, failed or abandoned, and never moves  *)
(* again.  Media may reach the chat more than once while the job is worked *)
(* on, but never more often than the retry budget allows and never outside *)
(* that phase; a failure is announced at most once.                        *)
(*                                                                         *)
(* WorkerService implements this specification.                            *)
(***************************************************************************)
EXTENDS Naturals

CONSTANTS
  Jobs,         (* the links users send                          *)
  MaxAttempts   (* how often one job may be run                  *)

VARIABLES
  phase,        (* new, queued, working, completed, failed, abandoned *)
  copies,       (* copies[j]: times media of j began to reach a chat *)
  notices       (* notices[j]: failure messages the user received    *)

vars == <<phase, copies, notices>>

Init ==
  /\ phase = [j \in Jobs |-> "new"]
  /\ copies = [j \in Jobs |-> 0]
  /\ notices = [j \in Jobs |-> 0]

Move(j, from, to) ==
  /\ phase[j] = from
  /\ phase' = [phase EXCEPT ![j] = to]

Accept(j) == Move(j, "new", "queued") /\ UNCHANGED <<copies, notices>>

Take(j) == Move(j, "queued", "working") /\ UNCHANGED <<copies, notices>>

Deliver(j) ==
  /\ phase[j] = "working"
  /\ copies[j] < MaxAttempts
  /\ copies' = [copies EXCEPT ![j] = @ + 1]
  /\ UNCHANGED <<phase, notices>>

Complete(j) ==
  /\ copies[j] > 0
  /\ Move(j, "working", "completed")
  /\ UNCHANGED <<copies, notices>>

Fail(j) == Move(j, "working", "failed") /\ UNCHANGED <<copies, notices>>

Abandon(j) == Move(j, "working", "abandoned") /\ UNCHANGED <<copies, notices>>

Announce(j) ==
  /\ phase[j] = "failed"
  /\ notices[j] = 0
  /\ notices' = [notices EXCEPT ![j] = 1]
  /\ UNCHANGED <<phase, copies>>

Next ==
  \E j \in Jobs :
    \/ Accept(j) \/ Take(j) \/ Deliver(j) \/ Complete(j)
    \/ Fail(j) \/ Abandon(j) \/ Announce(j)

Spec == Init /\ [][Next]_vars
=============================================================================
