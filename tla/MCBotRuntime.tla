---------------------------- MODULE MCBotRuntime ----------------------------
(* Small instances of BotRuntime for TLC. *)
EXTENDS BotRuntime

CONSTANTS u1, u2, ig

OneUser == {u1}
TwoUsers == {u1, u2}
OnePlatform == {ig}

\* One request per branch of the handlers ("longer name" is handled like "bot").
BranchRequests ==
  {r \in Requests :
     \/ r.command # "text" /\ (r.command = "disconnect" => r.platform # "unknown")
     \/ r.command = "text" /\ r.link = "supported" /\ r.mention # "longer name"
     \/ r.command = "text" /\ r.link \in {"none", "malformed"} /\ r.mention = "bot"}
=============================================================================
