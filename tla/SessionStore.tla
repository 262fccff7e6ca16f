----------------------------- MODULE SessionStore -----------------------------
(***************************************************************************)
(* What connecting an account promises: links that are good for one        *)
(* session of their own user and platform, and sessions that are gone once *)
(* they are revoked.  The actions are the methods of                       *)
(* InMemorySessionRepository (session_repository.py), the store the tests  *)
(* run the portal on; SessionPortal, over Postgres, implements this module *)
(* (SessionPortal!ImplementsStore).  Expiry is left to                     *)
(* SessionPortal!ExpiryIsNoticed: the two stores read different clocks.    *)
(***************************************************************************)
CONSTANTS
  Slots,      (* <<user, platform>>, the key of a session   *)
  Tokens,     (* connect tokens                             *)
  Payloads    (* sessions users submit, numbers above 0     *)

VARIABLES
  links,      (* links[t]: its slot, and none | live | taken | used *)
  sessions,   (* sessions[s]: status and payload, 0 if it has none  *)
  erased,     (* payloads a revocation erased                       *)
  reads       (* <<slot, payload>> pairs that jobs were given       *)

vars == <<links, sessions, erased, reads>>

NoLink == [slot |-> << >>, state |-> "none"]

Init ==
  /\ links = [t \in Tokens |-> NoLink]
  /\ sessions = [s \in Slots |-> [status |-> "none", payload |-> 0]]
  /\ erased = {}
  /\ reads = {}

\* create_connect_token
CreateConnectToken(t, s) ==
  /\ links[t] = NoLink
  /\ links' = [links EXCEPT ![t] = [slot |-> s, state |-> "live"]]
  /\ UNCHANGED <<sessions, erased, reads>>

\* store_encrypted_session itself stores what it is given.  The guards are what
\* its caller promises: post_connect_session calls it for the slot of a link
\* that get_valid_connect_token has found unused, one POST after the other, and
\* with a payload it has just encrypted.
StoreSession(t, payload) ==
  /\ links[t].state = "live"
  /\ \A u \in Tokens : links[u].state # "taken"
  /\ payload \notin erased /\ \A s \in Slots : sessions[s].payload # payload
  /\ links' = [links EXCEPT ![t].state = "taken"]
  /\ sessions' = [sessions EXCEPT ![links[t].slot] =
                    [status |-> "connected", payload |-> payload]]
  /\ UNCHANGED <<erased, reads>>

\* mark_connect_token_used
MarkUsed(t) ==
  /\ links[t].state = "taken"
  /\ links' = [links EXCEPT ![t].state = "used"]
  /\ UNCHANGED <<sessions, erased, reads>>

\* The portal dies before the use of the link is on record.
LoseMark(t) ==
  /\ links[t].state = "taken"
  /\ links' = [links EXCEPT ![t].state = "live"]
  /\ UNCHANGED <<sessions, erased, reads>>

\* revoke_session of an existing row.
RevokeSession(s) ==
  /\ sessions[s].status # "none"
  /\ sessions' = [sessions EXCEPT ![s] = [status |-> "revoked", payload |-> 0]]
  /\ erased' = erased \union ({sessions[s].payload} \ {0})
  /\ UNCHANGED <<links, reads>>

\* get_session, by a job of the slot's own user.
ReadSession(s) ==
  /\ sessions[s].status = "connected"
  /\ reads' = reads \union {<<s, sessions[s].payload>>}
  /\ UNCHANGED <<links, sessions, erased>>

Next ==
  \/ \E t \in Tokens :
       \/ \E s \in Slots : CreateConnectToken(t, s)
       \/ \E payload \in Payloads : StoreSession(t, payload)
       \/ MarkUsed(t) \/ LoseMark(t)
  \/ \E s \in Slots : RevokeSession(s) \/ ReadSession(s)

Spec == Init /\ [][Next]_vars
=============================================================================
