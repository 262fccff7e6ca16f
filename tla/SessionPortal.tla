---------------------------- MODULE SessionPortal ----------------------------
(***************************************************************************)
(* Connecting a platform account: one-time links, the web portal that      *)
(* turns a link into a stored session, disconnecting, and the worker that  *)
(* reads sessions.  Three processes share the tables connect_tokens and    *)
(* user_sessions through PostgresSessionRepository.                        *)
(*                                                                         *)
(* Every repository commits its writes and then reads the row back         *)
(* (_require_...), and psycopg opens a transaction for that SELECT, which  *)
(* stays open until the next commit.  CURRENT_TIMESTAMP is the time at     *)
(* which the open transaction began, so the bot and the web process each   *)
(* see the time of their connection's last commit (or first read), not the *)
(* present.  Rows are read as they are (READ COMMITTED).                   *)
(*                                                                         *)
(* A payload is the number of the POST that submitted it; encryption binds *)
(* it to a user and a platform (session_associated_data).                  *)
(***************************************************************************)
EXTENDS Naturals, Sequences

CONSTANTS
  Users,        (* Telegram users                                          *)
  Platforms,    (* platforms a session can belong to                       *)
  Tokens,       (* the random tokens the bot may draw                      *)
  TTL,          (* connect_token_ttl_seconds, in clock ticks               *)
  MaxTime,      (* bound of the clock                                      *)
  MaxPosts,     (* bound of accepted POSTs                                 *)
  MaxRestarts   (* bound of deaths and restarts of the bot and the portal  *)

ASSUME PortalAssumption ==
  /\ TTL \in Nat \ {0}
  /\ MaxTime \in Nat
  /\ MaxPosts \in Nat
  /\ MaxRestarts \in Nat

Slots == Users \X Platforms      \* the key of user_sessions
Connections == {"bot", "web"}    \* the connections whose clock matters
Payloads == 1..MaxPosts
Idle == MaxTime + 1              \* no transaction is open

VARIABLES
  now,         (* the real time                                            *)
  began,       (* began[c]: when the open transaction of c began, or Idle  *)
  tokens,      (* tokens[t]: the row of connect_tokens; slot <<>> if none  *)
  sessions,    (* sessions[s]: the row of user_sessions                    *)
  post,        (* the POST in progress (the event loop runs one at a time) *)
  posts,       (* POSTs accepted so far, at most MaxPosts                  *)
  author,      (* history: author[n], the token of the n-th accepted POST  *)
  stores,      (* history: how often a session was stored through a token  *)
  wiped,       (* history: payloads a disconnect erased                    *)
  reads,       (* history: <<slot, payload>> pairs the worker decrypted    *)
  lastCommit,  (* history: when the portal last committed                  *)
  restarts     (* per connection: deaths of its process, MaxRestarts in all *)

vars == <<now, began, tokens, sessions, post, posts, author, stores, wiped,
          reads, lastCommit, restarts>>

NoRow == [status |-> "none", payload |-> 0, sealed |-> << >>]
NoToken == [slot |-> << >>, expires |-> 0, issued |-> 0, used |-> FALSE]
NoPost == [step |-> "none"]

Init ==
  /\ now = 0
  /\ began = [c \in Connections |-> Idle]
  /\ tokens = [t \in Tokens |-> NoToken]
  /\ sessions = [s \in Slots |-> NoRow]
  /\ post = NoPost
  /\ posts = 0
  /\ author = << >>
  /\ stores = [t \in Tokens |-> 0]
  /\ wiped = {}
  /\ reads = {}
  /\ lastCommit = 0
  /\ restarts = [c \in Connections |-> 0]

-----------------------------------------------------------------------------
(* The connection                                                          *)

\* CURRENT_TIMESTAMP on connection c.
Timestamp(c) == IF began[c] = Idle THEN now ELSE began[c]

\* A SELECT: opens a transaction if none is open.
AfterRead(c) == [began EXCEPT ![c] = Timestamp(c)]

\* Mutant: the commit leaves the old transaction time in place.
KeepsTransaction(c) == AfterRead(c)

\* A commit followed by the SELECT of _require_...: a new transaction begins.
AfterCommit(c) == [began EXCEPT ![c] = now]

-----------------------------------------------------------------------------
(* The bot (session_commands.py)                                           *)

Issued(t) == tokens[t].slot # << >>

\* /connect_<platform>: create_connect_token.
CreateConnectToken(t, s) ==
  /\ ~Issued(t)
  /\ tokens' = [tokens EXCEPT ![t] =
       [slot |-> s, expires |-> Timestamp("bot") + TTL, issued |-> now, used |-> FALSE]]
  /\ began' = AfterCommit("bot")
  /\ UNCHANGED <<now, sessions, post, posts, author, stores, wiped, reads,
                 lastCommit, restarts>>

\* /sessions: list_sessions reads and does not commit.
ListSessions ==
  /\ began' = AfterRead("bot")
  /\ UNCHANGED <<now, tokens, sessions, post, posts, author, stores, wiped,
                 reads, lastCommit, restarts>>

\* Mutant: the UPDATE does not reach the row.
RevokesNothing(row) == row

\* What revoke_session makes of an existing row.
Revoked(row) == [row EXCEPT !.status = "revoked", !.payload = 0]

\* /disconnect in the chat, or POST /disconnect/{platform}, which FastAPI runs
\* in a thread beside the event loop.  Without a row the UPDATE changes nothing
\* and _require_session raises KeyError, after the commit.
Disconnect(c, s) ==
  /\ IF sessions[s].status = "none"
     THEN UNCHANGED <<sessions, wiped>>
     ELSE /\ sessions' = [sessions EXCEPT ![s] = Revoked(@)]
          /\ wiped' = wiped \union ({sessions[s].payload} \ {0})
  /\ began' = AfterCommit(c)
  /\ lastCommit' = IF c = "web" THEN now ELSE lastCommit
  /\ UNCHANGED <<now, tokens, post, posts, author, stores, reads, restarts>>

-----------------------------------------------------------------------------
(* The web portal (session_portal.py)                                      *)

\* Mutants: a link is good for any platform, a link is good after its use.
ValidAnywhere(t, platform) ==
  /\ Issued(t)
  /\ ~tokens[t].used
  /\ tokens[t].expires > Timestamp("web")

ValidThoughUsed(t, platform) ==
  /\ Issued(t)
  /\ tokens[t].slot[2] = platform
  /\ tokens[t].expires > Timestamp("web")

\* get_valid_connect_token, whose user the token's row names.
Valid(t, platform) ==
  /\ Issued(t)
  /\ tokens[t].slot[2] = platform
  /\ ~tokens[t].used
  /\ tokens[t].expires > Timestamp("web")

\* GET /connect/{platform}: reads only.
GetConnectPage ==
  /\ began' = AfterRead("web")
  /\ UNCHANGED <<now, tokens, sessions, post, posts, author, stores, wiped,
                 reads, lastCommit, restarts>>

\* POST /connect/{platform}: the token is valid, the payload is well formed and
\* encrypted for the user of the token and the platform of the URL.
PostAccepts(t, platform) ==
  /\ post = NoPost
  /\ posts < MaxPosts
  /\ Valid(t, platform)
  /\ posts' = posts + 1
  /\ author' = Append(author, t)
  /\ post' = [step |-> "store", token |-> t, slot |-> <<tokens[t].slot[1], platform>>,
              payload |-> posts', at |-> now]
  /\ began' = AfterRead("web")
  /\ UNCHANGED <<now, tokens, sessions, stores, wiped, reads, lastCommit,
                 restarts>>

\* 404 or 400: nothing is stored and the token stays unused.
PostRefuses ==
  /\ post = NoPost
  /\ began' = AfterRead("web")
  /\ UNCHANGED <<now, tokens, sessions, post, posts, author, stores, wiped,
                 reads, lastCommit, restarts>>

\* Mutant: the session is stored and the link is never marked.
PostStoresOnly ==
  /\ post.step = "store"
  /\ sessions' = [sessions EXCEPT ![post.slot] =
       [status |-> "connected", payload |-> post.payload, sealed |-> post.slot]]
  /\ stores' = [stores EXCEPT ![post.token] = @ + 1]
  /\ post' = NoPost
  /\ began' = AfterCommit("web")
  /\ lastCommit' = now
  /\ UNCHANGED <<now, tokens, posts, author, wiped, reads, restarts>>

\* store_encrypted_session: an upsert, committed on its own.
PostStores ==
  /\ post.step = "store"
  /\ sessions' = [sessions EXCEPT ![post.slot] =
       [status |-> "connected", payload |-> post.payload, sealed |-> post.slot]]
  /\ stores' = [stores EXCEPT ![post.token] = @ + 1]
  /\ post' = [post EXCEPT !.step = "mark"]
  /\ began' = AfterCommit("web")
  /\ lastCommit' = now
  /\ UNCHANGED <<now, tokens, posts, author, wiped, reads, restarts>>

\* Mutant: the token is marked and the request never ends.
PostNeverEnds ==
  /\ post.step = "mark"
  /\ tokens' = [tokens EXCEPT ![post.token].used = TRUE]
  /\ post' = [post EXCEPT !.step = "marked"]
  /\ began' = AfterCommit("web")
  /\ lastCommit' = now
  /\ UNCHANGED <<now, sessions, posts, author, stores, wiped, reads, restarts>>

\* mark_connect_token_used, and the answer.
PostMarksUsed ==
  /\ post.step = "mark"
  /\ tokens' = [tokens EXCEPT ![post.token].used = TRUE]
  /\ post' = NoPost
  /\ began' = AfterCommit("web")
  /\ lastCommit' = now
  /\ UNCHANGED <<now, sessions, posts, author, stores, wiped, reads, restarts>>

\* A process dies and is started again; what it committed stays.
Restart(c) ==
  /\ restarts["bot"] + restarts["web"] < MaxRestarts
  /\ restarts' = [restarts EXCEPT ![c] = @ + 1]
  /\ post' = IF c = "web" THEN NoPost ELSE post
  /\ began' = [began EXCEPT ![c] = Idle]
  /\ UNCHANGED <<now, tokens, sessions, posts, author, stores, wiped, reads,
                 lastCommit>>

-----------------------------------------------------------------------------
(* The worker (session_resolver.py).  Nothing in the code ever sets the    *)
(* status "expired" or an expires_at, so those branches are not reachable. *)

ResolveSession(s) ==
  /\ sessions[s].status = "connected"
  /\ sessions[s].sealed = s         \* the payload decrypts for this user only
  /\ reads' = reads \union {<<s, sessions[s].payload>>}
  /\ UNCHANGED <<now, began, tokens, sessions, post, posts, author, stores,
                 wiped, lastCommit, restarts>>

Tick ==
  /\ now < MaxTime
  /\ now' = now + 1
  /\ UNCHANGED <<began, tokens, sessions, post, posts, author, stores, wiped,
                 reads, lastCommit, restarts>>

-----------------------------------------------------------------------------

Next ==
  \/ \E t \in Tokens, s \in Slots : CreateConnectToken(t, s)
  \/ \E c \in Connections, s \in Slots : Disconnect(c, s)
  \/ \E t \in Tokens, platform \in Platforms : PostAccepts(t, platform)
  \/ \E s \in Slots : ResolveSession(s)
  \/ ListSessions \/ GetConnectPage \/ PostRefuses
  \/ \E c \in Connections : Restart(c)
  \/ PostStores \/ PostMarksUsed \/ Tick

Spec == Init /\ [][Next]_vars

-----------------------------------------------------------------------------
(* Properties                                                              *)

TypeOK ==
  /\ now \in 0..MaxTime
  /\ began \in [Connections -> 0..MaxTime \union {Idle}]
  /\ tokens \in [Tokens -> [slot : Slots \union {<< >>}, expires : Nat, issued : Nat,
                          used : BOOLEAN]]
  /\ sessions \in [Slots -> [status : {"none", "connected", "revoked"},
                           payload : Nat, sealed : Slots \union {<< >>}]]
  /\ \/ post = NoPost
     \/ post \in [step : {"store", "mark"}, token : Tokens, slot : Slots,
                  payload : Nat \ {0}, at : Nat]
  /\ posts \in 0..MaxPosts
  /\ author \in Seq(Tokens) /\ Len(author) = posts
  /\ stores \in [Tokens -> Nat]
  /\ wiped \subseteq Payloads
  /\ reads \subseteq Slots \X Payloads
  /\ lastCommit \in 0..MaxTime
  /\ restarts \in [Connections -> 0..MaxRestarts]

\* A session belongs to the user who asked for the link it came through: a
\* connected row holds, sealed for its own user and platform, a payload that a
\* link of that same user and platform admitted and that no disconnect has
\* erased; a revoked row holds nothing.
SessionsAreOwn ==
  \A s \in Slots :
    /\ sessions[s].status = "connected" =>
         /\ sessions[s].payload \in 1..posts \ wiped
         /\ sessions[s].sealed = s
         /\ tokens[author[sessions[s].payload]].slot = s
    /\ sessions[s].status = "revoked" => sessions[s].payload = 0

\* A link stores one session, and one more for each death of the portal: only a
\* death between store_encrypted_session and mark_connect_token_used leaves a
\* used link usable.
LinkIsSpent ==
  \A t \in Tokens :
    /\ stores[t] <= 1 + restarts["web"]
    /\ tokens[t].used => stores[t] > 0

\* "Prevent future jobs from using the session": whatever POST is in progress
\* when a user disconnects, no job reads the erased payload afterwards, and no
\* job ever reads a payload that was not submitted through its own user's link.
RevokedIsNotRead ==
  [][\A r \in reads' \ reads :
       r[2] \notin wiped /\ tokens[author[r[2]]].slot = r[1]]_vars

\* How late an expired link can still be accepted: never after the portal has
\* committed anything at or past the end of the link's life.
ExpiryIsNoticed ==
  [][posts' > posts =>
       lastCommit < tokens[author'[posts']].issued + TTL]_vars

\* The refinement: a link is taken from the moment its session is stored, and
\* only the mark_connect_token_used that follows puts its use on record.
LinkState(t) ==
  IF ~Issued(t) THEN "none"
  ELSE IF post.step = "mark" /\ post.token = t THEN "taken"
  ELSE IF tokens[t].used THEN "used" ELSE "live"

Store == INSTANCE SessionStore WITH
  links <- [t \in Tokens |-> [slot |-> tokens[t].slot, state |-> LinkState(t)]],
  sessions <- [s \in Slots |-> [status |-> sessions[s].status,
                               payload |-> sessions[s].payload]],
  erased <- wiped

\* Bot, portal and jobs, over Postgres, with two commits for each POST and
\* deaths in between, implement the store the tests run the portal on.
ImplementsStore == Store!Spec

\* "Expired connect token cannot be used."
ExpiredLinkIsRefused ==
  post # NoPost => post.at < tokens[post.token].expires

\* "One-time use."
OneTimeUse == \A t \in Tokens : stores[t] <= 1
=============================================================================
