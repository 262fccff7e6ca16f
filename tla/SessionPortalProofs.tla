------------------------- MODULE SessionPortalProofs -------------------------
(***************************************************************************)
(* Proofs that the properties of SessionPortal hold for any users,         *)
(* platforms, tokens and lifetime of links, and that it implements         *)
(* SessionStore.  The clause that carries the proof is PostFits: what the  *)
(* POST in progress has read stays true until its second commit.           *)
(***************************************************************************)
EXTENDS SessionPortal, SequenceTheorems, TLAPS

\* The POST in progress is the last one accepted; the row of its token has not
\* changed since it was read, and nobody has seen its payload before it is stored.
PostFits ==
  post # NoPost =>
    /\ post.payload = posts /\ posts > 0
    /\ author[posts] = post.token
    /\ post.slot = tokens[post.token].slot
    /\ ~tokens[post.token].used
    /\ post.step = "store" =>
         posts \notin wiped /\ \A s \in Slots : sessions[s].payload # posts
    /\ post.step = "mark" => stores[post.token] > 0

\* Every payload belongs to the slot of the link that admitted it.
PayloadsFit ==
  /\ wiped \subseteq 1..posts
  /\ \A n \in 1..posts : tokens[author[n]].slot \in Slots
  /\ \A s \in Slots :
       /\ sessions[s].status = "connected" =>
            /\ sessions[s].payload \in 1..posts \ wiped
            /\ sessions[s].sealed = s
            /\ tokens[author[sessions[s].payload]].slot = s
       /\ sessions[s].status # "connected" => sessions[s].payload = 0

\* A link that is still good has stored at most one session for each death of
\* the portal.
LinksFit ==
  \A t \in Tokens :
    /\ stores[t] <= 1 + restarts["web"]
    /\ tokens[t].used => stores[t] > 0 /\ Issued(t)
    /\ ~tokens[t].used /\ ~(post.step = "mark" /\ post.token = t) => stores[t] <= restarts["web"]
    /\ Issued(t) => tokens[t].expires <= tokens[t].issued + TTL

\* A connection's time lies between the portal's last commit and the present.
ClocksFit ==
  /\ lastCommit <= now
  /\ \A c \in Connections : began[c] # Idle => began[c] <= now
  /\ began["web"] # Idle => lastCommit <= began["web"]

PortalInv == TypeOK /\ PostFits /\ PayloadsFit /\ LinksFit /\ ClocksFit
-----------------------------------------------------------------------------
(* Lemmas                                                                  *)

\* The key of a session is not the empty tuple that marks a token not yet drawn.
LEMMA SlotIsNotEmpty ==
  ASSUME NEW s \in Slots
  PROVE  s # << >>
<1>1. PICK u \in Users, p \in Platforms : s = <<u, p>>
  BY DEF Slots
<1>2. Len(<<u, p>>) = 2 /\ Len(<< >>) = 0
  OBVIOUS
<1> QED
  BY <1>1, <1>2

\* Appending to the list of authors leaves the earlier ones in place.
LEMMA AppendFacts ==
  ASSUME NEW S, NEW q \in Seq(S), NEW e \in S
  PROVE  /\ Append(q, e) \in Seq(S)
         /\ Len(Append(q, e)) = Len(q) + 1
         /\ \A i \in 1..Len(q) : Append(q, e)[i] = q[i]
         /\ Append(q, e)[Len(q) + 1] = e
  BY LenProperties

\* The time a connection reads lies between the portal's last commit and the present.
LEMMA TimestampIsPast ==
  ASSUME TypeOK, ClocksFit, NEW c \in Connections
  PROVE  /\ Timestamp(c) \in Nat /\ Timestamp(c) <= now
         /\ c = "web" => lastCommit <= Timestamp(c)
  BY PortalAssumption DEF TypeOK, ClocksFit, Timestamp, Idle, Connections

\* Reading opens a transaction that began at some time up to now.
LEMMA ReadIsTyped ==
  ASSUME TypeOK, ClocksFit, NEW c \in Connections
  PROVE  AfterRead(c) \in [Connections -> 0..MaxTime \union {Idle}]
<1>1. Timestamp(c) \in 0..MaxTime
  <2>1. Timestamp(c) \in Nat /\ Timestamp(c) <= now
    BY TimestampIsPast
  <2> QED
    BY <2>1, PortalAssumption DEF TypeOK
<1> QED
  BY <1>1 DEF AfterRead, TypeOK

\* What the type invariant says of a POST in progress.
LEMMA PostIsTyped ==
  ASSUME TypeOK
  PROVE  /\ post.step \in {"none", "store", "mark"}
         /\ post.step = "none" <=> post = NoPost
         /\ post # NoPost => /\ post.token \in Tokens /\ post.slot \in Slots
                            /\ post.payload \in Nat \ {0} /\ post.at \in Nat
                            /\ post \in [step : {"store", "mark"}, token : Tokens,
                                         slot : Slots, payload : Nat \ {0}, at : Nat]
<1>1. post = NoPost \/ post \in [step : {"store", "mark"}, token : Tokens, slot : Slots,
                                 payload : Nat \ {0}, at : Nat]
  BY DEF TypeOK
<1>2. NoPost.step = "none"
  BY DEF NoPost
<1> QED
  BY <1>1, <1>2

\* The tokens of accepted POSTs have been drawn.
LEMMA AuthorsAreIssued ==
  ASSUME PortalInv, NEW t \in Tokens, ~Issued(t)
  PROVE  /\ \A n \in 1..posts : author[n] # t
         /\ post # NoPost => post.token # t
         /\ ~tokens[t].used
<1>1. \A n \in 1..posts : author[n] # t
  BY SlotIsNotEmpty DEF PortalInv, PayloadsFit, Issued
<1>2. post # NoPost => post.token # t
  <2>1. post # NoPost => posts \in 1..posts
    BY DEF PortalInv, PostFits, TypeOK
  <2> QED
    BY <1>1, <2>1 DEF PortalInv, PostFits
<1> QED
  BY <1>1, <1>2 DEF PortalInv, LinksFit

\* No link has been drawn, no session stored and no POST begun.
LEMMA InitPortalInv == Init => PortalInv
<1> SUFFICES ASSUME Init PROVE PortalInv
  OBVIOUS
<1>1. TypeOK
  BY PortalAssumption DEF Init, TypeOK, NoToken, NoRow, NoPost, Idle, Connections, Payloads
<1>2. PostFits /\ PayloadsFit
  BY DEF Init, PostFits, PayloadsFit, NoRow
<1>3. LinksFit
  BY DEF Init, LinksFit, NoToken, NoPost, Issued, Connections
<1>4. ClocksFit
  BY DEF Init, ClocksFit, Idle, Connections
<1> QED
  BY <1>1, <1>2, <1>3, <1>4 DEF PortalInv

\* A new link keeps the invariant.
LEMMA CreateConnectTokenKeeps ==
  ASSUME PortalInv, NEW t \in Tokens, NEW s \in Slots, CreateConnectToken(t, s)
  PROVE  PortalInv'
<1> USE PortalAssumption DEF PortalInv
<1> DEFINE row == [slot |-> s, expires |-> Timestamp("bot") + TTL, issued |-> now,
                   used |-> FALSE]
<1>1. /\ Timestamp("bot") \in Nat /\ Timestamp("bot") <= now
      /\ now \in Nat
  BY TimestampIsPast DEF Connections, TypeOK
<1>2. row \in [slot : Slots \union {<< >>}, expires : Nat, issued : Nat, used : BOOLEAN]
  BY <1>1
<1>3. /\ tokens' = [tokens EXCEPT ![t] = row]
      /\ ~Issued(t)
      /\ UNCHANGED <<now, sessions, post, posts, author, stores, wiped, reads,
                     lastCommit, restarts>>
  BY DEF CreateConnectToken
<1>4. /\ \A n \in 1..posts : author[n] # t
      /\ post # NoPost => post.token # t
      /\ ~tokens[t].used
  BY <1>3, AuthorsAreIssued
<1>5. tokens'[t] = row /\ \A u \in Tokens \ {t} : tokens'[u] = tokens[u]
  BY <1>3 DEF TypeOK
<1>6. TypeOK'
  <2>1. tokens' \in [Tokens -> [slot : Slots \union {<< >>}, expires : Nat, issued : Nat,
                                used : BOOLEAN]]
    BY <1>2, <1>3 DEF TypeOK
  <2>2. began' \in [Connections -> 0..MaxTime \union {Idle}]
    BY DEF TypeOK, CreateConnectToken, AfterCommit
  <2> QED
    BY <1>3, <2>1, <2>2 DEF TypeOK
<1>7. PostFits'
  <2>1. post # NoPost => post.token \in Tokens \ {t}
    BY <1>4, PostIsTyped
  <2> QED
    BY <1>3, <1>5, <2>1 DEF PostFits
<1>8. PayloadsFit'
  <2>1. \A n \in 1..posts : author[n] \in Tokens \ {t}
    BY <1>4 DEF TypeOK
  <2>2. \A n \in 1..posts : tokens'[author[n]] = tokens[author[n]]
    BY <1>5, <2>1
  <2> QED
    BY <1>3, <2>2 DEF PayloadsFit
<1>9. LinksFit'
  <2>1. row.used = FALSE /\ row.expires <= row.issued + TTL
    BY <1>1
  <2>2. stores[t] <= restarts["web"]
    BY <1>4, PostIsTyped DEF LinksFit
  <2> QED
    BY <1>3, <1>5, <2>1, <2>2 DEF LinksFit, TypeOK, Issued
<1>10. ClocksFit'
  BY TimestampIsPast DEF TypeOK, ClocksFit, CreateConnectToken, AfterCommit, Idle, Connections
<1> QED
  BY <1>6, <1>7, <1>8, <1>9, <1>10

\* Reading the list of sessions keeps the invariant.
LEMMA ListSessionsKeeps ==
  ASSUME PortalInv, ListSessions
  PROVE  PortalInv'
<1> USE PortalAssumption DEF PortalInv
<1>1. TypeOK'
  <2>1. began' \in [Connections -> 0..MaxTime \union {Idle}]
    BY TimestampIsPast DEF TypeOK, ListSessions, AfterRead, Idle, Connections
  <2> QED
    BY <2>1 DEF TypeOK, ListSessions
<1>2. PostFits'
  BY DEF PostFits, ListSessions
<1>3. PayloadsFit'
  BY DEF PayloadsFit, ListSessions
<1>4. LinksFit'
  BY DEF LinksFit, ListSessions, Issued
<1>5. ClocksFit'
  BY TimestampIsPast DEF TypeOK, ClocksFit, ListSessions, AfterRead, Idle, Connections
<1> QED
  BY <1>1, <1>2, <1>3, <1>4, <1>5

\* A disconnect keeps the invariant.
LEMMA DisconnectKeeps ==
  ASSUME PortalInv, NEW c \in Connections, NEW s \in Slots, Disconnect(c, s)
  PROVE  PortalInv'
<1> USE PortalAssumption DEF PortalInv
<1>1. /\ \/ UNCHANGED <<sessions, wiped>>
         \/ /\ sessions' = [sessions EXCEPT ![s] = Revoked(@)]
            /\ wiped' = wiped \union ({sessions[s].payload} \ {0})
      /\ began' = AfterCommit(c)
      /\ lastCommit' = IF c = "web" THEN now ELSE lastCommit
      /\ UNCHANGED <<now, tokens, post, posts, author, stores, reads, restarts>>
  BY DEF Disconnect
<1>2. /\ Revoked(sessions[s]) \in [status : {"none", "connected", "revoked"},
                                  payload : Nat, sealed : Slots \union {<< >>}]
      /\ Revoked(sessions[s]).status = "revoked" /\ Revoked(sessions[s]).payload = 0
  <2>1. PICK row : row = sessions[s]
    OBVIOUS
  <2>2. row \in [status : {"none", "connected", "revoked"}, payload : Nat,
                 sealed : Slots \union {<< >>}]
    BY <2>1 DEF TypeOK
  <2> QED
    BY <2>1, <2>2 DEF Revoked
<1>3. /\ sessions[s].payload \in 0..posts
      /\ post.step = "store" => sessions[s].payload # posts
  <2>1. posts \in 0..MaxPosts
    BY DEF TypeOK
  <2>2. sessions[s].payload \in 1..posts \/ sessions[s].payload = 0
    BY DEF PayloadsFit
  <2>3. post.step = "store" => post # NoPost
    BY PostIsTyped
  <2> QED
    BY <2>1, <2>2, <2>3 DEF PostFits
<1>4. TypeOK'
  <2>1. sessions' \in [Slots -> [status : {"none", "connected", "revoked"},
                                payload : Nat, sealed : Slots \union {<< >>}]]
    BY <1>1, <1>2 DEF TypeOK
  <2>2. wiped' \subseteq Payloads
    <3>1. posts \in 0..MaxPosts /\ wiped \subseteq 1..MaxPosts
      BY DEF TypeOK, Payloads
    <3>2. {sessions[s].payload} \ {0} \subseteq 1..MaxPosts
      BY <1>3, <3>1
    <3> QED
      BY <1>1, <3>1, <3>2 DEF Payloads
  <2>3. began' \in [Connections -> 0..MaxTime \union {Idle}] /\ lastCommit' \in 0..MaxTime
    BY <1>1 DEF TypeOK, AfterCommit
  <2> QED
    BY <1>1, <2>1, <2>2, <2>3 DEF TypeOK
<1>5. \A r \in Slots : \/ sessions'[r] = sessions[r]
                       \/ r = s /\ sessions'[r] = Revoked(sessions[s])
  BY <1>1 DEF TypeOK
<1>6. PostFits'
  <2>1. post.step = "store" /\ post # NoPost =>
          posts \notin wiped' /\ posts > 0 /\ \A r \in Slots : sessions'[r].payload # posts
    BY <1>1, <1>2, <1>3, <1>5 DEF PostFits, TypeOK
  <2> QED
    BY <1>1, <2>1 DEF PostFits
<1>7. PayloadsFit'
  <2>1. wiped' \subseteq 1..posts
    BY <1>1, <1>3 DEF PayloadsFit, TypeOK
  <2>2. ASSUME NEW r \in Slots, sessions'[r].status = "connected"
        PROVE  /\ sessions'[r] = sessions[r]
               /\ sessions[r].payload \in 1..posts \ wiped'
    <3>1. sessions'[r] = sessions[r]
      BY <1>2, <1>5, <2>2
    <3>2. sessions[r].payload \in 1..posts \ wiped /\ tokens[author[sessions[r].payload]].slot = r
      BY <2>2, <3>1 DEF PayloadsFit
    <3>3. CASE UNCHANGED wiped
      BY <3>1, <3>2, <3>3
    <3>4. CASE /\ sessions' = [sessions EXCEPT ![s] = Revoked(@)]
               /\ wiped' = wiped \union ({sessions[s].payload} \ {0})
      <4>1. r # s
        BY <1>2, <2>2, <3>4 DEF TypeOK
      <4>2. sessions[r].payload # sessions[s].payload
        BY <3>2, <4>1 DEF PayloadsFit
      <4> QED
        BY <3>1, <3>2, <3>4, <4>2
    <3> QED
      BY <1>1, <3>3, <3>4
  <2> QED
    BY <1>1, <1>2, <1>5, <2>1, <2>2 DEF PayloadsFit
<1>8. LinksFit'
  BY <1>1 DEF LinksFit, Issued
<1>9. ClocksFit'
  BY <1>1 DEF TypeOK, ClocksFit, AfterCommit, Idle, Connections
<1> QED
  BY <1>4, <1>6, <1>7, <1>8, <1>9

\* Showing the form keeps the invariant.
LEMMA GetConnectPageKeeps ==
  ASSUME PortalInv, GetConnectPage
  PROVE  PortalInv'
<1> USE PortalAssumption DEF PortalInv
<1>1. TypeOK'
  <2>1. began' \in [Connections -> 0..MaxTime \union {Idle}]
    BY ReadIsTyped DEF GetConnectPage, Connections
  <2> QED
    BY <2>1 DEF TypeOK, GetConnectPage
<1>2. PostFits' /\ PayloadsFit' /\ LinksFit'
  BY DEF PostFits, PayloadsFit, LinksFit, GetConnectPage, Issued
<1>3. ClocksFit'
  BY TimestampIsPast DEF TypeOK, ClocksFit, GetConnectPage, AfterRead, Idle, Connections
<1> QED
  BY <1>1, <1>2, <1>3

\* The check of a POST keeps the invariant.
LEMMA PostAcceptsKeeps ==
  ASSUME PortalInv, NEW t \in Tokens, NEW platform \in Platforms, PostAccepts(t, platform)
  PROVE  PortalInv'
<1> USE PortalAssumption DEF PortalInv
<1>1. /\ post = NoPost /\ posts < MaxPosts
      /\ Issued(t) /\ tokens[t].slot[2] = platform /\ ~tokens[t].used
      /\ posts' = posts + 1 /\ author' = Append(author, t)
      /\ post' = [step |-> "store", token |-> t, slot |-> <<tokens[t].slot[1], platform>>,
                  payload |-> posts', at |-> now]
      /\ began' = AfterRead("web")
      /\ UNCHANGED <<now, tokens, sessions, stores, wiped, reads, lastCommit, restarts>>
  BY DEF PostAccepts, Valid
<1>2. posts \in Nat /\ posts' \in 1..MaxPosts /\ now \in Nat /\ Len(author) = posts
  BY <1>1 DEF TypeOK
<1>3. /\ tokens[t].slot \in Slots
      /\ tokens[t].slot = <<tokens[t].slot[1], platform>>
  <2>1. tokens[t].slot \in Users \X Platforms
    BY <1>1 DEF TypeOK, Issued, Slots
  <2> QED
    BY <1>1, <2>1 DEF Slots
<1>4. /\ author' \in Seq(Tokens) /\ Len(author') = posts'
      /\ \A i \in 1..posts : author'[i] = author[i]
      /\ author'[posts'] = t
  BY <1>1, <1>2, AppendFacts DEF TypeOK
<1>5. /\ post'.step = "store" /\ post'.token = t /\ post'.slot = tokens[t].slot
      /\ post'.payload = posts'
      /\ post' \in [step : {"store", "mark"}, token : Tokens, slot : Slots,
                    payload : Nat \ {0}, at : Nat]
  BY <1>1, <1>2, <1>3
<1>6. TypeOK'
  <2>1. began' \in [Connections -> 0..MaxTime \union {Idle}]
    BY <1>1, ReadIsTyped DEF Connections
  <2> QED
    BY <1>1, <1>2, <1>4, <1>5, <2>1 DEF TypeOK
<1>7. PostFits'
  <2>1. posts' \notin wiped' /\ \A s \in Slots : sessions'[s].payload # posts'
    BY <1>1, <1>2 DEF PayloadsFit, TypeOK
  <2> QED
    BY <1>1, <1>2, <1>4, <1>5, <2>1 DEF PostFits
<1>8. PayloadsFit'
  <2>1. \A n \in 1..posts' : n \in 1..posts \/ n = posts'
    BY <1>1, <1>2
  <2>2. \A n \in 1..posts' : tokens'[author'[n]].slot \in Slots
    BY <1>1, <1>3, <1>4, <2>1 DEF PayloadsFit
  <2>3. 1..posts \subseteq 1..posts'
    BY <1>1, <1>2
  <2>4. \A s \in Slots : sessions[s].status = "connected" =>
          author'[sessions[s].payload] = author[sessions[s].payload]
    BY <1>4 DEF PayloadsFit
  <2> QED
    BY <1>1, <2>2, <2>3, <2>4 DEF PayloadsFit
<1>9. LinksFit'
  <2>1. NoPost.step = "none"
    BY DEF NoPost
  <2> QED
    BY <1>1, <1>5, <2>1 DEF LinksFit, Issued
<1>10. ClocksFit'
  BY <1>1, TimestampIsPast DEF TypeOK, ClocksFit, AfterRead, Idle, Connections
<1> QED
  BY <1>6, <1>7, <1>8, <1>9, <1>10

\* A refused POST keeps the invariant.
LEMMA PostRefusesKeeps ==
  ASSUME PortalInv, PostRefuses
  PROVE  PortalInv'
<1> USE PortalAssumption DEF PortalInv
<1>1. TypeOK'
  <2>1. began' \in [Connections -> 0..MaxTime \union {Idle}]
    BY TimestampIsPast DEF TypeOK, PostRefuses, AfterRead, Idle, Connections
  <2> QED
    BY <2>1 DEF TypeOK, PostRefuses
<1>2. PostFits'
  BY DEF PostFits, PostRefuses
<1>3. PayloadsFit'
  BY DEF PayloadsFit, PostRefuses
<1>4. LinksFit'
  BY DEF LinksFit, PostRefuses, Issued
<1>5. ClocksFit'
  BY TimestampIsPast DEF TypeOK, ClocksFit, PostRefuses, AfterRead, Idle, Connections
<1> QED
  BY <1>1, <1>2, <1>3, <1>4, <1>5

\* The first commit of a POST keeps the invariant.
LEMMA PostStoresKeeps ==
  ASSUME PortalInv, PostStores
  PROVE  PortalInv'
<1> USE PortalAssumption DEF PortalInv
<1> DEFINE row == [status |-> "connected", payload |-> post.payload, sealed |-> post.slot]
           t == post.token
<1>1. /\ post.step = "store"
      /\ sessions' = [sessions EXCEPT ![post.slot] = row]
      /\ stores' = [stores EXCEPT ![t] = @ + 1]
      /\ post' = [post EXCEPT !.step = "mark"]
      /\ began' = AfterCommit("web") /\ lastCommit' = now
      /\ UNCHANGED <<now, tokens, posts, author, wiped, reads, restarts>>
  BY DEF PostStores
<1>2. /\ post # NoPost /\ t \in Tokens /\ post.slot \in Slots
      /\ post.payload \in Nat \ {0} /\ post.at \in Nat
      /\ post \in [step : {"store", "mark"}, token : Tokens, slot : Slots,
                   payload : Nat \ {0}, at : Nat]
  BY <1>1, PostIsTyped
<1>3. /\ post.payload = posts /\ posts \in 1..posts /\ posts \notin wiped
      /\ author[posts] = t /\ post.slot = tokens[t].slot /\ ~tokens[t].used
  <2>1. /\ post.payload = posts /\ posts > 0 /\ posts \notin wiped
        /\ author[posts] = t /\ post.slot = tokens[t].slot /\ ~tokens[t].used
    BY <1>1, <1>2 DEF PostFits
  <2>2. posts \in Nat
    BY DEF TypeOK
  <2> QED
    BY <2>1, <2>2
<1>4. /\ post' \in [step : {"store", "mark"}, token : Tokens, slot : Slots,
                    payload : Nat \ {0}, at : Nat]
      /\ post'.step = "mark" /\ post'.token = t /\ post'.slot = post.slot
      /\ post'.payload = post.payload
  BY <1>1, <1>2
<1>5. /\ \A s \in Slots \ {post.slot} : sessions'[s] = sessions[s]
      /\ sessions'[post.slot] = row
      /\ row.status = "connected" /\ row.payload = posts /\ row.sealed = post.slot
  BY <1>1, <1>2, <1>3 DEF TypeOK
<1>6. /\ stores[t] \in Nat /\ stores'[t] = stores[t] + 1
      /\ \A u \in Tokens \ {t} : stores'[u] = stores[u]
      /\ stores' \in [Tokens -> Nat]
  BY <1>1, <1>2 DEF TypeOK
<1>7. TypeOK'
  <2>1. sessions' \in [Slots -> [status : {"none", "connected", "revoked"},
                                payload : Nat, sealed : Slots \union {<< >>}]]
    BY <1>1, <1>2 DEF TypeOK
  <2>2. began' \in [Connections -> 0..MaxTime \union {Idle}] /\ lastCommit' \in 0..MaxTime
    BY <1>1 DEF TypeOK, AfterCommit
  <2> QED
    BY <1>1, <1>4, <1>6, <2>1, <2>2 DEF TypeOK
<1>8. PostFits'
  <2>1. stores'[post'.token] > 0 /\ post'.step # "store" /\ posts > 0
    BY <1>2, <1>3, <1>4, <1>6
  <2> QED
    BY <1>1, <1>3, <1>4, <2>1 DEF PostFits
<1>9. PayloadsFit'
  BY <1>1, <1>2, <1>3, <1>5 DEF PayloadsFit
<1>10. LinksFit'
  <2>1. stores[t] <= restarts["web"]
    BY <1>1, <1>2, <1>3 DEF LinksFit
  <2>2. restarts["web"] \in Nat
    BY DEF TypeOK, Connections
  <2>3. stores'[t] <= 1 + restarts["web"] /\ stores'[t] > 0
    BY <1>6, <2>1, <2>2
  <2>4. ASSUME NEW u \in Tokens \ {t}
        PROVE  ~tokens[u].used => stores[u] <= restarts["web"]
    BY <1>1, <2>4 DEF LinksFit
  <2> QED
    BY <1>1, <1>3, <1>4, <1>6, <2>3, <2>4 DEF LinksFit, Issued
<1>11. ClocksFit'
  BY <1>1 DEF TypeOK, ClocksFit, AfterCommit, Idle, Connections
<1> QED
  BY <1>7, <1>8, <1>9, <1>10, <1>11

\* The second commit of a POST keeps the invariant.
LEMMA PostMarksUsedKeeps ==
  ASSUME PortalInv, PostMarksUsed
  PROVE  PortalInv'
<1> USE PortalAssumption DEF PortalInv
<1> DEFINE t == post.token
<1>1. /\ post.step = "mark" /\ post' = NoPost
      /\ tokens' = [tokens EXCEPT ![t].used = TRUE]
      /\ began' = AfterCommit("web") /\ lastCommit' = now
      /\ UNCHANGED <<now, sessions, posts, author, stores, wiped, reads, restarts>>
  BY DEF PostMarksUsed
<1>2. post # NoPost /\ t \in Tokens /\ post.slot \in Slots /\ NoPost.step = "none"
  BY <1>1, PostIsTyped DEF NoPost
<1>3. /\ tokens' \in [Tokens -> [slot : Slots \union {<< >>}, expires : Nat, issued : Nat,
                                used : BOOLEAN]]
      /\ tokens'[t].used
      /\ \A u \in Tokens : /\ tokens'[u].slot = tokens[u].slot
                           /\ tokens'[u].expires = tokens[u].expires
                           /\ tokens'[u].issued = tokens[u].issued
      /\ \A u \in Tokens \ {t} : tokens'[u] = tokens[u]
  <2> DEFINE row == [tokens[t] EXCEPT !.used = TRUE]
  <2>1. /\ tokens \in [Tokens -> [slot : Slots \union {<< >>}, expires : Nat, issued : Nat,
                                  used : BOOLEAN]]
        /\ tokens' = [tokens EXCEPT ![t] = row]
    BY <1>1 DEF TypeOK
  <2>2. /\ row \in [slot : Slots \union {<< >>}, expires : Nat, issued : Nat, used : BOOLEAN]
        /\ row.used /\ row.slot = tokens[t].slot /\ row.expires = tokens[t].expires
        /\ row.issued = tokens[t].issued
    BY <1>2, <2>1
  <2> HIDE DEF row
  <2>3. tokens'[t] = row /\ \A u \in Tokens \ {t} : tokens'[u] = tokens[u]
    BY <1>2, <2>1
  <2>4. tokens' \in [Tokens -> [slot : Slots \union {<< >>}, expires : Nat, issued : Nat,
                                used : BOOLEAN]]
    BY <1>2, <2>1, <2>2
  <2> QED
    BY <2>2, <2>3, <2>4
<1>4. /\ stores[t] > 0 /\ Issued(t)
  BY <1>1, <1>2, SlotIsNotEmpty DEF PostFits, Issued
<1>5. TypeOK'
  <2>1. began' \in [Connections -> 0..MaxTime \union {Idle}] /\ lastCommit' \in 0..MaxTime
    BY <1>1 DEF TypeOK, AfterCommit
  <2> QED
    BY <1>1, <1>3, <2>1 DEF TypeOK
<1>6. PostFits'
  BY <1>1 DEF PostFits
<1>7. PayloadsFit'
  <2>1. \A n \in 1..posts : author[n] \in Tokens
    BY DEF TypeOK
  <2>2. \A n \in 1..posts : tokens'[author[n]].slot = tokens[author[n]].slot
    BY <1>3, <2>1
  <2> QED
    BY <1>1, <2>2 DEF PayloadsFit
<1>8. LinksFit'
  BY <1>1, <1>2, <1>3, <1>4 DEF LinksFit, Issued
<1>9. ClocksFit'
  BY <1>1 DEF TypeOK, ClocksFit, AfterCommit, Idle, Connections
<1> QED
  BY <1>5, <1>6, <1>7, <1>8, <1>9

\* A death and restart of the bot or the portal keeps the invariant.
LEMMA RestartKeeps ==
  ASSUME PortalInv, NEW c \in Connections, Restart(c)
  PROVE  PortalInv'
<1> USE PortalAssumption DEF PortalInv
<1>1. /\ restarts["web"] \in Nat /\ restarts' \in [Connections -> 0..MaxRestarts]
      /\ \/ post' = NoPost /\ restarts'["web"] = restarts["web"] + 1
         \/ post' = post /\ restarts'["web"] = restarts["web"]
      /\ began' = [began EXCEPT ![c] = Idle]
      /\ UNCHANGED <<now, tokens, sessions, posts, author, stores, wiped, reads, lastCommit>>
  BY DEF Restart, TypeOK, Connections
<1>2. TypeOK'
  <2>1. began' \in [Connections -> 0..MaxTime \union {Idle}]
    BY <1>1 DEF TypeOK
  <2> QED
    BY <1>1, <2>1 DEF TypeOK
<1>3. PostFits' /\ PayloadsFit'
  BY <1>1 DEF PostFits, PayloadsFit
<1>4. LinksFit'
  BY <1>1 DEF LinksFit, Issued, TypeOK
<1>5. ClocksFit'
  BY <1>1 DEF TypeOK, ClocksFit, Idle, Connections
<1> QED
  BY <1>2, <1>3, <1>4, <1>5

\* A job reading a session keeps the invariant.
LEMMA ResolveSessionKeeps ==
  ASSUME PortalInv, NEW s \in Slots, ResolveSession(s)
  PROVE  PortalInv'
<1> USE PortalAssumption DEF PortalInv
<1>1. /\ sessions[s].status = "connected"
      /\ reads' = reads \union {<<s, sessions[s].payload>>}
      /\ UNCHANGED <<now, began, tokens, sessions, post, posts, author, stores, wiped,
                     lastCommit, restarts>>
  BY DEF ResolveSession
<1>2. TypeOK'
  <2>1. sessions[s].payload \in Payloads
    <3>1. sessions[s].payload \in 1..posts /\ posts \in 0..MaxPosts
      BY <1>1 DEF PayloadsFit, TypeOK
    <3> QED
      BY <3>1 DEF Payloads
  <2> QED
    BY <1>1, <2>1 DEF TypeOK
<1>3. PostFits' /\ PayloadsFit' /\ LinksFit' /\ ClocksFit'
  BY <1>1 DEF PostFits, PayloadsFit, LinksFit, ClocksFit, Issued
<1> QED
  BY <1>2, <1>3

\* Time passing keeps the invariant.
LEMMA TickKeeps ==
  ASSUME PortalInv, Tick
  PROVE  PortalInv'
<1> USE PortalAssumption DEF PortalInv
<1>1. TypeOK'
  <2>1. now' \in 0..MaxTime
    BY DEF TypeOK, Tick
  <2>2. UNCHANGED <<began, tokens, sessions, post, posts, author, stores, wiped, reads,
                    lastCommit, restarts>>
    BY DEF Tick
  <2> QED
    BY <2>1, <2>2 DEF TypeOK, NoPost, Idle, Connections, Payloads
<1>2. PostFits'
  BY DEF TypeOK, PostFits, PayloadsFit, LinksFit, Tick, NoPost
<1>3. PayloadsFit'
  BY DEF TypeOK, PostFits, PayloadsFit, LinksFit, Tick, NoPost, Payloads
<1>4. LinksFit'
  BY DEF TypeOK, PostFits, LinksFit, Tick, NoPost, Issued
<1>5. ClocksFit'
  BY TimestampIsPast DEF TypeOK, ClocksFit, Tick, Idle, Connections
<1> QED
  BY <1>1, <1>2, <1>3, <1>4, <1>5

-----------------------------------------------------------------------------
(* Theorems                                                                *)

\* PortalInv is inductive.
LEMMA NextKeepsPortalInv == PortalInv /\ [Next]_vars => PortalInv'
<1> SUFFICES ASSUME PortalInv, [Next]_vars PROVE PortalInv'
  OBVIOUS
<1>1. CASE UNCHANGED vars
  BY <1>1 DEF vars, PortalInv, TypeOK, PostFits, PayloadsFit, LinksFit, ClocksFit, Issued
<1>2. CASE Next
  BY <1>2, CreateConnectTokenKeeps, ListSessionsKeeps, DisconnectKeeps, GetConnectPageKeeps,
     PostAcceptsKeeps, PostRefusesKeeps, PostStoresKeeps, PostMarksUsedKeeps, RestartKeeps,
     ResolveSessionKeeps, TickKeeps DEF Next
<1> QED
  BY <1>1, <1>2

\* What the POST in progress relies on, and with it the invariant, holds in every
\* reachable state.
THEOREM PortalInductive == Spec => []PortalInv
  BY InitPortalInv, NextKeepsPortalInv, PTL DEF Spec

\* Every variable keeps its type.
THEOREM PortalTypeCorrect == Spec => []TypeOK
<1>1. PortalInv => TypeOK
  BY DEF PortalInv
<1> QED
  BY <1>1, PortalInductive, PTL

\* A connected row holds what its own user submitted through a link of that user
\* and platform, and nothing a disconnect has erased.
THEOREM SessionsStayOwn == Spec => []SessionsAreOwn
<1>1. PortalInv => SessionsAreOwn
  BY DEF PortalInv, TypeOK, PayloadsFit, SessionsAreOwn
<1> QED
  BY <1>1, PortalInductive, PTL

\* A link stores one session, and one more for each death of the portal.
THEOREM LinksAreSpent == Spec => []LinkIsSpent
<1>1. PortalInv => LinkIsSpent
  BY DEF PortalInv, LinksFit, LinkIsSpent
<1> QED
  BY <1>1, PortalInductive, PTL

\* Only ResolveSession lets a job read, and it reads what the row holds now.
LEMMA ReadsAreFresh ==
  ASSUME PortalInv, [Next]_vars, NEW r \in reads' \ reads
  PROVE  r[2] \notin wiped /\ tokens[author[r[2]]].slot = r[1]
<1>1. CASE \E s \in Slots : ResolveSession(s)
  <2>1. PICK s \in Slots : ResolveSession(s)
    BY <1>1
  <2>2. sessions[s].status = "connected" /\ r = <<s, sessions[s].payload>>
    BY <2>1 DEF ResolveSession
  <2> QED
    BY <2>2 DEF PortalInv, PayloadsFit
<1>2. CASE ~\E s \in Slots : ResolveSession(s)
  <2>1. reads' = reads
    BY <1>2 DEF Next, vars, CreateConnectToken, ListSessions, Disconnect, GetConnectPage,
       PostAccepts, PostRefuses, PostStores, PostMarksUsed, Restart, Tick
  <2> QED
    BY <2>1
<1> QED
  BY <1>1, <1>2

\* Whatever interleaves with it, a disconnect is final for the payload it erased.
THEOREM RevokedStaysUnread == Spec => RevokedIsNotRead
<1>1. PortalInv /\ [Next]_vars =>
        [\A r \in reads' \ reads :
           r[2] \notin wiped /\ tokens[author[r[2]]].slot = r[1]]_vars
  BY ReadsAreFresh
<1> QED
  BY <1>1, PortalInductive, PTL DEF Spec, RevokedIsNotRead

\* Only PostAccepts accepts a payload, at a time not before the last commit.
LEMMA AcceptedIsAlive ==
  ASSUME PortalInv, [Next]_vars, posts' > posts
  PROVE  lastCommit < tokens[author'[posts']].issued + TTL
<1> USE PortalAssumption DEF PortalInv
<1>1. PICK t \in Tokens, platform \in Platforms : PostAccepts(t, platform)
  <2>1. posts \in Nat
    BY DEF TypeOK
  <2> QED
    BY <2>1 DEF Next, vars, CreateConnectToken, ListSessions, Disconnect, GetConnectPage,
       ResolveSession, PostRefuses, PostStores, PostMarksUsed, Restart, Tick
<1>2. author'[posts'] = t
  BY <1>1, AppendFacts DEF PostAccepts, TypeOK
<1>3. /\ tokens[t].expires > Timestamp("web")
      /\ tokens[t].expires <= tokens[t].issued + TTL
  BY <1>1 DEF PostAccepts, Valid, LinksFit
<1>4. /\ tokens[t].expires \in Nat /\ tokens[t].issued \in Nat /\ lastCommit \in Nat
      /\ Timestamp("web") \in Nat /\ lastCommit <= Timestamp("web")
  <2>1. "web" \in Connections
    BY DEF Connections
  <2>2. Timestamp("web") \in Nat /\ lastCommit <= Timestamp("web")
    BY <2>1, TimestampIsPast
  <2> QED
    BY <2>2 DEF TypeOK
<1> QED
  BY <1>2, <1>3, <1>4

\* The portal never accepts a link that was expired at its own last commit.
THEOREM ExpiryHasABound == Spec => ExpiryIsNoticed
<1>1. PortalInv /\ [Next]_vars =>
        [posts' > posts => lastCommit < tokens[author'[posts']].issued + TTL]_vars
  BY AcceptedIsAlive
<1> QED
  BY <1>1, PortalInductive, PTL DEF Spec, ExpiryIsNoticed

-----------------------------------------------------------------------------
(* Refinement of SessionStore.  It rests on PortalInv: when a POST gets to   *)
(* its first commit, the link it checked is still good and its payload is    *)
(* still unseen.                                                             *)

\* The state of a link depends on its row and on the POST in progress.
LEMMA SameLink ==
  ASSUME NEW t \in Tokens, tokens'[t] = tokens[t],
         post'.step = "mark" /\ post'.token = t <=> post.step = "mark" /\ post.token = t
  PROVE  LinkState(t)' = LinkState(t)
  BY DEF LinkState, Issued

\* A step that leaves rows, links, erased payloads and reads alone is a stutter.
LEMMA StoreStutters ==
  ASSUME TypeOK, UNCHANGED <<tokens, sessions, wiped, reads>>,
         \A t \in Tokens :
           post'.step = "mark" /\ post'.token = t <=> post.step = "mark" /\ post.token = t
  PROVE  UNCHANGED Store!vars
<1>1. \A t \in Tokens : LinkState(t)' = LinkState(t)
  BY SameLink
<1> QED
  BY <1>1 DEF Store!vars

\* Reading, checking, refusing and the clock change nothing users see.
LEMMA PortalStutters ==
  ASSUME TypeOK,
         \/ ListSessions \/ GetConnectPage \/ PostRefuses \/ Tick
         \/ \E t \in Tokens, platform \in Platforms : PostAccepts(t, platform)
  PROVE  UNCHANGED Store!vars
<1>1. UNCHANGED <<tokens, sessions, wiped, reads>>
  BY DEF ListSessions, GetConnectPage, PostRefuses, Tick, PostAccepts
<1>2. \/ UNCHANGED post
      \/ post.step # "mark" /\ post'.step # "mark"
  BY DEF ListSessions, GetConnectPage, PostRefuses, Tick, PostAccepts, NoPost
<1> QED
  BY <1>1, <1>2, StoreStutters

\* The bot's link is one that had not been drawn.
LEMMA CreateMaps ==
  ASSUME PortalInv, NEW t \in Tokens, NEW s \in Slots, CreateConnectToken(t, s)
  PROVE  Store!CreateConnectToken(t, s)
<1>1. /\ ~Issued(t)
      /\ tokens' = [tokens EXCEPT ![t] =
           [slot |-> s, expires |-> Timestamp("bot") + TTL, issued |-> now, used |-> FALSE]]
      /\ UNCHANGED <<sessions, post, wiped, reads>>
  BY DEF CreateConnectToken
<1>2. /\ tokens'[t].slot = s /\ ~tokens'[t].used
      /\ \A u \in Tokens \ {t} : tokens'[u] = tokens[u]
  BY <1>1 DEF PortalInv, TypeOK
<1>3. LinkState(t) = "none" /\ tokens[t].slot = << >>
  BY <1>1 DEF LinkState, Issued
<1>4. LinkState(t)' = "live"
  <2>1. ~(post.step = "mark" /\ post.token = t)
    BY <1>1, AuthorsAreIssued, PostIsTyped DEF PortalInv
  <2> QED
    BY <1>1, <1>2, <2>1, SlotIsNotEmpty DEF LinkState, Issued
<1>5. \A u \in Tokens \ {t} : LinkState(u)' = LinkState(u)
  BY <1>1, <1>2, SameLink
<1> QED
  BY <1>1, <1>2, <1>3, <1>4, <1>5 DEF Store!CreateConnectToken, Store!NoLink

\* The first commit of a POST stores its payload for the slot of a live link.
LEMMA StoreMaps ==
  ASSUME PortalInv, PostStores
  PROVE  \E t \in Tokens, payload \in Payloads : Store!StoreSession(t, payload)
<1>1. /\ post.step = "store" /\ post # NoPost
      /\ sessions' = [sessions EXCEPT ![post.slot] =
           [status |-> "connected", payload |-> post.payload, sealed |-> post.slot]]
      /\ post' = [post EXCEPT !.step = "mark"]
      /\ UNCHANGED <<tokens, wiped, reads>>
  BY PostIsTyped DEF PostStores, PortalInv
<1>2. PICK t \in Tokens, n \in Payloads, slot \in Slots :
        post.token = t /\ post.payload = n /\ post.slot = slot
  <2>1. posts \in Payloads
    BY <1>1 DEF PortalInv, PostFits, TypeOK, Payloads
  <2> QED
    BY <1>1, <2>1, PostIsTyped DEF PortalInv, PostFits
<1>3. post'.step = "mark" /\ post'.token = t
  BY <1>1, <1>2, PostIsTyped DEF PortalInv
<1>4. /\ n \notin wiped /\ \A s \in Slots : sessions[s].payload # n
      /\ tokens[t].slot = slot /\ ~tokens[t].used
  BY <1>1, <1>2 DEF PortalInv, PostFits
<1>5. LinkState(t) = "live" /\ \A u \in Tokens : LinkState(u) # "taken"
  BY <1>1, <1>2, <1>4, SlotIsNotEmpty DEF LinkState, Issued
<1>6. LinkState(t)' = "taken" /\ \A u \in Tokens \ {t} : LinkState(u)' = LinkState(u)
  BY <1>1, <1>2, <1>3, <1>4, SlotIsNotEmpty DEF LinkState, Issued
<1>7. /\ sessions'[slot].status = "connected" /\ sessions'[slot].payload = n
      /\ \A s \in Slots \ {slot} : sessions'[s] = sessions[s]
  BY <1>1, <1>2 DEF PortalInv, TypeOK
<1>8. [s \in Slots |-> [status |-> sessions'[s].status, payload |-> sessions'[s].payload]]
        = [[s \in Slots |-> [status |-> sessions[s].status, payload |-> sessions[s].payload]]
             EXCEPT ![slot] = [status |-> "connected", payload |-> n]]
  BY <1>7
<1>9. [u \in Tokens |-> [slot |-> tokens'[u].slot, state |-> LinkState(u)']]
        = [[u \in Tokens |-> [slot |-> tokens[u].slot, state |-> LinkState(u)]]
             EXCEPT ![t].state = "taken"]
  BY <1>1, <1>6
<1>10. Store!StoreSession(t, n)
  BY <1>1, <1>4, <1>5, <1>8, <1>9 DEF Store!StoreSession
<1> QED
  BY <1>10

\* The second commit puts the use of the link on record.
LEMMA MarkMaps ==
  ASSUME PortalInv, PostMarksUsed
  PROVE  \E t \in Tokens : Store!MarkUsed(t)
<1>0. PICK t \in Tokens : post.token = t
  BY PostIsTyped DEF PostMarksUsed, PortalInv
<1>1. /\ post.step = "mark" /\ post # NoPost /\ post' = NoPost /\ post'.step = "none"
      /\ tokens' = [tokens EXCEPT ![t].used = TRUE]
      /\ UNCHANGED <<sessions, wiped, reads>>
  BY <1>0, PostIsTyped DEF PostMarksUsed, PortalInv, NoPost
<1>2. tokens[t].slot \in Slots
  BY <1>0, <1>1, PostIsTyped DEF PortalInv, PostFits
<1>3. /\ tokens'[t].used
      /\ tokens'[t].slot = tokens[t].slot
      /\ \A u \in Tokens \ {t} : tokens'[u] = tokens[u]
  <2>1. tokens[t] \in [slot : Slots \union {<< >>}, expires : Nat, issued : Nat, used : BOOLEAN]
    BY DEF PortalInv, TypeOK
  <2> QED
    BY <1>1, <2>1 DEF PortalInv, TypeOK
<1>4. LinkState(t) = "taken" /\ LinkState(t)' = "used"
  BY <1>0, <1>1, <1>2, <1>3, SlotIsNotEmpty DEF LinkState, Issued
<1>5. \A u \in Tokens \ {t} : LinkState(u)' = LinkState(u)
  BY <1>0, <1>1, <1>3 DEF LinkState, Issued
<1>6. Store!MarkUsed(t)
  BY <1>1, <1>3, <1>4, <1>5 DEF Store!MarkUsed
<1> QED
  BY <1>6

\* A death loses the use of the link that was stored and not yet marked.
LEMMA RestartMaps ==
  ASSUME PortalInv, NEW c \in Connections, Restart(c)
  PROVE  (\E t \in Tokens : Store!LoseMark(t)) \/ UNCHANGED Store!vars
<1>1. /\ post' = (IF c = "web" THEN NoPost ELSE post)
      /\ UNCHANGED <<tokens, sessions, wiped, reads>>
  BY DEF Restart
<1>2. NoPost.step = "none"
  BY DEF NoPost
<1>3. CASE c = "web" /\ post.step = "mark"
  <2>0. PICK t \in Tokens : post.token = t
    BY <1>3, PostIsTyped DEF PortalInv
  <2>1. tokens[t].slot \in Slots /\ ~tokens[t].used
    BY <1>3, <2>0, PostIsTyped DEF PortalInv, PostFits
  <2>2. LinkState(t) = "taken" /\ LinkState(t)' = "live"
    BY <1>1, <1>2, <1>3, <2>0, <2>1, SlotIsNotEmpty DEF LinkState, Issued
  <2>3. \A u \in Tokens \ {t} : LinkState(u)' = LinkState(u)
    BY <1>1, <1>2, <1>3, <2>0 DEF LinkState, Issued
  <2>4. Store!LoseMark(t)
    BY <1>1, <2>2, <2>3 DEF Store!LoseMark
  <2> QED
    BY <2>4
<1>4. CASE ~(c = "web" /\ post.step = "mark")
  BY <1>1, <1>2, <1>4, StoreStutters DEF PortalInv
<1> QED
  BY <1>3, <1>4

\* A disconnect revokes the row there is, or finds none.
LEMMA DisconnectMaps ==
  ASSUME PortalInv, NEW c \in Connections, NEW s \in Slots, Disconnect(c, s)
  PROVE  Store!RevokeSession(s) \/ UNCHANGED Store!vars
<1>1. UNCHANGED <<tokens, post, reads>>
  BY DEF Disconnect
<1>2. \A t \in Tokens : LinkState(t)' = LinkState(t)
  BY <1>1, SameLink
<1>3. CASE sessions[s].status = "none"
  BY <1>1, <1>3, StoreStutters DEF Disconnect, PortalInv
<1>4. CASE sessions[s].status # "none"
  <2>1. /\ sessions' = [sessions EXCEPT ![s] = Revoked(@)]
        /\ wiped' = wiped \union ({sessions[s].payload} \ {0})
    BY <1>4 DEF Disconnect
  <2>2. Revoked(sessions[s]).status = "revoked" /\ Revoked(sessions[s]).payload = 0
    BY DEF Revoked, PortalInv, TypeOK
  <2>3. /\ sessions'[s] = Revoked(sessions[s])
        /\ \A r \in Slots \ {s} : sessions'[r] = sessions[r]
    BY <2>1 DEF PortalInv, TypeOK
  <2> QED
    BY <1>1, <1>2, <1>4, <2>1, <2>2, <2>3 DEF Store!RevokeSession
<1> QED
  BY <1>3, <1>4

\* A job reads the row of its own user.
LEMMA ResolveMaps ==
  ASSUME PortalInv, NEW s \in Slots, ResolveSession(s)
  PROVE  Store!ReadSession(s)
<1>1. /\ sessions[s].status = "connected"
      /\ reads' = reads \union {<<s, sessions[s].payload>>}
      /\ UNCHANGED <<tokens, post, sessions, wiped>>
  BY DEF ResolveSession
<1>2. \A t \in Tokens : LinkState(t)' = LinkState(t)
  BY <1>1, SameLink
<1> QED
  BY <1>1, <1>2 DEF Store!ReadSession

-----------------------------------------------------------------------------

\* At the start no link has been drawn and no session stored.
LEMMA StoreInitMaps == Init => Store!Init
  BY DEF Init, Store!Init, Store!NoLink, NoRow, NoToken, LinkState, Issued

\* Every step is a step of the store or a stutter.
LEMMA StoreStepMaps ==
  ASSUME PortalInv, [Next]_vars
  PROVE  [Store!Next]_Store!vars
<1>1. CASE UNCHANGED vars
  BY <1>1, StoreStutters DEF vars, PortalInv
<1>2. CASE \/ ListSessions \/ GetConnectPage \/ PostRefuses \/ Tick
           \/ \E t \in Tokens, platform \in Platforms : PostAccepts(t, platform)
  BY <1>2, PortalStutters DEF PortalInv
<1>3. CASE \E t \in Tokens, s \in Slots : CreateConnectToken(t, s)
  BY <1>3, CreateMaps DEF Store!Next
<1>4. CASE PostStores
  BY <1>4, StoreMaps DEF Store!Next
<1>5. CASE PostMarksUsed
  BY <1>5, MarkMaps DEF Store!Next
<1>6. CASE \E c \in Connections : Restart(c)
  BY <1>6, RestartMaps DEF Store!Next
<1>7. CASE \E c \in Connections, s \in Slots : Disconnect(c, s)
  BY <1>7, DisconnectMaps DEF Store!Next
<1>8. CASE \E s \in Slots : ResolveSession(s)
  BY <1>8, ResolveMaps DEF Store!Next
<1> QED
  BY <1>1, <1>2, <1>3, <1>4, <1>5, <1>6, <1>7, <1>8 DEF Next

\* The bot, the portal and the jobs over Postgres, with their separate commits and
\* deaths, behave like the store of SessionStore.
THEOREM StoreIsImplemented == Spec => ImplementsStore
<1>1. PortalInv /\ [Next]_vars => [Store!Next]_Store!vars
  BY StoreStepMaps
<1> QED
  BY <1>1, StoreInitMaps, PortalInductive, PTL DEF Spec, ImplementsStore, Store!Spec
=============================================================================
