----------------------------- MODULE InputRules -----------------------------
(***************************************************************************)
(* The rules that decide about what users type: the platform of a message  *)
(* and the payload of a session, run on one input after the other.         *)
(***************************************************************************)
EXTENDS UrlDetection, CookiePayload

CONSTANTS
  Messages,   (* sequences of links *)
  Payloads,   (* sequences of lines *)
  Dresses     (* what a host may be dressed with in a link *)

\* User information (which may hold any mark), "www.", capitals, final dots and
\* a port.
Dress ==
  [user : Seq(Authority), www : BOOLEAN, upper : BOOLEAN, dots : Nat, port : Seq(Dotted)]

ASSUME InputsAssumption ==
  /\ Messages \subseteq Seq(Link)
  /\ Payloads \subseteq Seq(Line)
  /\ Dresses \subseteq Dress

VARIABLES
  input,   (* [kind, what]: what was given last      *)
  result   (* what the code made of it               *)

vars == <<input, result>>

Init == input = [kind |-> "none"] /\ result = "none"

Idle == input.kind = "none"

\* A user sends a text message, or posts a payload with a valid link.
SendMessage(message) ==
  /\ Idle
  /\ input' = [kind |-> "message", what |-> message]
  /\ UNCHANGED result

SubmitPayload(payload, platform) ==
  /\ Idle
  /\ input' = [kind |-> "payload", what |-> payload, platform |-> platform]
  /\ UNCHANGED result

\* The bot or the portal decides about it.
Decide ==
  /\ ~Idle /\ result = "none"
  /\ result' = IF input.kind = "message" THEN JobPlatform(input.what)
               ELSE Validate(input.what, input.platform)
  /\ UNCHANGED input

\* The next input is awaited.
Forget == result # "none" /\ input' = [kind |-> "none"] /\ result' = "none"

Next ==
  \/ \E message \in Messages : SendMessage(message)
  \/ \E payload \in Payloads, platform \in {"instagram", "pinterest", "tiktok"} :
       SubmitPayload(payload, platform)
  \/ Decide \/ Forget

Spec == Init /\ [][Next]_vars

-----------------------------------------------------------------------------
(* Properties                                                              *)

\* The first link a reader of the message sees, if it has one.
HasLink ==
  input.kind = "message" /\ result # "none" /\ \E i \in DOMAIN input.what : input.what[i].scheme = "http"

FirstLink ==
  input.what[CHOOSE i \in DOMAIN input.what :
    input.what[i].scheme = "http" /\ \A k \in 1..i - 1 : input.what[k].scheme # "http"]

\* A netloc of these labels in a dress.
Dressed(texts, dress) ==
  LET host == (IF dress.www THEN <<"www">> ELSE << >>) \o texts \o [i \in 1..dress.dots |-> NoText]
  IN  dress.user
        \o <<<<[i \in DOMAIN host |-> [text |-> host[i], upper |-> dress.upper]]>> \o dress.port>>

\* The patterns of FUNCTIONAL_SPEC "Platform Detection", as <<host, path, platform>>;
\* "*" stands for one segment.
Documented ==
  {<<<<"instagram", "com">>, <<"p", "*">>, "instagram">>,
   <<<<"instagram", "com">>, <<"reel", "*">>, "instagram">>,
   <<<<"instagram", "com">>, <<"stories", "*">>, "instagram">>,
   <<<<"pinterest", "com">>, <<"pin", "*">>, "pinterest">>,
   <<<<"pin", "it">>, <<"*">>, "pinterest">>,
   <<<<"facebook", "com">>, <<"*", "videos", "*">>, "facebook">>,
   <<<<"facebook", "com">>, <<"reel", "*">>, "facebook">>,
   <<<<"tiktok", "com">>, <<"*", "video", "*">>, "tiktok">>,
   <<<<"youtube", "com">>, <<"watch">>, "youtube">>,
   <<<<"youtu", "be">>, <<"*">>, "youtube">>}

FitsPattern(url, pattern) ==
  /\ \E dress \in Dresses : url.netloc = Dressed(pattern[1], dress)
  /\ Len(url.path) = Len(pattern[2])
  /\ \A i \in DOMAIN url.path : pattern[2][i] \in {"*", url.path[i]}
  /\ url.valid

\* A message whose first link fits a documented pattern makes a job for the
\* platform the document names, however its host is dressed and whatever links
\* follow it ("process one URL per message").
DocumentedLinksWork ==
  HasLink => \A pattern \in Documented :
    FitsPattern(FirstLink, pattern) /\ ~(FirstLink.slash /\ pattern[2] = <<"watch">>) =>
      result = pattern[3]

\* Every path of a link in the messages, with its final slash or without.
Paths ==
  UNION {{<<message[i].path, message[i].slash>> : i \in DOMAIN message} : message \in Messages}

\* Is some link of this one's host downloaded with a session?
OnSessionHost(url) ==
  \E path \in Paths :
    Passes([url EXCEPT !.path = path[1], !.slash = path[2]]) \cap SessionPlatforms # {}

\* "Detection should be deterministic": no link passes the checks of two
\* platforms, so the order in which detect_platform tries them does not matter;
\* and a host on which a check of a session platform can pass is not generic for
\* its other paths.  The code has one exception: _is_facebook asks for fb.watch
\* and its subdomains, _is_known_platform_host knows fb.watch only.
OnePlatformPerLink ==
  HasLink =>
    LET host == NormalizeHost(FirstLink.netloc)
    IN  /\ Cardinality(Passes(FirstLink)) <= 1
        /\ OnSessionHost(FirstLink) /\ result = "generic" =>
             IsDomain(host, <<"fb", "watch">>) /\ host # <<"fb", "watch">>

\* User information, "www.", capitals, final dots and a port, in any combination,
\* never change what a link is taken for.
DressIsIrrelevant ==
  HasLink /\ Len(FirstLink.netloc) = 1 /\ Len(FirstLink.netloc[1]) = 1 =>
    LET host == Lower(FirstLink.netloc[1][1])
    IN  host[Len(host)] # NoText =>
          \A dress \in Dresses :
            (dress.www => host[1] # "www") =>
              DetectPlatform([FirstLink EXCEPT !.netloc = Dressed(host, dress)]) = result

\* An Instagram payload is accepted only with a non-empty value for each cookie
\* that a download needs, on Instagram's domain, and the verdict is that of every
\* payload with the same cookies: their order, their repetition and lines that
\* start with "#" never change it, in particular an HttpOnly cookie never helps.
AcceptedIsComplete ==
  input.kind = "payload" /\ input.platform = "instagram" /\ result # "none" =>
    /\ result = "ok" =>
         \A name \in RequiredNames : \E i \in DOMAIN input.what :
           /\ input.what[i].kind = "cookie" /\ input.what[i].name = name
           /\ input.what[i].domain = "instagram" /\ ~input.what[i].empty
    /\ result # "empty" =>
         \A other \in Payloads : Kept(other) = Kept(input.what) =>
           ValidateNetscapeCookies(other, "instagram") = result
=============================================================================
