---------------------------- MODULE CookiePayload ----------------------------
(***************************************************************************)
(* What the portal accepts as a session (BasicSessionValidator in          *)
(* session_portal.py).  A payload is a sequence of lines; a line is blank, *)
(* a comment, or the fields of a cookie: the domain it belongs to, its     *)
(* name and whether its value, the last field, is empty.                   *)
(***************************************************************************)
EXTENDS Naturals, Sequences

Line ==
  [kind : {"blank", "comment", "text", "cookie", "httponly"}, domain : STRING,
   name : STRING, empty : BOOLEAN]

RequiredNames == {"sessionid", "csrftoken", "ds_user_id"}

\* A comment starts with "#", and so does the line of a cookie that a browser
\* marks HttpOnly ("#HttpOnly_.instagram.com ..."): it is skipped all the same.
IsSkipped(line) == line.kind \in {"blank", "comment", "httponly"}

\* Seven fields, after strip() has taken the tab before an empty value.
HasSevenFields(line) == line.kind = "cookie" /\ ~line.empty

Matches(line, platform) == line.domain = platform

\* The lines that are read.
Kept(payload) == {payload[i] : i \in {i \in DOMAIN payload : ~IsSkipped(payload[i])}}

\* Mutant: the required cookies may come from anywhere.
NamesAnywhere(payload, platform) == {line.name : line \in Kept(payload)}

\* cookie_names: of the lines of the platform's domain.
CookieNames(payload, platform) ==
  {line.name : line \in {line \in Kept(payload) : Matches(line, platform)}}

\* _validate_netscape_cookies: a line that is no cookie refuses the payload
\* before anything else does.
ValidateNetscapeCookies(payload, platform) ==
  IF \E line \in Kept(payload) : ~HasSevenFields(line) THEN "format"
  ELSE IF ~\E line \in Kept(payload) : Matches(line, platform) THEN "domain"
  ELSE IF RequiredNames \subseteq CookieNames(payload, platform) THEN "ok" ELSE "missing"

\* BasicSessionValidator.validate; of the other platforms nothing is known.
Validate(payload, platform) ==
  IF platform \notin {"instagram", "pinterest", "facebook"} THEN "platform"
  ELSE IF \A i \in DOMAIN payload : payload[i].kind = "blank" THEN "empty"
  ELSE IF platform = "instagram" THEN ValidateNetscapeCookies(payload, platform)
  ELSE "ok"
=============================================================================
