---------------------------- MODULE UrlDetection ----------------------------
(***************************************************************************)
(* Which platform a link belongs to (url_detection.py, public_flow.py).    *)
(*                                                                         *)
(* A link is a record: its scheme, whether urlparse accepts it, its netloc *)
(* and the segments of its path, with a flag for a final slash.  A netloc  *)
(* is what the marks "@", ":" and "." make of the string: a sequence of    *)
(* the parts between two "@", each a sequence of the parts between two     *)
(* ":", each a sequence of labels; a label has a text, in lower case, and  *)
(* may be typed in capitals.  Paths are compared in lower case, which is   *)
(* left out.                                                               *)
(***************************************************************************)
EXTENDS Naturals, Sequences, FiniteSetsExt

\* The empty string; a split string has one part at least, and the empty string
\* is one empty label.
NoText == ""

Label == [text : STRING, upper : BOOLEAN]
Dotted == Seq(Label) \ {<< >>}
Authority == Seq(Dotted) \ {<< >>}
Netloc == Seq(Authority) \ {<< >>}

Link ==
  [scheme : STRING, valid : BOOLEAN, netloc : Netloc, path : Seq(STRING), slash : BOOLEAN]

\* The platforms that take a session.
SessionPlatforms == {"instagram", "pinterest", "facebook"}

\* rsplit("@", 1)[-1], then split(":", 1)[0]
AfterUser(netloc) == netloc[Len(netloc)]
BeforePort(authority) == authority[1]

\* lower()
Lower(labels) == [i \in DOMAIN labels |-> labels[i].text]

\* rstrip("."): the empty labels at the end go, but for the first of a string
\* of dots.
WithoutDots(host) == SubSeq(host, 1, Max({1} \union {i \in DOMAIN host : host[i] # NoText}))

\* One leading "www." goes.
WithoutWww(host) == IF host[1] = "www" /\ Len(host) > 1 THEN Tail(host) ELSE host

\* Mutant: the port is cut before the user information, at the first ":" of all.
PortFirst(netloc) ==
  LET withPort == {i \in DOMAIN netloc : Len(netloc[i]) > 1}
      part == IF withPort = {} THEN Len(netloc) ELSE Min(withPort)
  IN  WithoutWww(WithoutDots(Lower(netloc[part][1])))

\* _normalize_host
NormalizeHost(netloc) ==
  WithoutWww(WithoutDots(Lower(BeforePort(AfterUser(netloc)))))

\* _is_domain
IsDomain(host, domain) ==
  /\ Len(domain) <= Len(host)
  /\ \A i \in DOMAIN domain : host[Len(host) - Len(domain) + i] = domain[i]

\* path.startswith("/segment/"), "/segment/" in path
StartsWith(url, segments) ==
  url.path # << >> /\ url.path[1] \in segments /\ (Len(url.path) > 1 \/ url.slash)
Holds(url, segment) ==
  \E i \in DOMAIN url.path : url.path[i] = segment /\ (i < Len(url.path) \/ url.slash)

IsInstagram(url, host) ==
  IsDomain(host, <<"instagram", "com">>) /\ StartsWith(url, {"p", "reel", "stories"})

IsPinterest(url, host) ==
  \/ host = <<"pin", "it">> /\ ~(url.path = << >> /\ url.slash)
  \/ IsDomain(host, <<"pinterest", "com">>) /\ StartsWith(url, {"pin"})

IsFacebook(url, host) ==
  /\ IsDomain(host, <<"facebook", "com">>) \/ IsDomain(host, <<"fb", "watch">>)
  /\ StartsWith(url, {"reel", "watch"}) \/ Holds(url, "videos")

IsTiktok(url, host) ==
  \/ IsDomain(host, <<"tiktok", "com">>) /\ Holds(url, "video")
  \/ host = <<"vm", "tiktok", "com">>

IsYoutube(url, host) ==
  \/ IsDomain(host, <<"youtube", "com">>) /\ url.path = <<"watch">> /\ ~url.slash
  \/ host = <<"youtu", "be">>

IsXTwitter(host) == IsDomain(host, <<"x", "com">>) \/ IsDomain(host, <<"twitter", "com">>)

IsReddit(host) == IsDomain(host, <<"reddit", "com">>) \/ host = <<"redd", "it">>

\* _is_known_platform_host: subdomains of the short hosts are not known.
IsKnownPlatformHost(host) ==
  \/ \E domain \in {<<"instagram", "com">>, <<"pinterest", "com">>, <<"facebook", "com">>,
                    <<"tiktok", "com">>, <<"youtube", "com">>, <<"x", "com">>,
                    <<"twitter", "com">>, <<"reddit", "com">>} : IsDomain(host, domain)
  \/ host \in {<<"pin", "it">>, <<"fb", "watch">>, <<"vm", "tiktok", "com">>,
               <<"youtu", "be">>, <<"redd", "it">>}

\* The platforms whose check a link passes.
Passes(url) ==
  LET host == NormalizeHost(url.netloc)
  IN  {platform \in {"instagram", "pinterest", "facebook", "tiktok", "youtube",
                     "x_twitter", "reddit"} :
         \/ platform = "instagram" /\ IsInstagram(url, host)
         \/ platform = "pinterest" /\ IsPinterest(url, host)
         \/ platform = "facebook" /\ IsFacebook(url, host)
         \/ platform = "tiktok" /\ IsTiktok(url, host)
         \/ platform = "youtube" /\ IsYoutube(url, host)
         \/ platform = "x_twitter" /\ IsXTwitter(host)
         \/ platform = "reddit" /\ IsReddit(host)}

\* The order in which detect_platform tries them.
CheckOrder ==
  <<"instagram", "pinterest", "facebook", "tiktok", "youtube", "x_twitter", "reddit">>

\* The check that passes first, of those that do.
FirstOf(platforms) == CheckOrder[Min({i \in DOMAIN CheckOrder : CheckOrder[i] \in platforms})]

\* Mutant: a known host whose path fits nothing falls through to generic.
DetectLeniently(url) ==
  IF ~url.valid THEN "raises"
  ELSE IF Passes(url) # {} THEN FirstOf(Passes(url))
  ELSE IF Len(NormalizeHost(url.netloc)) > 1 THEN "generic" ELSE "unsupported"

\* detect_platform: the first platform whose check passes; a known host with
\* another path is refused; any other host with a dot is generic.  A bracket
\* urlparse cannot match makes it raise ValueError.
DetectPlatform(url) ==
  IF ~url.valid THEN "raises"
  ELSE IF Passes(url) # {} THEN FirstOf(Passes(url))
  ELSE IF IsKnownPlatformHost(NormalizeHost(url.netloc)) THEN "unsupported"
  ELSE IF Len(NormalizeHost(url.netloc)) > 1 THEN "generic" ELSE "unsupported"

\* extract_urls: where the links are; only http and https links are links.
ExtractUrls(message) == {i \in DOMAIN message : message[i].scheme = "http"}

\* Mutant: the last link is taken.
JobFromLastLink(message) ==
  LET urls == ExtractUrls(message)
  IN  IF urls = {} THEN "unsupported" ELSE DetectPlatform(message[Max(urls)])

\* create_public_download_job_from_message: the first link decides.
JobPlatform(message) ==
  LET urls == ExtractUrls(message)
  IN  IF urls = {} THEN "unsupported" ELSE DetectPlatform(message[Min(urls)])
=============================================================================
