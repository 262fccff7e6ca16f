-------------------------- MODULE InputRulesProofs --------------------------
(***************************************************************************)
(* Proofs that the properties of InputRules hold for messages of any       *)
(* number of links with any hosts and paths, and for payloads of any       *)
(* number of lines.  The argument for links is ownership: a check can pass *)
(* only on a host whose last label but one is the platform's own, and no   *)
(* label is owned twice.                                                   *)
(***************************************************************************)
EXTENDS InputRules, FiniteSetTheorems, SequenceTheorems, WellFoundedInduction, TLAPS

\* The result is none or what the rules make of an input that was given.
ResultFits ==
  /\ input.kind \in {"none", "message", "payload"}
  /\ input.kind = "none" => result = "none"
  /\ input.kind = "message" =>
       input.what \in Messages /\ result \in {"none", JobPlatform(input.what)}
  /\ input.kind = "payload" =>
       /\ input.what \in Payloads
       /\ result \in {"none", Validate(input.what, input.platform)}

\* Nothing is decided before there is an input.
LEMMA ResultFitsInit == Init => ResultFits
  BY DEF Init, ResultFits

\* A verdict is reached about the input that was given, and goes with it.
LEMMA ResultFitsStep == ResultFits /\ [Next]_vars => ResultFits'
<1> SUFFICES ASSUME ResultFits, [Next]_vars PROVE ResultFits'
  OBVIOUS
<1>1. ASSUME NEW message \in Messages, SendMessage(message) PROVE ResultFits'
  <2>1. input'.kind = "message" /\ input'.what = message
    BY <1>1 DEF SendMessage
  <2>2. result' = "none"
    BY <1>1 DEF SendMessage, Idle, ResultFits
  <2> QED
    BY <2>1, <2>2 DEF ResultFits
<1>2. ASSUME NEW payload \in Payloads, NEW platform, SubmitPayload(payload, platform)
      PROVE  ResultFits'
  <2>1. input'.kind = "payload" /\ input'.what = payload
    BY <1>2 DEF SubmitPayload
  <2>2. result' = "none"
    BY <1>2 DEF SubmitPayload, Idle, ResultFits
  <2> QED
    BY <2>1, <2>2 DEF ResultFits
<1>3. CASE Decide
  BY <1>3 DEF Decide, Idle, ResultFits
<1>4. CASE Forget
  BY <1>4 DEF Forget, ResultFits
<1>5. CASE UNCHANGED vars
  BY <1>5 DEF vars, ResultFits
<1> QED
  BY <1>1, <1>2, <1>3, <1>4, <1>5 DEF Next

\* In every reachable state.
THEOREM ResultsFit == Spec => []ResultFits
  BY ResultFitsInit, ResultFitsStep, PTL DEF Spec

-----------------------------------------------------------------------------
(* The first link of a message                                             *)

\* A set of positions has a least one.
LEMMA LeastPosition ==
  ASSUME NEW S \in SUBSET Nat, S # {}
  PROVE  \E i \in S : \A j \in S : i <= j
<1> DEFINE Less == OpToRel(<, Nat)
<1>1. \A i, j \in Nat : i < j => <<i, j>> \in Less
  BY DEF OpToRel
<1> HIDE DEF Less
<1>2. IsWellFoundedOn(Less, Nat)
  BY NatLessThanWellFounded DEF Less
<1>3. PICK i \in S : \A j \in S : <<j, i>> \notin Less
  BY <1>2, WFMin
<1>4. \A j \in S : i \in Nat /\ j \in Nat /\ ~(j < i)
  BY <1>1, <1>3
<1> QED
  BY <1>4

\* The job is made for the link that a reader sees first.
LEMMA FirstLinkDecides ==
  ASSUME ResultFits, HasLink
  PROVE  FirstLink \in Link /\ result = DetectPlatform(FirstLink)
<1> DEFINE message == input.what
           urls == ExtractUrls(message)
<1>1. /\ message \in Seq(Link) /\ result = JobPlatform(message)
      /\ \E i \in DOMAIN message : message[i].scheme = "http"
  BY InputsAssumption DEF ResultFits, HasLink
<1>2. urls # {} /\ urls \in SUBSET (1..Len(message))
  BY <1>1 DEF ExtractUrls
<1>3. PICK first \in urls : \A j \in urls : first <= j
  <2>1. urls \in SUBSET Nat
    BY <1>1, <1>2
  <2> QED
    BY <1>2, <2>1, LeastPosition
<1> HIDE DEF urls
<1>4. Min(urls) = first
  <2>1. \A x \in urls : (\A y \in urls : x <= y) <=> x = first
    BY <1>1, <1>2, <1>3
  <2> QED
    BY <1>3, <2>1 DEF Min
<1>5. \A i \in DOMAIN message :
        (message[i].scheme = "http" /\ \A k \in 1..i - 1 : message[k].scheme # "http")
          <=> i = first
  BY <1>1, <1>2, <1>3 DEF urls, ExtractUrls
<1>6. first \in DOMAIN message
  BY <1>1, <1>2, <1>3
<1>7. FirstLink = message[first]
  BY <1>5, <1>6 DEF FirstLink
<1>8. JobPlatform(message) = DetectPlatform(message[first])
  BY <1>2, <1>4 DEF JobPlatform, urls
<1> QED
  BY <1>1, <1>6, <1>7, <1>8

-----------------------------------------------------------------------------
(* Ownership of hosts                                                      *)

\* The labels before the last one that a platform's hosts can have.
Owned ==
  [instagram |-> {"instagram"}, pinterest |-> {"pinterest", "pin"},
   facebook |-> {"facebook", "fb"}, tiktok |-> {"tiktok"}, youtube |-> {"youtube", "youtu"},
   x_twitter |-> {"x", "twitter"}, reddit |-> {"reddit", "redd"}]

\* The texts of labels.  The provers do not take a literal for a member of STRING,
\* so those that occur are named.
Texts ==
  STRING \union {NoText, "www", "com", "it", "be", "instagram", "pinterest", "pin", "facebook",
                 "tiktok", "youtube", "youtu"}

Hosts == Seq(Texts) \ {<< >>}

\* The site a host belongs to: its last label but one.
Site(host) == host[Len(host) - 1]

\* A domain of two labels is matched label by label.
LEMMA DomainOfTwo ==
  ASSUME NEW host \in Hosts, NEW name, NEW top
  PROVE  IsDomain(host, <<name, top>>)
           <=> Len(host) >= 2 /\ Site(host) = name /\ host[Len(host)] = top
<1> DEFINE domain == <<name, top>>
<1>1. Len(domain) = 2 /\ DOMAIN domain = {1, 2} /\ domain[1] = name /\ domain[2] = top
  OBVIOUS
<1>2. Len(host) \in Nat
  BY DEF Hosts
<1> HIDE DEF domain
<1>3. IsDomain(host, domain)
        <=> 2 <= Len(host) /\ host[Len(host) - 2 + 1] = name /\ host[Len(host) - 2 + 2] = top
  BY <1>1 DEF IsDomain
<1>4. Len(host) - 2 + 1 = Len(host) - 1 /\ Len(host) - 2 + 2 = Len(host)
  BY <1>2
<1> QED
  BY <1>2, <1>3, <1>4 DEF Site, domain

\* A host of a known domain belongs to its site.
LEMMA DomainHasSite ==
  ASSUME NEW host \in Hosts, NEW name, NEW top,
         IsDomain(host, <<name, top>>) \/ host = <<name, top>>
  PROVE  Len(host) >= 2 /\ Site(host) = name
<1>1. CASE IsDomain(host, <<name, top>>)
  BY <1>1, DomainOfTwo
<1>2. CASE host = <<name, top>>
  <2>1. Len(host) = 2 /\ host[1] = name
    BY <1>2
  <2>2. Len(host) - 1 = 1 /\ Len(host) >= 2
    BY <2>1
  <2>3. Site(host) = host[1]
    BY <2>2 DEF Site
  <2> QED
    BY <2>1, <2>2, <2>3
<1> QED
  BY <1>1, <1>2

\* What follows a label that is not the last is a host.
LEMMA TailOfTwo ==
  ASSUME NEW S, NEW host \in Seq(S), Len(host) > 1
  PROVE  Tail(host) \in Seq(S) /\ Tail(host) # << >>
<1>1. PICK tail : tail = Tail(host)
  OBVIOUS
<1>2. host # << >>
  OBVIOUS
<1>3. tail \in Seq(S) /\ Len(tail) = Len(host) - 1
  BY <1>1, <1>2, HeadTailProperties
<1>4. Len(tail) # 0
  BY <1>3
<1>5. tail # << >>
  BY <1>4
<1> QED
  BY <1>1, <1>3, <1>5

\* A non-empty set of positions of a sequence has a greatest element.
LEMMA GreatestPosition ==
  ASSUME NEW n \in Nat, NEW S \in SUBSET (1..n), S # {}
  PROVE  /\ Max(S) \in S
         /\ \A i \in S : i <= Max(S)
<1>1. \A i \in S : i \in Nat /\ i <= n /\ n - i \in Nat
  OBVIOUS
<1>2. PICK T : T = {n - i : i \in S}
  OBVIOUS
<1>3. T \in SUBSET Nat /\ T # {}
  BY <1>1, <1>2
<1>4. PICK k \in T : \A j \in T : k <= j
  BY <1>3, LeastPosition
<1>5. PICK m \in S : k = n - m
  BY <1>2
<1>6. \A i \in S : i <= m
  <2>1. SUFFICES ASSUME NEW i \in S PROVE i <= m
    OBVIOUS
  <2>2. n - i \in T
    BY <1>2
  <2>3. n - m <= n - i
    BY <1>4, <1>5, <2>2
  <2> QED
    BY <1>1, <2>3
<1>7. \A x \in S : (\A y \in S : x >= y) <=> x = m
  BY <1>1, <1>6
<1> QED
  BY <1>6, <1>7 DEF Max

\* A function on the first numbers is a sequence.
LEMMA FunctionIsSeq ==
  ASSUME NEW S, NEW n \in Nat, NEW f \in [1..n -> S]
  PROVE  f \in Seq(S) /\ Len(f) = n
  OBVIOUS

\* A sequence that is not empty has a first and a last element.
LEMMA FirstAndLast ==
  ASSUME NEW S, NEW seq \in Seq(S), seq # << >>
  PROVE  /\ Len(seq) \in Nat /\ Len(seq) >= 1 /\ DOMAIN seq = 1..Len(seq)
         /\ \A i \in 1..Len(seq) : seq[i] \in S
         /\ seq[1] \in S /\ seq[Len(seq)] \in S
<1>1. Len(seq) \in Nat /\ Len(seq) # 0
  BY EmptySeq
<1>2. Len(seq) >= 1 /\ DOMAIN seq = 1..Len(seq) /\ \A i \in 1..Len(seq) : seq[i] \in S
  BY <1>1, LenProperties
<1> QED
  BY <1>1, <1>2

\* The final dots are gone: a prefix is left, up to the last label with a text.
LEMMA WithoutDotsIsPrefix ==
  ASSUME NEW host \in Hosts
  PROVE  \E k \in 1..Len(host) :
           /\ WithoutDots(host) \in Hosts /\ Len(WithoutDots(host)) = k
           /\ \A i \in 1..k : WithoutDots(host)[i] = host[i]
           /\ \A i \in 1..Len(host) : host[i] # NoText => i <= k
           /\ k = 1 \/ host[k] # NoText
<1>1. /\ host \in Seq(Texts) /\ Len(host) \in Nat /\ Len(host) >= 1
      /\ DOMAIN host = 1..Len(host) /\ \A i \in 1..Len(host) : host[i] \in Texts
  BY FirstAndLast DEF Hosts
<1>2. PICK kept : kept = {1} \union {i \in DOMAIN host : host[i] # NoText}
  OBVIOUS
<1>3. kept \in SUBSET (1..Len(host)) /\ kept # {}
  BY <1>1, <1>2
<1>4. PICK k \in kept : k = Max(kept) /\ \A i \in kept : i <= k
  BY <1>1, <1>3, GreatestPosition
<1>5. k \in 1..Len(host) /\ (k = 1 \/ host[k] # NoText)
  BY <1>2, <1>3
<1>6. \A i \in 1..Len(host) : host[i] # NoText => i <= k
  BY <1>1, <1>2, <1>4
<1>7. PICK short : short = SubSeq(host, 1, k)
  OBVIOUS
<1>8. WithoutDots(host) = short
  BY <1>2, <1>4, <1>7 DEF WithoutDots
<1>9. /\ short \in Seq(Texts) /\ Len(short) = k
      /\ \A i \in 1..k : short[i] = host[i]
  <2>1. /\ k \in Int /\ 1 <= k /\ k - 1 + 1 = k
        /\ \A i \in 1..k : host[i] \in Texts /\ 1 + i - 1 = i
    BY <1>1, <1>5
  <2> QED
    BY <1>7, <2>1, SubSeqProperties
<1>10. short # << >>
  <2>1. Len(short) # 0
    BY <1>5, <1>9
  <2> QED
    BY <2>1, EmptySeq
<1> QED
  BY <1>5, <1>6, <1>8, <1>9, <1>10 DEF Hosts

\* One "www." less is still a host.
LEMMA WithoutWwwType ==
  ASSUME NEW host \in Hosts
  PROVE  WithoutWww(host) \in Hosts
<1>1. host \in Seq(Texts) /\ (Len(host) > 1 => Tail(host) \in Hosts)
  BY TailOfTwo DEF Hosts
<1> QED
  BY <1>1 DEF WithoutWww

\* The texts of a sequence of labels.
LEMMA LowerType ==
  ASSUME NEW labels \in Seq([text : Texts, upper : BOOLEAN]), labels # << >>
  PROVE  /\ Lower(labels) \in Hosts /\ Len(Lower(labels)) = Len(labels)
         /\ \A i \in 1..Len(labels) : Lower(labels)[i] = labels[i].text
<1>1. /\ Len(labels) \in Nat /\ Len(labels) >= 1 /\ DOMAIN labels = 1..Len(labels)
      /\ \A i \in 1..Len(labels) : labels[i] \in [text : Texts, upper : BOOLEAN]
  BY FirstAndLast
<1>2. \A i \in 1..Len(labels) : labels[i].text \in Texts
  BY <1>1
<1>3. PICK low : low = Lower(labels)
  OBVIOUS
<1>4. low = [i \in 1..Len(labels) |-> labels[i].text]
  BY <1>1, <1>3 DEF Lower
<1>5. PICK n : n = Len(labels)
  OBVIOUS
<1>6. low \in [1..n -> Texts] /\ n \in Nat
  BY <1>1, <1>2, <1>4, <1>5
<1>7. low \in Seq(Texts) /\ Len(low) = n
  BY <1>6, FunctionIsSeq
<1>8. low # << >>
  BY <1>1, <1>5, <1>7, EmptySeq
<1> QED
  BY <1>3, <1>4, <1>5, <1>7, <1>8 DEF Hosts

\* The labels of a link have texts.
LEMMA DottedTexts ==
  ASSUME NEW labels \in Dotted
  PROVE  labels \in Seq([text : Texts, upper : BOOLEAN]) /\ labels # << >>
<1>1. PICK n, R : n = Len(labels) /\ R = [text : Texts, upper : BOOLEAN]
  OBVIOUS
<1>2. Label \subseteq R
  BY <1>1 DEF Label, Texts
<1>3. labels \in Seq(Label) /\ labels # << >>
  BY DEF Dotted
<1>4. labels \in [1..n -> Label] /\ n \in Nat
  BY <1>1, <1>3, LenProperties
<1>5. labels \in [1..n -> R]
  BY <1>2, <1>4
<1> QED
  BY <1>1, <1>3, <1>4, <1>5, FunctionIsSeq

\* Normalisation leaves a host.
LEMMA NormalizeHostType ==
  ASSUME NEW url \in Link
  PROVE  NormalizeHost(url.netloc) \in Hosts
<1>1. PICK netloc \in Netloc : netloc = url.netloc
  BY DEF Link
<1>2. PICK authority \in Authority : authority = AfterUser(netloc)
  BY FirstAndLast DEF Netloc, AfterUser
<1>3. PICK labels \in Dotted : labels = BeforePort(authority)
  BY FirstAndLast DEF Authority, BeforePort
<1>4. PICK host \in Hosts : host = WithoutDots(Lower(labels))
  BY DottedTexts, LowerType, WithoutDotsIsPrefix
<1>5. NormalizeHost(netloc) = WithoutWww(host)
  BY <1>2, <1>3, <1>4 DEF NormalizeHost
<1> QED
  BY <1>1, <1>5, WithoutWwwType

\* A check passes only on a host of a site that the platform owns.
LEMMA PassesOnOwnSite ==
  ASSUME NEW url \in Link, NEW platform \in Passes(url)
  PROVE  platform \in DOMAIN Owned /\ Site(NormalizeHost(url.netloc)) \in Owned[platform]
<1> DEFINE host == NormalizeHost(url.netloc)
<1>0. host \in Hosts
  BY NormalizeHostType
<1> HIDE DEF host
<1>1. \A name, top :
        IsDomain(host, <<name, top>>) \/ host = <<name, top>> => Site(host) = name
  BY <1>0, DomainHasSite
<1>2. \/ platform = "instagram" /\ Site(host) = "instagram"
      \/ platform = "pinterest" /\ Site(host) \in {"pinterest", "pin"}
      \/ platform = "facebook" /\ Site(host) \in {"facebook", "fb"}
      \/ platform = "tiktok" /\ Site(host) = "tiktok"
      \/ platform = "youtube" /\ Site(host) \in {"youtube", "youtu"}
      \/ platform = "x_twitter" /\ Site(host) \in {"x", "twitter"}
      \/ platform = "reddit" /\ Site(host) \in {"reddit", "redd"}
  <2>1. CASE platform = "instagram" /\ IsInstagram(url, host)
    BY <1>1, <2>1 DEF IsInstagram
  <2>2. CASE platform = "pinterest" /\ IsPinterest(url, host)
    BY <1>1, <2>2 DEF IsPinterest
  <2>3. CASE platform = "facebook" /\ IsFacebook(url, host)
    BY <1>1, <2>3 DEF IsFacebook
  <2>4. CASE platform = "tiktok" /\ IsTiktok(url, host)
    <3>1. ASSUME host = <<"vm", "tiktok", "com">> PROVE Site(host) = "tiktok"
      <4>1. Len(host) - 1 = 2 /\ host[2] = "tiktok"
        BY <3>1
      <4> QED
        BY <4>1 DEF Site
    <3> QED
      BY <1>1, <2>4, <3>1 DEF IsTiktok
  <2>5. CASE platform = "youtube" /\ IsYoutube(url, host)
    BY <1>1, <2>5 DEF IsYoutube
  <2>6. CASE platform = "x_twitter" /\ IsXTwitter(host)
    BY <1>1, <2>6 DEF IsXTwitter
  <2>7. CASE platform = "reddit" /\ IsReddit(host)
    BY <1>1, <2>7 DEF IsReddit
  <2> QED
    BY <2>1, <2>2, <2>3, <2>4, <2>5, <2>6, <2>7 DEF Passes, host
<1> QED
  BY <1>2 DEF Owned, host

\* No label is owned twice.
LEMMA OwnedApart ==
  ASSUME NEW p \in DOMAIN Owned, NEW q \in DOMAIN Owned, NEW site \in Owned[p] \cap Owned[q]
  PROVE  p = q
  BY DEF Owned

\* No link passes two checks.
LEMMA OnePasses ==
  ASSUME NEW url \in Link, NEW p \in Passes(url), NEW q \in Passes(url)
  PROVE  p = q
  BY PassesOnOwnSite, OwnedApart

\* Of the checks, the one that passes gives the verdict, wherever it stands in the order.
LEMMA PassingDecides ==
  ASSUME NEW url \in Link, url.valid, NEW p \in Passes(url)
  PROVE  DetectPlatform(url) = p
<1> DEFINE places == {i \in DOMAIN CheckOrder : CheckOrder[i] \in Passes(url)}
<1>1. Passes(url) = {p}
  BY OnePasses
<1>2. PICK i \in DOMAIN CheckOrder : CheckOrder[i] = p
  <2>1. p \in {"instagram", "pinterest", "facebook", "tiktok", "youtube", "x_twitter", "reddit"}
    BY DEF Passes
  <2> QED
    BY <2>1 DEF CheckOrder
<1>3. \A k \in DOMAIN CheckOrder : CheckOrder[k] = CheckOrder[i] => k = i
  BY DEF CheckOrder
<1>4. places = {i} /\ i \in Nat
  BY <1>1, <1>2, <1>3 DEF CheckOrder
<1>5. Min(places) = i
  BY <1>4 DEF Min
<1> QED
  BY <1>1, <1>2, <1>5 DEF DetectPlatform, FirstOf

-----------------------------------------------------------------------------
(* The documented patterns                                                 *)

\* "www." put before a host is what normalisation finds there.
LEMMA WwwGoes ==
  ASSUME NEW long \in Hosts, NEW host \in Hosts, Len(long) = Len(host) + 1, long[1] = "www",
         \A i \in 1..Len(host) : long[i + 1] = host[i]
  PROVE  WithoutWww(long) = host
<1>1. /\ long \in Seq(Texts) /\ host \in Seq(Texts) /\ long # << >>
      /\ Len(host) \in Nat /\ Len(host) >= 1
  BY FirstAndLast DEF Hosts
<1>2. Len(long) > 1
  BY <1>1
<1>3. PICK tail : tail = Tail(long)
  OBVIOUS
<1>4. /\ tail \in Seq(Texts) /\ Len(tail) = Len(long) - 1
      /\ \A i \in 1..Len(tail) : tail[i] = long[i + 1]
  BY <1>1, <1>3, HeadTailProperties
<1>5. Len(tail) = Len(host) /\ \A i \in 1..Len(host) : tail[i] = host[i]
  BY <1>1, <1>4
<1>6. tail = host
  BY <1>1, <1>4, <1>5, SeqEqual
<1> QED
  BY <1>2, <1>3, <1>6 DEF WithoutWww

\* The labels of a dressed host, one by one: those before, the host's, and an
\* empty one for each final dot.
Worn(host, front, texts, n) ==
  /\ host \in Hosts
  /\ Len(host) = Len(front) + Len(texts) + n
  /\ \A i \in 1..Len(front) : host[i] = front[i]
  /\ \A i \in 1..Len(texts) : host[Len(front) + i] = texts[i]
  /\ \A i \in 1..Len(host) : i > Len(front) + Len(texts) => host[i] = NoText

LEMMA WornLabels ==
  ASSUME NEW texts \in Hosts, NEW front \in Seq({"www"}), NEW n \in Nat,
         NEW dots, dots = [i \in 1..n |-> NoText],
         NEW long, long = front \o texts, NEW host, host = long \o dots
  PROVE  Worn(host, front, texts, n)
<1>1. dots = [i \in 1..n |-> NoText]
  OBVIOUS
<1>2. texts \in Seq(Texts) /\ Len(texts) \in Nat /\ Len(texts) >= 1
  BY FirstAndLast DEF Hosts
<1>3. front \in Seq(Texts) /\ Len(front) \in Nat
  <2>1. "www" \in Texts
    BY DEF Texts
  <2> QED
    BY <2>1
<1>4. dots \in Seq(Texts) /\ Len(dots) = n /\ \A i \in 1..n : dots[i] = NoText
  <2>1. NoText \in Texts
    BY DEF Texts
  <2>2. dots \in [1..n -> Texts] /\ \A i \in 1..n : dots[i] = NoText
    BY <1>1, <2>1
  <2> QED
    BY <2>2, FunctionIsSeq
<1>5. /\ long \in Seq(Texts) /\ Len(long) = Len(front) + Len(texts)
      /\ \A i \in 1..Len(front) + Len(texts) :
           long[i] = IF i <= Len(front) THEN front[i] ELSE texts[i - Len(front)]
  BY <1>2, <1>3, ConcatProperties
<1>6. /\ host \in Seq(Texts) /\ Len(host) = Len(long) + n
      /\ \A i \in 1..Len(long) + n :
           host[i] = IF i <= Len(long) THEN long[i] ELSE dots[i - Len(long)]
  <2>1. /\ host \in Seq(Texts) /\ Len(host) = Len(long) + Len(dots)
        /\ \A i \in 1..Len(long) + Len(dots) :
             host[i] = IF i <= Len(long) THEN long[i] ELSE dots[i - Len(long)]
    <3>1. long \in Seq(Texts) /\ dots \in Seq(Texts)
      BY <1>4, <1>5
    <3> QED
      BY <3>1, ConcatProperties
  <2>2. Len(dots) = n
    BY <1>4
  <2> QED
    BY <2>1, <2>2
<1>7. host # << >>
  <2>1. Len(host) # 0
    BY <1>2, <1>3, <1>5, <1>6
  <2> QED
    BY <2>1, EmptySeq
<1>8. PICK f, m : f = Len(front) /\ m = Len(texts)
  OBVIOUS
<1>9. f \in Nat /\ m \in Nat /\ m >= 1 /\ Len(long) = f + m /\ Len(host) = f + m + n
  BY <1>2, <1>3, <1>5, <1>6, <1>8
<1>10. \A i \in 1..f : host[i] = front[i]
  <2>1. SUFFICES ASSUME NEW i \in 1..f PROVE host[i] = front[i]
    OBVIOUS
  <2>2. i \in 1..f + m /\ i \in 1..f + m + n /\ i <= f /\ i <= f + m
    BY <1>9
  <2> QED
    BY <1>5, <1>6, <1>8, <1>9, <2>2
<1>11. \A i \in 1..m : host[f + i] = texts[i]
  <2>1. SUFFICES ASSUME NEW i \in 1..m PROVE host[f + i] = texts[i]
    OBVIOUS
  <2>2. PICK k : k = f + i
    OBVIOUS
  <2>3. k \in 1..f + m /\ k \in 1..f + m + n /\ ~(k <= f) /\ k <= f + m /\ k - f = i
    BY <1>9, <2>2
  <2>4. host[k] = long[k] /\ long[k] = texts[i]
    BY <1>5, <1>6, <1>8, <1>9, <2>3
  <2> QED
    BY <2>2, <2>4
<1>12. \A i \in 1..f + m + n : i > f + m => host[i] = NoText
  <2>1. SUFFICES ASSUME NEW i \in 1..f + m + n, i > f + m PROVE host[i] = NoText
    OBVIOUS
  <2>2. i - (f + m) \in 1..n /\ ~(i <= f + m)
    BY <1>9, <2>1
  <2> QED
    BY <1>4, <1>6, <1>9, <2>2
<1>13. host \in Hosts
  BY <1>6, <1>7 DEF Hosts
<1> QED
  BY <1>8, <1>9, <1>10, <1>11, <1>12, <1>13 DEF Worn

\* The labels up to the last one with a text are what loses its final dots.
LEMMA DotsGo ==
  ASSUME NEW host \in Hosts, NEW n \in 1..Len(host), host[n] # NoText,
         \A i \in 1..Len(host) : i > n => host[i] = NoText
  PROVE  /\ Len(WithoutDots(host)) = n /\ WithoutDots(host) \in Hosts
         /\ \A i \in 1..n : WithoutDots(host)[i] = host[i]
<1>1. PICK k \in 1..Len(host) :
        /\ WithoutDots(host) \in Hosts /\ Len(WithoutDots(host)) = k
        /\ \A i \in 1..k : WithoutDots(host)[i] = host[i]
        /\ \A i \in 1..Len(host) : host[i] # NoText => i <= k
        /\ k = 1 \/ host[k] # NoText
  BY WithoutDotsIsPrefix
<1>2. Len(host) \in Nat
  BY FirstAndLast DEF Hosts
<1>3. n <= k
  BY <1>1
<1>4. k <= n
  <2>1. CASE k = 1
    BY <1>2, <2>1
  <2>2. CASE host[k] # NoText
    BY <1>1, <1>2, <2>2
  <2> QED
    BY <1>1, <2>1, <2>2
<1>5. k = n
  BY <1>2, <1>3, <1>4
<1> QED
  BY <1>1, <1>5

\* Of a netloc with user information and a port, the labels between them are read.
LEMMA UserAndPortGo ==
  ASSUME NEW S, NEW user \in Seq(Seq(S)), NEW labels, NEW port \in Seq(S),
         labels \in S
  PROVE  BeforePort(AfterUser(user \o <<<<labels>> \o port>>)) = labels
<1>1. PICK authority : authority = <<labels>> \o port
  OBVIOUS
<1>2. <<labels>> \in Seq(S) /\ Len(<<labels>>) = 1 /\ <<labels>>[1] = labels
  OBVIOUS
<1>3. Len(port) \in Nat
  OBVIOUS
<1>4. authority \in Seq(S) /\ authority[1] = labels
  <2>1. 1 \in 1..1 + Len(port)
    BY <1>3
  <2> QED
    BY <1>1, <1>2, <2>1, ConcatProperties
<1>5. <<authority>> \in Seq(Seq(S)) /\ Len(<<authority>>) = 1 /\ <<authority>>[1] = authority
  BY <1>4
<1>6. PICK netloc : netloc = user \o <<authority>>
  OBVIOUS
<1>7. PICK n : n = Len(user)
  OBVIOUS
<1>8. n \in Nat /\ n + 1 \in 1..n + 1 /\ ~(n + 1 <= n) /\ (n + 1) - n = 1
  BY <1>7
<1>9. Len(netloc) = n + 1 /\ netloc[n + 1] = authority
  BY <1>5, <1>6, <1>7, <1>8, ConcatProperties
<1> QED
  BY <1>1, <1>4, <1>6, <1>9 DEF AfterUser, BeforePort

\* What a dress puts around the labels of a host is gone after normalisation.
LEMMA DressGoes ==
  ASSUME NEW texts \in Hosts, NEW dress \in Dress, texts[Len(texts)] # NoText,
         dress.www => texts[1] # "www"
  PROVE  NormalizeHost(Dressed(texts, dress)) = WithoutWww(texts)
<1>1. PICK www, upper, n, user, port :
        /\ www = dress.www /\ upper = dress.upper /\ n = dress.dots
        /\ user = dress.user /\ port = dress.port
  OBVIOUS
<1>2. /\ www \in BOOLEAN /\ upper \in BOOLEAN /\ n \in Nat
      /\ user \in Seq(Authority) /\ port \in Seq(Dotted)
  BY <1>1 DEF Dress
<1>3. PICK front : front = IF www THEN <<"www">> ELSE << >>
  OBVIOUS
<1>4. /\ front \in Seq({"www"}) /\ (www => Len(front) = 1 /\ front[1] = "www")
      /\ (~www => Len(front) = 0)
  <2>1. CASE www
    BY <1>3, <2>1
  <2>2. CASE ~www
    BY <1>3, <2>2
  <2> QED
    BY <2>1, <2>2
<1>5. PICK dots : dots = [i \in 1..n |-> NoText]
  OBVIOUS
<1>6. PICK long : long = front \o texts
  OBVIOUS
<1>7. PICK host : host = long \o dots
  OBVIOUS
<1>8. /\ host \in Hosts /\ Len(host) = Len(front) + Len(texts) + n
      /\ \A i \in 1..Len(front) : host[i] = front[i]
      /\ \A i \in 1..Len(texts) : host[Len(front) + i] = texts[i]
      /\ \A i \in 1..Len(host) : i > Len(front) + Len(texts) => host[i] = NoText
  <2>1. front \in Seq({"www"}) /\ n \in Nat /\ texts \in Hosts
    BY <1>2, <1>4
  <2>2. Worn(host, front, texts, n)
    BY <1>5, <1>6, <1>7, <2>1, WornLabels
  <2> QED
    BY <2>2 DEF Worn
<1>9. PICK labels : labels = [i \in DOMAIN host |-> [text |-> host[i], upper |-> upper]]
  OBVIOUS
<1>10. /\ host \in Seq(Texts) /\ Len(host) \in Nat /\ Len(host) >= 1
      /\ DOMAIN host = 1..Len(host) /\ \A i \in 1..Len(host) : host[i] \in Texts
      /\ texts \in Seq(Texts) /\ Len(texts) \in Nat /\ Len(texts) >= 1
  BY <1>8, FirstAndLast DEF Hosts
<1>11. labels \in Seq([text : Texts, upper : BOOLEAN]) /\ labels # << >> /\ Lower(labels) = host
  <2>1. PICK m : m = Len(host)
    OBVIOUS
  <2>2. m \in Nat /\ m >= 1
    BY <1>10, <2>1
  <2>3. labels = [i \in 1..m |-> [text |-> host[i], upper |-> upper]]
    BY <1>9, <1>10, <2>1
  <2>4. labels \in [1..m -> [text : Texts, upper : BOOLEAN]]
    BY <1>2, <1>10, <2>1, <2>3
  <2>5. labels \in Seq([text : Texts, upper : BOOLEAN]) /\ Len(labels) = m
    BY <2>2, <2>4, FunctionIsSeq
  <2>6. labels # << >>
    BY <2>2, <2>5, EmptySeq
  <2>7. PICK low : low = Lower(labels)
    OBVIOUS
  <2>8. \A i \in 1..m : labels[i].text = host[i]
    BY <2>3
  <2>9. low \in Seq(Texts) /\ Len(low) = m /\ \A i \in 1..m : low[i] = host[i]
    BY <2>5, <2>6, <2>7, <2>8, LowerType DEF Hosts
  <2>10. low = host
    BY <1>10, <2>1, <2>9, SeqEqual
  <2> QED
    BY <2>5, <2>6, <2>7, <2>10
<1>12. Dressed(texts, dress) = user \o <<<<labels>> \o port>>
  BY <1>5, <1>1, <1>3, <1>6, <1>9, <1>7 DEF Dressed
<1>13. BeforePort(AfterUser(user \o <<<<labels>> \o port>>)) = labels
  <2>1. PICK S : S = Dotted \union {labels}
    OBVIOUS
  <2>2. labels \in S /\ Dotted \subseteq S
    BY <2>1
  <2>3. port \in Seq(S) /\ Authority \subseteq Seq(S)
    BY <1>2, <2>2 DEF Authority
  <2>4. user \in Seq(Seq(S))
    BY <1>2, <2>3
  <2> QED
    BY <2>2, <2>3, <2>4, UserAndPortGo
<1>14. PICK short : short = WithoutDots(host)
  OBVIOUS
<1>15. NormalizeHost(Dressed(texts, dress)) = WithoutWww(short)
  BY <1>11, <1>12, <1>13, <1>14 DEF NormalizeHost
<1>16. PICK f, m : f = Len(front) /\ m = Len(texts)
  OBVIOUS
<1>17. f \in {0, 1} /\ m \in Nat /\ m >= 1 /\ Len(host) = f + m + n
  BY <1>2, <1>4, <1>8, <1>10, <1>16
<1>18. PICK last : last = f + m
  OBVIOUS
<1>19. /\ last \in 1..Len(host) /\ host[last] # NoText
       /\ \A i \in 1..Len(host) : i > last => host[i] = NoText
  <2>1. last \in 1..Len(host) /\ m \in 1..m
    BY <1>2, <1>17, <1>18
  <2>2. host[last] = texts[m]
    BY <1>8, <1>16, <1>18, <2>1
  <2> QED
    BY <1>8, <1>16, <1>18, <2>1, <2>2
<1>20. short \in Hosts /\ Len(short) = last /\ \A i \in 1..last : short[i] = host[i]
  BY <1>8, <1>14, <1>19, DotsGo
<1>21. CASE www
  <2>0. f = 1
    BY <1>4, <1>16, <1>21
  <2>1. f = 1 /\ Len(short) = m + 1 /\ 1 \in 1..last
    BY <1>17, <1>18, <1>20, <2>0
  <2>2. short[1] = "www"
    BY <1>4, <1>8, <1>16, <1>20, <1>21, <2>1
  <2>3. \A i \in 1..m : short[i + 1] = texts[i]
    <3>1. SUFFICES ASSUME NEW i \in 1..m PROVE short[i + 1] = texts[i]
      OBVIOUS
    <3>2. i + 1 \in 1..last /\ i + 1 = f + i
      BY <1>17, <1>18, <2>1
    <3> QED
      BY <1>8, <1>16, <1>20, <3>2
  <2>4. WithoutWww(short) = texts
    BY <1>16, <1>20, <2>1, <2>2, <2>3, WwwGoes
  <2>5. WithoutWww(texts) = texts
    BY <1>1, <1>21 DEF WithoutWww
  <2> QED
    BY <1>15, <2>4, <2>5
<1>22. CASE ~www
  <2>1. f = 0 /\ Len(short) = m /\ last = m
    BY <1>4, <1>16, <1>17, <1>18, <1>20, <1>22
  <2>2. \A i \in 1..m : short[i] = texts[i]
    <3>1. SUFFICES ASSUME NEW i \in 1..m PROVE short[i] = texts[i]
      OBVIOUS
    <3>2. i \in 1..last /\ i = f + i
      BY <2>1, <1>17
    <3> QED
      BY <1>8, <1>16, <1>20, <3>2
  <2>3. short \in Seq(Texts)
    BY <1>20 DEF Hosts
  <2>4. short = texts
    BY <1>10, <1>16, <2>1, <2>2, <2>3, SeqEqual
  <2> QED
    BY <1>15, <2>4
<1> QED
  BY <1>2, <1>21, <1>22

\* A documented host comes out of every dress.
LEMMA DocumentedHost ==
  ASSUME NEW netloc, NEW name \in Texts, NEW top \in Texts, name # "www", top # NoText,
         \E dress \in Dresses : netloc = Dressed(<<name, top>>, dress)
  PROVE  NormalizeHost(netloc) = <<name, top>>
<1>1. PICK dress \in Dress : netloc = Dressed(<<name, top>>, dress)
  BY InputsAssumption
<1>2. PICK host : host = <<name, top>>
  OBVIOUS
<1>3. host \in Hosts /\ Len(host) = 2 /\ host[1] = name /\ host[2] = top
  <2>1. host \in Seq(Texts) /\ Len(host) = 2 /\ host[1] = name /\ host[2] = top
    BY <1>2
  <2> QED
    BY <2>1, EmptySeq DEF Hosts
<1>4. NormalizeHost(netloc) = WithoutWww(host)
  BY <1>1, <1>2, <1>3, DressGoes
<1>5. WithoutWww(host) = host
  BY <1>3 DEF WithoutWww
<1> QED
  BY <1>2, <1>4, <1>5

\* A domain is a domain of itself.
LEMMA DomainOfItself ==
  ASSUME NEW name, NEW top
  PROVE  IsDomain(<<name, top>>, <<name, top>>)
  BY DEF IsDomain

\* A link that fits a documented pattern passes the check of its platform.
LEMMA PatternPasses ==
  ASSUME NEW url \in Link, NEW pattern \in Documented, FitsPattern(url, pattern),
         ~(url.slash /\ pattern[2] = <<"watch">>)
  PROVE  pattern[3] \in Passes(url)
<1> DEFINE host == NormalizeHost(url.netloc)
<1>1. /\ \E dress \in Dresses : url.netloc = Dressed(pattern[1], dress)
      /\ url.path \in Seq(STRING) /\ Len(url.path) = Len(pattern[2])
      /\ \A i \in DOMAIN url.path : pattern[2][i] \in {"*", url.path[i]}
  BY DEF FitsPattern, Link
<1>2. ASSUME NEW segment, pattern[2] = <<segment, "*">>, segment # "*"
      PROVE  \A others : segment \in others => StartsWith(url, others)
  <2>1. Len(url.path) = 2 /\ DOMAIN url.path = 1..2 /\ url.path[1] = segment
    BY <1>1, <1>2
  <2> QED
    BY <2>1 DEF StartsWith
<1>3. ASSUME NEW segment, pattern[2] = <<"*", segment, "*">>, segment # "*"
      PROVE  Holds(url, segment)
  <2>1. Len(url.path) = 3 /\ DOMAIN url.path = 1..3 /\ url.path[2] = segment
    BY <1>1, <1>3
  <2> QED
    BY <2>1 DEF Holds
<1>4. CASE pattern[1] = <<"instagram", "com">>
  <2>1. host = <<"instagram", "com">>
    <3>1. "instagram" \in Texts /\ "com" \in Texts /\ "instagram" # "www"
      BY DEF Texts
    <3>2. "com" # NoText
      BY Zenon DEF NoText
    <3> QED
      BY <3>1, <3>2, <1>1, <1>4, DocumentedHost
  <2>2. pattern[2] \in {<<"p", "*">>, <<"reel", "*">>, <<"stories", "*">>} /\ pattern[3] = "instagram"
    BY <1>4 DEF Documented
  <2>3. StartsWith(url, {"p", "reel", "stories"})
    BY <1>2, <2>2
  <2> QED
    BY <2>1, <2>2, <2>3, DomainOfItself DEF Passes, IsInstagram
<1>5. CASE pattern[1] = <<"pinterest", "com">>
  <2>1. host = <<"pinterest", "com">>
    <3>1. "pinterest" \in Texts /\ "com" \in Texts /\ "pinterest" # "www"
      BY DEF Texts
    <3>2. "com" # NoText
      BY Zenon DEF NoText
    <3> QED
      BY <3>1, <3>2, <1>1, <1>5, DocumentedHost
  <2>2. pattern[2] = <<"pin", "*">> /\ pattern[3] = "pinterest"
    BY <1>5 DEF Documented
  <2>3. StartsWith(url, {"pin"})
    BY <1>2, <2>2
  <2> QED
    BY <2>1, <2>2, <2>3, DomainOfItself DEF Passes, IsPinterest
<1>6. CASE pattern[1] = <<"pin", "it">>
  <2>1. host = <<"pin", "it">>
    <3>1. "pin" \in Texts /\ "it" \in Texts /\ "pin" # "www"
      BY DEF Texts
    <3>2. "it" # NoText
      BY Zenon DEF NoText
    <3> QED
      BY <3>1, <3>2, <1>1, <1>6, DocumentedHost
  <2>2. pattern[2] = <<"*">> /\ pattern[3] = "pinterest"
    BY <1>6 DEF Documented
  <2>3. PICK path : path = url.path
    OBVIOUS
  <2>4. Len(path) = 1
    BY <1>1, <2>2, <2>3
  <2>5. path # << >>
    BY <2>4
  <2> QED
    BY <2>1, <2>2, <2>3, <2>5 DEF Passes, IsPinterest
<1>7. CASE pattern[1] = <<"facebook", "com">>
  <2>1. host = <<"facebook", "com">>
    <3>1. "facebook" \in Texts /\ "com" \in Texts /\ "facebook" # "www"
      BY DEF Texts
    <3>2. "com" # NoText
      BY Zenon DEF NoText
    <3> QED
      BY <3>1, <3>2, <1>1, <1>7, DocumentedHost
  <2>2. pattern[2] \in {<<"*", "videos", "*">>, <<"reel", "*">>} /\ pattern[3] = "facebook"
    BY <1>7 DEF Documented
  <2>3. StartsWith(url, {"reel", "watch"}) \/ Holds(url, "videos")
    BY <1>2, <1>3, <2>2
  <2> QED
    BY <2>1, <2>2, <2>3, DomainOfItself DEF Passes, IsFacebook
<1>8. CASE pattern[1] = <<"tiktok", "com">>
  <2>1. host = <<"tiktok", "com">>
    <3>1. "tiktok" \in Texts /\ "com" \in Texts /\ "tiktok" # "www"
      BY DEF Texts
    <3>2. "com" # NoText
      BY Zenon DEF NoText
    <3> QED
      BY <3>1, <3>2, <1>1, <1>8, DocumentedHost
  <2>2. pattern[2] = <<"*", "video", "*">> /\ pattern[3] = "tiktok"
    BY <1>8 DEF Documented
  <2>3. Holds(url, "video")
    BY <1>3, <2>2
  <2> QED
    BY <2>1, <2>2, <2>3, DomainOfItself DEF Passes, IsTiktok
<1>9. CASE pattern[1] = <<"youtube", "com">>
  <2>1. host = <<"youtube", "com">>
    <3>1. "youtube" \in Texts /\ "com" \in Texts /\ "youtube" # "www"
      BY DEF Texts
    <3>2. "com" # NoText
      BY Zenon DEF NoText
    <3> QED
      BY <3>1, <3>2, <1>1, <1>9, DocumentedHost
  <2>2. pattern[2] = <<"watch">> /\ pattern[3] = "youtube" /\ ~url.slash
    BY <1>9 DEF Documented
  <2>3. url.path = <<"watch">>
    BY <1>1, <2>2
  <2> QED
    BY <2>1, <2>2, <2>3, DomainOfItself DEF Passes, IsYoutube
<1>10. CASE pattern[1] = <<"youtu", "be">>
  <2>1. host = <<"youtu", "be">>
    <3>1. "youtu" \in Texts /\ "be" \in Texts /\ "youtu" # "www"
      BY DEF Texts
    <3>2. "be" # NoText
      BY Zenon DEF NoText
    <3> QED
      BY <3>1, <3>2, <1>1, <1>10, DocumentedHost
  <2>2. pattern[3] = "youtube"
    BY <1>10 DEF Documented
  <2> QED
    BY <2>1, <2>2 DEF Passes, IsYoutube
<1> QED
  BY <1>4, <1>5, <1>6, <1>7, <1>8, <1>9, <1>10 DEF Documented

\* What the document promises of a link is what the code does with it.
LEMMA DocumentedHolds == ResultFits => DocumentedLinksWork
<1> SUFFICES ASSUME ResultFits, HasLink, NEW pattern \in Documented,
                    FitsPattern(FirstLink, pattern),
                    ~(FirstLink.slash /\ pattern[2] = <<"watch">>)
             PROVE  result = pattern[3]
  BY DEF DocumentedLinksWork
<1>1. FirstLink \in Link /\ result = DetectPlatform(FirstLink)
  BY FirstLinkDecides
<1>2. FirstLink.valid
  BY DEF FitsPattern
<1> QED
  BY <1>1, <1>2, PatternPasses, PassingDecides

\* Every documented link is downloaded from the platform it names, in a message
\* of any length whose other links may be anything.
THEOREM DocumentedLinks == Spec => []DocumentedLinksWork
  BY ResultsFit, DocumentedHolds, PTL

-----------------------------------------------------------------------------
(* One platform for a link                                                 *)

\* A host on which a check of a session platform passes is known, or lies below
\* fb.watch.
LEMMA SessionHostIsKnown ==
  ASSUME NEW url, NEW p \in Passes(url) \cap SessionPlatforms
  PROVE  LET host == NormalizeHost(url.netloc)
         IN  IsKnownPlatformHost(host) \/ IsDomain(host, <<"fb", "watch">>)
<1> DEFINE host == NormalizeHost(url.netloc)
<1>1. \/ IsInstagram(url, host) \/ IsPinterest(url, host) \/ IsFacebook(url, host)
  BY DEF Passes, SessionPlatforms
<1> HIDE DEF host
<1>2. CASE IsInstagram(url, host)
  BY <1>2 DEF IsInstagram, IsKnownPlatformHost, host
<1>3. CASE IsPinterest(url, host)
  BY <1>3 DEF IsPinterest, IsKnownPlatformHost, host
<1>4. CASE IsFacebook(url, host)
  BY <1>4 DEF IsFacebook, IsKnownPlatformHost, host
<1> QED
  BY <1>1, <1>2, <1>3, <1>4

\* Whatever the order of the checks, one platform at most claims a link, and a host
\* of a session platform is not generic.
LEMMA OnePlatformHolds == ResultFits => OnePlatformPerLink
<1> SUFFICES ASSUME ResultFits, HasLink
             PROVE  LET host == NormalizeHost(FirstLink.netloc)
                    IN  /\ Cardinality(Passes(FirstLink)) <= 1
                        /\ OnSessionHost(FirstLink) /\ result = "generic" =>
                             IsDomain(host, <<"fb", "watch">>) /\ host # <<"fb", "watch">>
  BY DEF OnePlatformPerLink
<1>1. PICK url \in Link : url = FirstLink /\ result = DetectPlatform(url)
  BY FirstLinkDecides
<1>2. Cardinality(Passes(url)) <= 1
  <2>1. CASE Passes(url) = {}
    BY <2>1, FS_EmptySet
  <2>2. CASE Passes(url) # {}
    <3>1. PICK p : Passes(url) = {p}
      BY <2>2, OnePasses
    <3> QED
      BY <3>1, FS_Singleton
  <2> QED
    BY <2>1, <2>2
<1>3. ASSUME OnSessionHost(url), DetectPlatform(url) = "generic"
      PROVE  LET host == NormalizeHost(url.netloc)
             IN  IsDomain(host, <<"fb", "watch">>) /\ host # <<"fb", "watch">>
  <2>1. PICK path \in Paths :
          Passes([url EXCEPT !.path = path[1], !.slash = path[2]]) \cap SessionPlatforms # {}
    BY <1>3 DEF OnSessionHost
  <2>2. PICK other : other = [url EXCEPT !.path = path[1], !.slash = path[2]]
    OBVIOUS
  <2>3. other.netloc = url.netloc
    BY <2>2 DEF Link
  <2>4. PICK p : p \in Passes(other) \cap SessionPlatforms
    BY <2>1, <2>2
  <2>5. PICK host : host = NormalizeHost(url.netloc)
    OBVIOUS
  <2>6. IsKnownPlatformHost(host) \/ IsDomain(host, <<"fb", "watch">>)
    BY <2>3, <2>4, <2>5, SessionHostIsKnown
  <2>7. url.valid /\ (Passes(url) = {} => ~IsKnownPlatformHost(host))
    BY <1>3, <2>5 DEF DetectPlatform
  <2>8. Passes(url) = {}
    <3>1. SUFFICES ASSUME NEW q \in Passes(url) PROVE FALSE
      OBVIOUS
    <3>2. q = "generic"
      BY <1>3, <2>7, PassingDecides
    <3> QED
      BY <3>1, <3>2 DEF Passes
  <2>9. ~IsKnownPlatformHost(host) /\ IsDomain(host, <<"fb", "watch">>)
    BY <2>6, <2>7, <2>8
  <2>10. host # <<"fb", "watch">>
    BY <2>9 DEF IsKnownPlatformHost
  <2> QED
    BY <2>5, <2>9, <2>10
<1> QED
  BY <1>1, <1>2, <1>3

\* In every message, for links with any hosts and paths.
THEOREM LinksAreUnambiguous == Spec => []OnePlatformPerLink
  BY ResultsFit, OnePlatformHolds, PTL

-----------------------------------------------------------------------------
(* The dress of a host                                                     *)

\* The verdict is a function of the normalised host and the path.
LEMMA SameVerdict ==
  ASSUME NEW url, NEW other, NormalizeHost(other.netloc) = NormalizeHost(url.netloc),
         other.valid = url.valid, other.path = url.path, other.slash = url.slash
  PROVE  DetectPlatform(other) = DetectPlatform(url)
<1>1. /\ \A segments : StartsWith(other, segments) = StartsWith(url, segments)
      /\ \A segment : Holds(other, segment) = Holds(url, segment)
  BY DEF StartsWith, Holds
<1>2. \A host : /\ IsInstagram(other, host) = IsInstagram(url, host)
                /\ IsPinterest(other, host) = IsPinterest(url, host)
                /\ IsFacebook(other, host) = IsFacebook(url, host)
                /\ IsTiktok(other, host) = IsTiktok(url, host)
                /\ IsYoutube(other, host) = IsYoutube(url, host)
  BY <1>1 DEF IsInstagram, IsPinterest, IsFacebook, IsTiktok, IsYoutube
<1>3. Passes(other) = Passes(url)
  BY <1>2 DEF Passes
<1> QED
  BY <1>3 DEF DetectPlatform

\* Every dress of a bare first link gives the same verdict.
LEMMA DressHolds == ResultFits => DressIsIrrelevant
<1> SUFFICES ASSUME ResultFits, HasLink, Len(FirstLink.netloc) = 1, Len(FirstLink.netloc[1]) = 1
             PROVE  LET host == Lower(FirstLink.netloc[1][1])
                    IN  host[Len(host)] # NoText =>
                          \A dress \in Dresses :
                            (dress.www => host[1] # "www") =>
                              DetectPlatform([FirstLink EXCEPT !.netloc = Dressed(host, dress)])
                                = result
  BY DEF DressIsIrrelevant
<1>1. PICK url \in Link : url = FirstLink /\ result = DetectPlatform(url)
  BY FirstLinkDecides
<1>2. PICK labels : labels = url.netloc[1][1]
  OBVIOUS
<1>3. labels \in Dotted
  <2>1. url.netloc \in Netloc
    BY DEF Link
  <2>2. PICK netloc \in Netloc : netloc = url.netloc
    BY <2>1
  <2>3. netloc[1] \in Authority
    BY FirstAndLast DEF Netloc
  <2> QED
    BY <1>2, <2>2, <2>3, FirstAndLast DEF Authority
<1>4. PICK host : host = Lower(labels)
  OBVIOUS
<1>5. host \in Hosts
  BY <1>3, <1>4, DottedTexts, LowerType
<1>6. SUFFICES ASSUME host[Len(host)] # NoText, NEW dress \in Dresses, dress.www => host[1] # "www"
               PROVE  DetectPlatform([url EXCEPT !.netloc = Dressed(host, dress)])
                        = DetectPlatform(url)
  BY <1>1, <1>2, <1>4
<1>7. NormalizeHost(url.netloc) = WithoutWww(host)
  <2>1. NormalizeHost(url.netloc) = WithoutWww(WithoutDots(host))
    BY <1>1, <1>2, <1>4 DEF NormalizeHost, AfterUser, BeforePort
  <2>2. /\ host \in Seq(Texts) /\ Len(host) \in Nat /\ Len(host) >= 1
    BY <1>5, FirstAndLast DEF Hosts
  <2>3. PICK short : short = WithoutDots(host)
    OBVIOUS
  <2>4. /\ short \in Seq(Texts) /\ Len(short) = Len(host)
        /\ \A i \in 1..Len(host) : short[i] = host[i]
    <3>1. Len(host) \in 1..Len(host) /\ \A i \in 1..Len(host) : ~(i > Len(host))
      BY <2>2
    <3> QED
      BY <1>5, <1>6, <2>3, <3>1, DotsGo DEF Hosts
  <2>5. short = host
    BY <2>2, <2>4, SeqEqual
  <2> QED
    BY <2>1, <2>3, <2>5
<1>8. dress \in Dress
  BY InputsAssumption
<1>9. PICK other : other = [url EXCEPT !.netloc = Dressed(host, dress)]
  OBVIOUS
<1>10. /\ other.netloc = Dressed(host, dress) /\ other.valid = url.valid
       /\ other.path = url.path /\ other.slash = url.slash
  BY <1>9 DEF Link
<1>11. NormalizeHost(other.netloc) = NormalizeHost(url.netloc)
  BY <1>5, <1>6, <1>7, <1>8, <1>10, DressGoes
<1> QED
  BY <1>9, <1>10, <1>11, SameVerdict

\* In every message, for user information with any marks, any port and any number
\* of final dots.
THEOREM DressNeverCounts == Spec => []DressIsIrrelevant
  BY ResultsFit, DressHolds, PTL

-----------------------------------------------------------------------------
(* Payloads                                                                *)

\* A name that is found belongs to a whole cookie of Instagram.
LEMMA NamesAreCookies ==
  ASSUME NEW payload, ValidateNetscapeCookies(payload, "instagram") = "ok",
         NEW name \in RequiredNames
  PROVE  \E i \in DOMAIN payload :
           /\ payload[i].kind = "cookie" /\ payload[i].name = name
           /\ payload[i].domain = "instagram" /\ ~payload[i].empty
<1>1. /\ \A line \in Kept(payload) : HasSevenFields(line)
      /\ name \in CookieNames(payload, "instagram")
  BY DEF ValidateNetscapeCookies
<1>2. PICK line \in Kept(payload) : line.name = name /\ Matches(line, "instagram")
  BY <1>1 DEF CookieNames
<1>3. PICK i \in DOMAIN payload : payload[i] = line
  BY <1>2 DEF Kept
<1> QED
  BY <1>1, <1>2, <1>3 DEF HasSevenFields, Matches

\* The verdict about a payload is one about the cookies that are read in it.
LEMMA AcceptedHolds == ResultFits => AcceptedIsComplete
<1> SUFFICES ASSUME ResultFits, input.kind = "payload", input.platform = "instagram",
                    result # "none", result # "empty"
             PROVE  /\ result = "ok" =>
                         \A name \in RequiredNames : \E i \in DOMAIN input.what :
                           /\ input.what[i].kind = "cookie" /\ input.what[i].name = name
                           /\ input.what[i].domain = "instagram" /\ ~input.what[i].empty
                    /\ \A other \in Payloads : Kept(other) = Kept(input.what) =>
                         ValidateNetscapeCookies(other, "instagram") = result
  BY DEF AcceptedIsComplete
<1>1. result = Validate(input.what, "instagram")
  BY DEF ResultFits
<1>2. result = ValidateNetscapeCookies(input.what, "instagram")
  BY <1>1 DEF Validate
<1>3. ASSUME NEW other, Kept(other) = Kept(input.what)
      PROVE  ValidateNetscapeCookies(other, "instagram")
               = ValidateNetscapeCookies(input.what, "instagram")
  BY <1>3 DEF ValidateNetscapeCookies, CookieNames
<1> QED
  BY <1>2, <1>3, NamesAreCookies

\* For payloads of any number of lines.
THEOREM AcceptedPayloads == Spec => []AcceptedIsComplete
  BY ResultsFit, AcceptedHolds, PTL
=============================================================================
