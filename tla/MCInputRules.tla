---------------------------- MODULE MCInputRules ----------------------------
(* Bounded inputs of InputRules for TLC. *)
EXTENDS InputRules

Hosts ==
  {<<"instagram", "com">>, <<"pinterest", "com">>, <<"pin", "it">>, <<"facebook", "com">>,
   <<"fb", "watch">>, <<"tiktok", "com">>, <<"vm", "tiktok", "com">>, <<"youtube", "com">>,
   <<"youtu", "be">>, <<"x", "com">>, <<"redd", "it">>, <<"example", "org">>, <<"localhost">>}

SomePaths ==
  {<< >>, <<"p", "id">>, <<"reel", "id">>, <<"stories", "user">>, <<"pin", "id">>, <<"id">>,
   <<"user", "videos", "id">>, <<"user", "video", "id">>, <<"watch">>, <<"watch", "id">>}

Prefixed(host) == {host, <<"www">> \o host, <<"m">> \o host}

\* User information: none, "name", or "name:a@b.".
Word(text) == [text |-> text, upper |-> FALSE]
Name == <<<<Word("name")>>>>
NameWithMarks == <<<<<<Word("name")>>, <<Word("a")>>>>, <<<<Word("b"), Word("")>>>>>>

SomeDresses ==
  [user : {<< >>, <<Name>>, NameWithMarks}, www : BOOLEAN, upper : BOOLEAN, dots : 0..2,
   port : {<< >>, <<<<Word("443")>>>>}]

Bare == [user |-> << >>, www |-> FALSE, upper |-> FALSE, dots |-> 0, port |-> << >>]

Links ==
  [scheme : {"http", "ftp"}, valid : {TRUE},
   netloc : {Dressed(host, Bare) : host \in UNION {Prefixed(h) : h \in Hosts}},
   path : SomePaths, slash : BOOLEAN]

\* Documented links in every dress.
Plain(host, path) ==
  [scheme |-> "http", valid |-> TRUE, netloc |-> Dressed(host, Bare), path |-> path,
   slash |-> FALSE]

DressedLinks ==
  {[Plain(<<"instagram", "com">>, <<"reel", "id">>)
      EXCEPT !.netloc = Dressed(<<"instagram", "com">>, dress)] : dress \in SomeDresses}

\* Two links of which the first may not parse, or has no supported scheme.
Reel == Plain(<<"instagram", "com">>, <<"reel", "id">>)
Others ==
  {Reel, [Reel EXCEPT !.valid = FALSE], [Reel EXCEPT !.scheme = "ftp"],
   Plain(<<"youtu", "be">>, <<"id">>), Plain(<<"example", "org">>, << >>)}

SomeMessages ==
  {<< >>} \union {<<l>> : l \in Links \union DressedLinks} \union (Others \X Others)

Lines ==
  {[kind |-> k, domain |-> "", name |-> "", empty |-> FALSE] :
     k \in {"blank", "comment", "text"}}
    \union [kind : {"cookie", "httponly"}, domain : {"instagram"},
            name : RequiredNames, empty : {FALSE}]
    \union [kind : {"cookie"}, domain : {"instagram"}, name : {"sessionid"}, empty : {TRUE}]
    \union [kind : {"cookie"}, domain : {"other"}, name : {"sessionid"}, empty : {FALSE}]

SomePayloads == UNION {[1..n -> Lines] : n \in 0..3}
=============================================================================
