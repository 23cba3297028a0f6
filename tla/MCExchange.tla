------------------------------ MODULE MCExchange ------------------------------
(* Instances of Exchange for TLC: names in two spellings, true and false   *)
(* content lengths, URIs and phrases with and without a space; two methods,*)
(* a pattern that matches every URI and one that matches a single URI, two *)
(* routes with each; "/(" is a pattern that is no regular expression.      *)
EXTENDS Exchange

MCNameOrder ==
  <<"Authorization", "Connection", "Content-Length", "Content-Type", "Server",
    "authorization", "connection", "content-length", "content-type", "server">>

MCLower ==
  [n \in ToSet(MCNameOrder) |->
     CASE n \in {"Authorization", "authorization"} -> "authorization"
       [] n \in {"Connection", "connection"} -> "connection"
       [] n \in {"Content-Length", "content-length"} -> "content-length"
       [] n \in {"Content-Type", "content-type"} -> "content-type"
       [] n \in {"Server", "server"} -> "server"]

MCDecimal == [n \in 0 .. 12 |-> ToString(n)]

(* "tokens" may be cut down to the token, 12 to 1.                         *)
MCCuts ==
  [v \in {"", "token", "tokens", "application/json", "NiceHTTP", "close", "own"}
         \cup {ToString(n) : n \in 0 .. 12} |->
     CASE v = "" -> {} [] v = "tokens" -> {"", "token"} [] v = "12" -> {"", "1"}
       [] OTHER -> {""}]

MCNumber ==
  [v \in DOMAIN MCCuts |->
     IF \E n \in 0 .. 12 : ToString(n) = v THEN CHOOSE n \in 0 .. 12 : ToString(n) = v ELSE 0]

(* Bodies in which "auth" is a line with the token, "len" one that         *)
(* announces a body of one byte, and "crlf2" two line ends.                *)
MCLinesIn ==
  [b \in {<<"auth">>, <<"auth", "x">>, <<"len", "crlf2">>, <<"len", "crlf2", "x">>} |->
     IF b[1] = "auth" THEN <<Field("authorization", "token")>>
     ELSE <<Field("content-length", "1")>>]

MCEmptyLines == [b \in {<<"len", "crlf2", "x">>} |-> {2}]

MCMethodOrder == <<"GET", "POST">>

MCPatternOrder == <<"/(", "/.*", "/a">>

MCMatches ==
  [p \in Patterns |->
     CASE p = "/(" -> {} [] p = "/.*" -> {<<"/a">>, <<"/b">>} [] p = "/a" -> {<<"/a">>}]

Maps(names, values) == UNION {[ns -> values] : ns \in SUBSET names}

(* All sorts of headers around a body of one byte, and all sorts of bodies *)
(* after a few headers: what is announced and what follows, four true      *)
(* lengths and three false.                                                *)
Headings ==
  Maps({"Authorization", "authorization"}, {"token", "tokens"})
  \cup Maps({"Content-Length"}, {"1", "12"}) \cup [{"Content-Type"} -> {"application/json", "own"}]

Contents ==
  {<<0, <<>>>>, <<2, <<"x", "y">>>>, <<2, <<"auth", "x">>>>, <<3, <<"len", "crlf2", "x">>>>,
   <<0, <<"x">>>>, <<1, <<"x", "y">>>>, <<12, <<"x">>>>}

MCRequests ==
  {NewRequest(m, u, PROTO_HTTP1, h, j, 1, <<"x">>) :
     m \in Methods, u \in {<<"/a">>, <<"/b">>}, h \in Headings, j \in BOOLEAN}
  \cup {NewRequest("POST", u, PROTO_HTTP1, h, j, c[1], c[2]) :
          u \in {<<"/b">>, <<"/a", "b">>}, j \in BOOLEAN, c \in Contents,
          h \in {<<>>} \cup [{"Authorization"} -> {"token", "own"}]}

AnswersWith(status, headers, contents) ==
  {NewResponse(s[1], s[2], PROTO_HTTP1, h, j, c[1], c[2]) :
     s \in status, h \in headers, j \in BOOLEAN, c \in contents}

MCAnswers ==
  AnswersWith({<<200, <<"OK">>>>, <<404, <<"Not", "Found">>>>, <<204, <<"">>>>}, {<<>>},
              {<<0, <<>>>>, <<1, <<"x", "y">>>>})
  \cup AnswersWith({<<200, <<"OK">>>>},
                   {<<>>, [n \in {"server", "Connection"} |-> "own"], [n \in {"Content-Length"} |-> "1"]},
                   {<<2, <<"x", "y">>>>, <<3, <<"len", "crlf2", "x">>>>})

Route(m, p, auth, f) == [method |-> m, uri |-> p, auth |-> auth, func |-> f]

MCRouteSet ==
  {Route(m, p, v[1], v[2]) :
     m \in Methods, p \in {"/.*", "/a"}, v \in {<<NoAuth, "open">>, <<"token", "protected">>}}
  \cup {Route("GET", "/(", NoAuth, "open")}

(* No token, the right one, a wrong one, the right one under another name. *)
MCProbes ==
  {[method |-> m, uri |-> u, headers |-> h] :
     m \in Methods, u \in {<<"/a">>, <<"/b">>},
     h \in {<<>>} \cup [{"authorization"} -> {"token", "other"}]
          \cup [{"authentication"} -> {"token"}]}

(* A protected route under an open one, above one, and beyond "/(".        *)
MCRouteTables ==
  {{Route("GET", "/.*", NoAuth, "open"), Route("POST", "/a", "token", "protected")},
   {Route("GET", "/.*", "token", "protected"), Route("GET", "/a", NoAuth, "open")},
   {Route("GET", "/(", NoAuth, "open"), Route("POST", "/.*", "token", "protected")}}

Written(lines) ==
  {[ended |-> TRUE, line |-> l, fields |-> f, body |-> b] :
     l \in lines, b \in {<<>>, <<"x", "y">>, <<"auth", "x">>},
     f \in {<<>>,
            <<[name |-> "authorization", colon |-> ":", value |-> "token"], Field("content-length", "1")>>,
            <<Field("Authorization", "own"), Field("authorization", "token")>>,
            <<Field("authorization", "tokens"), Field("Content-Length", "12"),
              Field("content-length", "2")>>}}

MCForeignRequests ==
  Written({<<>>, <<"GET", "/a">>, <<"POST", "/b", "HTTP/1.0">>}) \cup {Nothing}

MCForeignResponses == Written({<<PROTO_HTTP1, 200>>, <<PROTO_HTTP1, 70000, "OK">>})

Overread(line) ==
  {[ended |-> TRUE, line |-> line, fields |-> <<Field("authorization", "token")>>, body |-> <<"x">>]}

MCOverreads ==
  [requested |-> Overread(<<"POST", "/a">>), answered |-> Overread(<<PROTO_HTTP1, 500, "old">>)]
================================================================================
