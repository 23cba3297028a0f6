------------------------------- MODULE Exchange -------------------------------
(***************************************************************************)
(* One exchange of a request and a response, end to end.  The server's     *)
(* program sets up its router and calls start; the client program's        *)
(* Request object is written by NiceHTTP::request, read and routed by      *)
(* NiceHTTP::parsereq, and the Response of the route's function travels    *)
(* back.  Either end may also be a program of other make.                  *)
(*                                                                         *)
(* The bytes travel here as RecvHttp says they do.  Each of the two texts  *)
(* is read exactly, as it was written and split at its first empty line;   *)
(* or it is misread, because it does not arrive at once, its receive fails *)
(* half-way, or its blocks fall so that bytes of the body are taken for    *)
(* header; or it is overread, with bytes of the memory behind the buffer.  *)
(***************************************************************************)
EXTENDS HttpMessage, Router

CONSTANTS
  Requests,          \* Request objects a program asks with
  Answers,           \* Response objects a route's function returns
  RouteTables,       \* bound: the route tables with which a server starts
  SetUpCalls,        \* bound: the calls of add and del before it starts
  ForeignRequests,   \* what other clients write
  ForeignResponses,  \* what other servers write
  Overreads,         \* what a text of a block or more and the memory behind
                     \* the buffer may be read as, by the phase
  Garbage            \* what an uninitialized code may hold

ASSUME ExchangeAssumption ==
  /\ \A r \in Requests : IsRequest(r)
  /\ \A r \in Answers : IsResponse(r)
  /\ \A w \in ForeignRequests \cup Overreads["requested"] : IsText(w)
  /\ \A w \in ForeignResponses \cup Overreads["answered"] :
        IsText(w) /\ (2 \in DOMAIN w.line => w.line[2] \in Int)
  /\ Garbage \subseteq -(2^15) .. 2^15 - 1
  /\ {"Server", "Connection"} \subseteq DOMAIN Lower

VARIABLES
  phase,
  asked,     \* the Request object, when our client wrote the request
  sent,      \* the request as the client wrote it (history)
  wire,      \* the text under way, then what recv_http returns of it
  requestRead,
  responseRead,
  received,  \* the Request object that parsereq builds
  outcome,   \* what Router::handle decides
  answer,    \* the Response object that parsereq writes
  result     \* the Response object that request returns

clientVars  == <<asked, sent>>
readVars    == <<requestRead, responseRead>>
programVars == <<received, outcome, answer, result>>

vars == <<router, phase, clientVars, wire, readVars, programVars>>

Unset == [unset |-> TRUE]

Init ==
  /\ Router
  /\ phase = "setup"
  /\ asked = Unset /\ received = Unset /\ outcome = Unset /\ answer = Unset /\ result = Unset
  /\ sent = Nothing /\ wire = Nothing
  /\ requestRead = "exact" /\ responseRead = "exact"

(* The program sets up the router ...                                      *)
SetUp ==
  /\ phase = "setup"
  /\ \E r \in RouteSet : add(r) \/ del(r)
  /\ UNCHANGED <<phase, clientVars, wire, readVars, programVars>>

(* ... and calls start.                                                    *)
Start ==
  /\ phase = "setup"
  /\ routes \in RouteTables /\ Len(calls) <= SetUpCalls
  /\ phase' = "start"
  /\ UNCHANGED <<router, clientVars, wire, readVars, programVars>>

SendRequest ==
  /\ phase = "start"
  /\ asked' \in Requests
  /\ sent' = RequestToString(asked') /\ wire' = sent'
  /\ phase' = "requested"
  /\ UNCHANGED <<router, readVars, programVars>>

ForeignClient ==
  /\ phase = "start"
  /\ sent' \in ForeignRequests /\ wire' = sent'
  /\ phase' = "requested"
  /\ UNCHANGED <<router, asked, readVars, programVars>>

(* recv_http returns something else than the text that is under way.       *)
Reading(how) ==
  /\ \/ /\ phase = "requested" /\ requestRead = "exact"
        /\ requestRead' = how /\ UNCHANGED responseRead
     \/ /\ phase = "answered" /\ asked # Unset /\ responseRead = "exact"
        /\ responseRead' = how /\ UNCHANGED requestRead
  /\ UNCHANGED <<router, phase, clientVars, programVars>>

RecvPart == Reading("misread") /\ wire' \in Received(wire) \ {wire}

RecvOverread == Reading("overread") /\ wire' \in Overreads[phase]

Plain(code, message) == NewResponse(code, message, PROTO_HTTP1, <<>>, FALSE, 0, <<>>)

(* The Response objects that Router::handle may return for an outcome.     *)
Responses(o) ==
  CASE o.by = "func"         -> Answers
    [] o.by = "Unauthorized" -> {Plain(401, <<"Unauthorized">>)}
    [] o.by = "NotFound"     -> {Plain(404, <<"Not", "Found">>)}

(* headers.insert({"Server", ...}), insert({"Connection", ...}): a header  *)
(* that the function has set under the same name stays.                    *)
WithServerHeaders(r) ==
  [r EXCEPT !.headers =
     Over(@, [n \in {"Server", "Connection"} |-> IF n = "Server" THEN "NiceHTTP" ELSE "close"])]

parsereq ==
  /\ phase = "requested"
  /\ received' = Request(wire)
  /\ outcome' = Handle(routes, received')
  /\ outcome'.by # "throw"
  /\ \E r \in Responses(outcome') :
        /\ answer' = WithServerHeaders(r)
        /\ wire' = ResponseToString(answer')
  /\ phase' = "answered"
  /\ UNCHANGED <<router, clientVars, readVars, result>>

(* The pattern or the function throws: nothing is sent.                    *)
ParsereqThrows ==
  /\ phase = "requested"
  /\ received' = Request(wire)
  /\ outcome' = Handle(routes, received')
  /\ outcome'.by \in {"func", "throw"}
  /\ phase' = "unanswered"
  /\ UNCHANGED <<router, clientVars, wire, readVars, answer, result>>

(* The server is of other make, or the connection ends without an answer.  *)
ForeignServer ==
  /\ phase = "requested"
  /\ asked # Unset
  /\ wire' \in ForeignResponses \cup {Nothing}
  /\ phase' = "answered"
  /\ UNCHANGED <<router, clientVars, readVars, programVars>>

ReadResponse ==
  /\ phase = "answered" /\ asked # Unset
  /\ ~ResponseThrows(wire)
  /\ IF wire.ended THEN result' = Response(wire)
     ELSE \E code \in Garbage : result' = MalformedResponse(code)
  /\ phase' = "done"
  /\ UNCHANGED <<router, clientVars, wire, readVars, received, outcome, answer>>

ReadThrows ==
  /\ phase = "answered" /\ asked # Unset
  /\ ResponseThrows(wire)
  /\ phase' = "failed"
  /\ UNCHANGED <<router, clientVars, wire, readVars, programVars>>

Next ==
  \/ SetUp \/ Start
  \/ SendRequest \/ ForeignClient \/ RecvPart \/ RecvOverread
  \/ parsereq \/ ParsereqThrows \/ ForeignServer
  \/ ReadResponse \/ ReadThrows

Spec == Init /\ [][Next]_vars

--------------------------------------------------------------------------------
TypeOK ==
  /\ RouterTypeOK
  /\ phase \in {"setup", "start", "requested", "answered", "unanswered", "done", "failed"}
  /\ \A msg \in {received, result} \ {Unset} :
        \A n \in DOMAIN msg.headers : Lower[n] = n
  /\ result # Unset => result.code \in -(2^15) .. 2^15 - 1

(***************************************************************************)
(* The server builds the Request that the client's program wrote, with the *)
(* names of the headers in lower case, when it is well formed, its URI has *)
(* no space, and it is read exactly.  When it is misread, its method, URI  *)
(* and proto arrive all the same, or none of them.                         *)
(***************************************************************************)
RequestArrives ==
  asked # Unset /\ received # Unset /\ Len(asked.uri) = 1 =>
    /\ WellFormed(asked) /\ requestRead = "exact" =>
         received = [asked EXCEPT !.headers = Lowered(@)]
    /\ requestRead = "misread" =>
         \/ /\ received.method = asked.method /\ received.uri = asked.uri
            /\ received.proto = asked.proto
         \/ received.method = "" /\ received.uri = <<"">> /\ received.proto = ""

(* The client's program gets the Response that the route's function made,  *)
(* with the server's two headers, when it is well formed and read exactly. *)
ResponseArrives ==
  result # Unset /\ answer # Unset /\ WellFormed(answer) /\ responseRead = "exact" =>
    result = [answer EXCEPT !.headers = Lowered(@)]

(***************************************************************************)
(* Whatever is wrong with the answer's length, headers and body, however   *)
(* little of it is received and wherever it is split, the client's program *)
(* learns how its request was answered, or can tell by the empty proto     *)
(* that it has not learnt it: then code is a number that nobody has        *)
(* written.                                                                *)
(***************************************************************************)
StatusArrives ==
  result # Unset =>
    /\ wire = Nothing => result.proto = ""
    /\ answer # Unset /\ wire # Nothing /\ responseRead # "overread" =>
         /\ result.proto = answer.proto /\ result.code = answer.code
         /\ result.message = answer.message

(***************************************************************************)
(* What a server may take for a token: of the fields of a text and of the  *)
(* lines of the beginnings of its body, the values that are written under  *)
(* a spelling of authorization, and of the former what is left when they   *)
(* are cut.                                                                *)
(***************************************************************************)
IsToken(f) == f.colon = ": " /\ Lower[f.name] = "authorization"

TokensInFields(w) ==
  UNION {{f.value} \cup Cuts[f.value] : f \in {g \in ToSet(w.fields) : IsToken(g)}}

TokensInBody(w) ==
  LET fields == UNION {ToSet(FieldsIn(SubSeq(w.body, 1, k))) : k \in 0 .. Len(w.body)}
  IN  {f.value : f \in {g \in fields : IsToken(g)}}

TokensIn(w) == TokensInFields(w) \cup TokensInBody(w)

(***************************************************************************)
(* Route::handle, over the wire, for clients of any make: the function of  *)
(* a route with a token runs only for a client that has written the token, *)
(* or a longer one that has been cut down to it, under a spelling of       *)
(* authorization, be it in a line of the body; and the function of a route *)
(* with a method only for a client that asked by that method.  (Unless the *)
(* request is overread: what lies behind the buffer may hold a token.)     *)
(***************************************************************************)
TokenNeeded ==
  outcome # Unset /\ outcome.by = "func" /\ requestRead # "overread" =>
    \E r \in routes :
      /\ r.func = outcome.func
      /\ r.method = "" \/ (1 \in DOMAIN sent.line /\ r.method = sent.line[1])
      /\ r.auth = NoAuth \/ r.auth \in TokensIn(sent)

(***************************************************************************)
(* Either side gets the whole body that the other has sent or none, never  *)
(* a part of it and never one that has lost its beginning to the header,   *)
(* whatever part of the text is received and wherever it is split: if the  *)
(* sender's content_length is true and nothing else in the message looks   *)
(* like one.  (Unless the text is overread.)                               *)
(***************************************************************************)
BodyWholeOrNone ==
  /\ asked # Unset /\ received # Unset /\ OneLength(asked) /\ requestRead # "overread" =>
       received.body \in {<<>>, asked.body}
  /\ answer # Unset /\ result # Unset /\ OneLength(answer) /\ responseRead # "overread" =>
       result.body \in {<<>>, answer.body}
================================================================================
