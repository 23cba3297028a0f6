----------------------------- MODULE HttpMessage ------------------------------
(***************************************************************************)
(* http::Request and http::Response (lib/http.h, lib/http.cpp): how they   *)
(* are written for the wire (toString) and read from it (the constructors  *)
(* from a head and a body).                                                *)
(*                                                                         *)
(* A text that may hold spaces (a URI, a reason phrase) is the sequence of *)
(* its words; a body is the sequence of its bytes.  A text on the wire, or *)
(* read from it, is a record: is there an end of line at all; the words of *)
(* the first line; the fields, which are the lines after it that have a    *)
(* colon, each with what stands between name and value; and the body.      *)
(* Names, values and words are atoms without CR and LF, and no text has a  *)
(* NUL.                                                                    *)
(***************************************************************************)
EXTENDS Integers, Sequences, FiniteSets, SequencesExt

CONSTANTS
  NameOrder,  \* the header names in the order of std::map
  Lower,      \* each name in lower case
  Decimal,    \* each content length as it is written
  Number,     \* what strtoul makes of each value
  Cuts,       \* what is left of each value when the text ends in it: the
              \* constructors take its last character for a carriage return
  LinesIn,    \* the bodies with lines like those of a header, and what
              \* fields these are
  EmptyLines  \* the bodies with empty lines, and where these end; a body
              \* begins after one

IsSeq(s) == Len(s) \in Nat /\ s = [i \in 1 .. Len(s) |-> s[i]]

ASSUME HttpAssumption ==
  /\ IsSeq(NameOrder)
  /\ DOMAIN Lower = ToSet(NameOrder)
  /\ \A n \in DOMAIN Lower : Lower[n] \in DOMAIN Lower /\ Lower[Lower[n]] = Lower[n]
  /\ "Content-Type" \in DOMAIN Lower /\ Lower["Content-Type"] = "content-type"
  /\ "Content-Length" \in DOMAIN Lower /\ Lower["Content-Length"] = "content-length"
  /\ 0 \in DOMAIN Decimal /\ DOMAIN Decimal \subseteq Nat
  /\ \A n \in DOMAIN Decimal : Number[Decimal[n]] = n
  /\ <<>> \notin DOMAIN LinesIn
  /\ \A b \in DOMAIN LinesIn :
        /\ IsSeq(LinesIn[b])
        /\ \A f \in ToSet(LinesIn[b]) :
              /\ f = [name |-> f.name, colon |-> f.colon, value |-> f.value]
              /\ f.name \in DOMAIN Lower

PROTO_HTTP1 == "HTTP/1.1"

NameRank == [n \in DOMAIN Lower |-> CHOOSE i \in DOMAIN NameOrder : NameOrder[i] = n]

(* The constructors that take the parts of a message. *)
NewRequest(method, uri, proto, headers, is_json, content_length, body) ==
  [method |-> method, uri |-> uri, proto |-> proto, headers |-> headers,
   is_json |-> is_json, content_length |-> content_length, body |-> body]

NewResponse(code, message, proto, headers, is_json, content_length, body) ==
  [code |-> code, message |-> message, proto |-> proto, headers |-> headers,
   is_json |-> is_json, content_length |-> content_length, body |-> body]

(* The place of a name among some, in the order of std::map. *)
Place(names, n) == Cardinality({m \in names : NameRank[m] <= NameRank[n]})

NameAt(names, i) == CHOOSE n \in names : Place(names, n) = i

Field(name, value) == [name |-> name, colon |-> ": ", value |-> value]

(* A header map, in the order in which a loop over it visits it. *)
Fields(headers) ==
  LET names == DOMAIN headers
  IN  [i \in 1 .. Cardinality(names) |-> Field(NameAt(names, i), headers[NameAt(names, i)])]

LengthField(n) == Field("Content-Length", Decimal[n])

TypeField == Field("Content-Type", "application/json")

(* What toString writes after the headers, when there is something to say. *)
ContentFields(msg) ==
  IF msg.content_length = 0 THEN <<>>
  ELSE IF msg.is_json THEN <<LengthField(msg.content_length), TypeField>>
  ELSE <<LengthField(msg.content_length)>>

(***************************************************************************)
(* toString with carriage returns, after the first line.  A message whose  *)
(* content_length is 0 is written without type and without body.           *)
(***************************************************************************)
Wire(line, msg) ==
  [ended |-> TRUE,
   line |-> line,
   fields |-> Fields(msg.headers) \o ContentFields(msg),
   body |-> IF msg.content_length # 0 THEN msg.body ELSE <<>>]

RequestToString(r) == Wire(<<r.method>> \o r.uri \o <<r.proto>>, r)

ResponseToString(r) == Wire(<<r.proto, r.code>> \o r.message, r)

--------------------------------------------------------------------------------
IsJson(f) == Lower[f.name] = "content-type" /\ f.value = "application/json"

IsLength(f) == Lower[f.name] = "content-length"

FieldsIn(b) == IF b \in DOMAIN LinesIn THEN LinesIn[b] ELSE <<>>

EmptyLinesIn(b) == IF b \in DOMAIN EmptyLines THEN EmptyLines[b] ELSE {}

(* A text without an end of line. *)
Nothing == [ended |-> FALSE, line |-> <<>>, fields |-> <<>>, body |-> <<>>]

(* The fields of a text that ends after the k-th, or in its value.         *)
CutField(f, v) == [f EXCEPT !.value = v]

Begun(fields) ==
  {SubSeq(fields, 1, k) : k \in 0 .. Len(fields)}
  \cup UNION {{[SubSeq(fields, 1, k) EXCEPT ![k] = CutField(@, v)] : v \in Cuts[fields[k].value]} :
               k \in 1 .. Len(fields)}

(* A text of whose body n bytes are received and k are taken for header.   *)
SplitAt(w, k, n) ==
  [w EXCEPT !.fields = @ \o FieldsIn(SubSeq(w.body, 1, k)), !.body = SubSeq(@, k + 1, n)]

(***************************************************************************)
(* What recv_http may return of a text, in whatever blocks it comes, if a  *)
(* NUL follows the buffer.  A text that ends in the first line is nothing; *)
(* one that ends in the header has no body.  After the empty line the body *)
(* follows; but when that line lies across two blocks, or ends one, bytes  *)
(* of the body are appended to the header: up to an empty line of its own, *)
(* or all of them.                                                         *)
(***************************************************************************)
Received(w) ==
  {Nothing}
  \cup {[w EXCEPT !.fields = f, !.body = <<>>] : f \in Begun(w.fields)}
  \cup {SplitAt(w, i[1], i[2]) :
          i \in {i \in (0 .. Len(w.body)) \X (0 .. Len(w.body)) :
                   i[1] <= i[2] /\ i[1] \in {0, i[2]} \cup EmptyLinesIn(w.body)}}

(* Where the fields are that parseHeaders puts in the map: those with ": " *)
(* that announce neither a length nor a JSON text.                         *)
Kept(fields) ==
  {i \in DOMAIN fields : fields[i].colon = ": " /\ ~IsLength(fields[i]) /\ ~IsJson(fields[i])}

(* Mutant: the names are kept as they are written. *)
HeadersAsWritten(fields) ==
  [n \in {fields[i].name : i \in Kept(fields)} |->
     fields[Min({i \in Kept(fields) : fields[i].name = n})].value]

(* insert keeps the first of several fields whose names differ in case.    *)
Headers(fields) ==
  [n \in {Lower[fields[i].name] : i \in Kept(fields)} |->
     fields[Min({i \in Kept(fields) : Lower[fields[i].name] = n})].value]

(* The last field that announces a length counts; 0 announces nothing.     *)
Length(fields) ==
  LET lengths == {i \in DOMAIN fields : fields[i].colon = ": " /\ IsLength(fields[i])}
  IN  IF lengths = {} THEN 0 ELSE Number[fields[Max(lengths)].value]

(* Mutant: the body is taken whatever its length. *)
AcceptedAlways(w) == w.body

(* A body of another length than announced is dropped. *)
Accepted(w) ==
  IF Length(w.fields) > 0 /\ Len(w.body) # Length(w.fields) THEN <<>> ELSE w.body

(* What both constructors take from the text after the first line.         *)
ParsedHeaders(w) == [
  headers |-> Headers(w.fields),
  is_json |-> \E f \in ToSet(w.fields) : f.colon = ": " /\ IsJson(f),
  content_length |-> Length(w.fields),
  body |-> Accepted(w)]

NoHeaders == [headers |-> <<>>, is_json |-> FALSE, content_length |-> 0, body |-> <<>>]

(* The entries of first, and what rest has besides. *)
Over(first, rest) ==
  [k \in DOMAIN first \cup DOMAIN rest |-> IF k \in DOMAIN first THEN first[k] ELSE rest[k]]

(* Request(head, body): without an end of line nothing is set; words after *)
(* the third are dropped.                                                  *)
Request(w) ==
  LET Word(i) == IF w.ended /\ i \in DOMAIN w.line THEN w.line[i] ELSE ""
  IN  Over([method |-> Word(1), uri |-> <<Word(2)>>, proto |-> Word(3)],
           IF w.ended THEN ParsedHeaders(w) ELSE NoHeaders)

(* Mutant: code is kept in a signed byte. *)
ShortByte(n) == ((n + 2^7) % 2^8) - 2^7

(* code is a short, atoi returns an int. *)
Short(n) == ((n + 2^15) % 2^16) - 2^15

(* Response(head, body) when it throws: a first line of fewer than three   *)
(* words is too short for substr.                                          *)
ResponseThrows(w) == w.ended /\ Len(w.line) < 3

(* Mutant: the phrase is the third word. *)
ResponseOneWord(w) ==
  Over([proto |-> w.line[1], code |-> Short(w.line[2]), message |-> <<w.line[3]>>],
       ParsedHeaders(w))

(* Response(head, body) otherwise, when there was an end of line.          *)
Response(w) ==
  Over([proto |-> w.line[1], code |-> Short(w.line[2]), message |-> SubSeq(w.line, 3, Len(w.line))],
       ParsedHeaders(w))

(* ... and when there was none, where code is left uninitialized.          *)
MalformedResponse(code) == Over([proto |-> "", code |-> code, message |-> <<"">>], NoHeaders)

--------------------------------------------------------------------------------
(* What a message and a text on the wire consist of.                       *)

IsMessage(m) ==
  /\ DOMAIN m.headers \subseteq DOMAIN Lower
  /\ m.is_json \in BOOLEAN /\ m.content_length \in DOMAIN Decimal /\ IsSeq(m.body)

IsRequest(r) ==
  /\ r = NewRequest(r.method, r.uri, r.proto, r.headers, r.is_json, r.content_length, r.body)
  /\ IsSeq(r.uri) /\ IsMessage(r)

IsResponse(r) ==
  /\ r = NewResponse(r.code, r.message, r.proto, r.headers, r.is_json, r.content_length, r.body)
  /\ r.code \in -(2^15) .. 2^15 - 1 /\ IsSeq(r.message) /\ IsMessage(r)

IsField(f) ==
  /\ f = [name |-> f.name, colon |-> f.colon, value |-> f.value]
  /\ f.name \in DOMAIN Lower

IsText(w) ==
  /\ w = [ended |-> w.ended, line |-> w.line, fields |-> w.fields, body |-> w.body]
  /\ w.ended \in BOOLEAN
  /\ IsSeq(w.line) /\ IsSeq(w.fields) /\ IsSeq(w.body)
  /\ \A f \in ToSet(w.fields) : IsField(f)

--------------------------------------------------------------------------------
(* The header map as the other side sees it, when no two names collide.    *)
Lowered(headers) ==
  [n \in {Lower[h] : h \in DOMAIN headers} |->
     headers[CHOOSE h \in DOMAIN headers : Lower[h] = n]]

(***************************************************************************)
(* The messages that survive the wire: a true content_length, no type      *)
(* without a body, no two names that differ only in case, and no header    *)
(* that stands for the length or the type of the content.                  *)
(***************************************************************************)
WellFormed(msg) ==
  /\ msg.content_length = Len(msg.body)
  /\ msg.is_json => msg.body # <<>>
  /\ \A a, b \in DOMAIN msg.headers :
        /\ Lower[a] = Lower[b] => a = b
        /\ Lower[a] # "content-length"
        /\ ~IsJson([name |-> a, value |-> msg.headers[a]])

(* A true content_length, and no header and no line of the body that could *)
(* be taken for another one.                                               *)
OneLength(msg) ==
  /\ msg.content_length = Len(msg.body)
  /\ \A a \in DOMAIN msg.headers : Lower[a] # "content-length"
  /\ \A k \in 0 .. Len(msg.body) :
        \A f \in ToSet(FieldsIn(SubSeq(msg.body, 1, k))) : ~IsLength(f)
================================================================================
