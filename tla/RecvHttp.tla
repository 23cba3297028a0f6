------------------------------- MODULE RecvHttp -------------------------------
(***************************************************************************)
(* NiceHTTP::recv_http (lib/nicehttp.cpp), which both parsereq and request *)
(* call: it reads blocks from a stream socket and splits what it reads     *)
(* into head and body at the first empty line.                             *)
(*                                                                         *)
(* A message is a sequence of bytes, of which only the kinds matter: the   *)
(* carriage returns and line feeds, the NULs, and any others.  TCP keeps   *)
(* the bytes in order and cuts them anywhere.                              *)
(***************************************************************************)
EXTENDS Integers, Sequences, SequencesExt

CONSTANTS
  Block,      \* PKT_BLOCK_SIZE
  Messages,   \* what the peer may send
  Junk,       \* what may lie between the buffer and the next NUL in memory
  Signals     \* may a signal interrupt recv?

(* The kinds of bytes: "h" and "b" are any others, "junk" is one that is   *)
(* not of the message.                                                     *)
Byte == {"cr", "lf", "nul", "h", "b", "junk"}

Terminator == <<"cr", "lf", "cr", "lf">>

ASSUME RecvAssumption ==
  /\ Block \in Nat \ {0} /\ Messages \subseteq Seq(Byte) /\ Signals \in BOOLEAN
  /\ Junk \subseteq Seq(Byte \ {"nul"})

VARIABLES
  message,    \* what the peer sends on this connection
  segmented,  \* does it arrive in pieces, or all at once?
  overread,   \* is the byte after the buffer in memory other than zero?
  arrived,    \* how much of it has reached the socket's buffer
  taken,      \* how much of it recv has returned
  peer,       \* has the peer closed or reset the connection?
  head, body,
  state

given == <<message, segmented, overread>>

vars == <<given, arrived, taken, peer, head, body, state>>

Init ==
  /\ message \in Messages
  /\ segmented \in BOOLEAN
  /\ overread \in BOOLEAN
  /\ arrived = 0
  /\ taken = 0
  /\ peer = "open"
  /\ head = <<>>
  /\ body = <<>>
  /\ state = "recv"

Arrive ==
  /\ peer = "open"
  /\ \E n \in arrived + 1 .. Len(message) :
        /\ segmented \/ n = Len(message)
        /\ arrived' = n
  /\ UNCHANGED <<given, taken, peer, head, body, state>>

HangUp ==
  /\ peer = "open"
  /\ peer' \in {"closed", "reset"}
  /\ UNCHANGED <<given, arrived, taken, head, body, state>>

(* Where in b an empty line ends, counted as find("\r\n\r\n") + 4. *)
HeaderEnds(b) == {i \in 4 .. Len(b) : SubSeq(b, i - 3, i) = Terminator}

(* Mutant: without the memset, the block before shines through. *)
ViewsUncleared(n) ==
  LET data == SubSeq(message, taken + 1, taken + n)
      old  == IF taken < Block THEN <<>> ELSE SubSeq(message, taken - Block + n + 1, taken)
  IN  {data \o old}

(***************************************************************************)
(* What std::string_view b(buff) can be after a recv of n bytes: the bytes *)
(* up to the first NUL.  The buffer was zeroed, so a short block has one;  *)
(* in a full block without any the view runs on into whatever follows, as  *)
(* far as the next NUL.                                                    *)
(***************************************************************************)
Views(n) ==
  LET data == SubSeq(message, taken + 1, taken + n)
      nuls == {i \in 1 .. n : data[i] = "nul"}
  IN  IF nuls # {} THEN {SubSeq(data, 1, Min(nuls) - 1)}
      ELSE IF n = Block /\ overread THEN {data} \cup {data \o j : j \in Junk}
      ELSE {data}

(* The loop ends when the last byte of the buffer is zero.                 *)
LastIsNul(n) == n < Block \/ message[taken + n] = "nul"

(* Mutant: head takes what was read up to the empty line and two bytes. *)
AppendTwoShort(b) ==
  IF body = <<>> /\ HeaderEnds(b) # {}
  THEN LET e == Min(HeaderEnds(b)) - 2
       IN  head' = head \o SubSeq(b, 1, e) /\ body' = SubSeq(b, e + 1, Len(b))
  ELSE IF body = <<>> THEN head' = head \o b /\ UNCHANGED body
  ELSE body' = body \o b /\ UNCHANGED head

AppendView(b) ==
  \/ /\ body # <<>>
     /\ body' = body \o b
     /\ UNCHANGED head
  \/ /\ body = <<>>
     /\ HeaderEnds(b) # {}
     /\ LET e == Min(HeaderEnds(b))
        IN  head' = head \o SubSeq(b, 1, e) /\ body' = SubSeq(b, e + 1, Len(b))
  \/ /\ body = <<>>
     /\ HeaderEnds(b) = {}
     /\ head' = head \o b
     /\ UNCHANGED body

(* Mutant: the loop goes on until the peer closes. *)
RecvUntilClosed ==
  /\ state = "recv"
  /\ taken < arrived
  /\ LET n == Min({Block, arrived - taken})
     IN  /\ taken' = taken + n
         /\ \E b \in Views(n) : AppendView(b)
  /\ UNCHANGED <<given, arrived, peer, state>>

(* Mutant: what is taken is counted in blocks. *)
RecvByBlocks ==
  /\ state = "recv"
  /\ taken < arrived
  /\ LET n == Min({Block, arrived - taken})
     IN  /\ taken' = taken + Block
         /\ \E b \in Views(n) : AppendView(b)
         /\ state' = IF LastIsNul(n) THEN "done" ELSE "recv"
  /\ UNCHANGED <<given, arrived, peer>>

RecvData ==
  /\ state = "recv"
  /\ taken < arrived
  /\ LET n == Min({Block, arrived - taken})
     IN  /\ taken' = taken + n
         /\ \E b \in Views(n) : AppendView(b)
         /\ state' = IF LastIsNul(n) THEN "done" ELSE "recv"
  /\ UNCHANGED <<given, arrived, peer>>

(***************************************************************************)
(* recv returns 0 when the peer has closed, and the loop ends; it returns  *)
(* -1 when the peer has reset, and the empty zeroed buffer ends it.        *)
(***************************************************************************)
RecvEnd ==
  /\ state = "recv"
  /\ taken = arrived
  /\ peer # "open"
  /\ state' = "done"
  /\ UNCHANGED <<given, arrived, taken, peer, head, body>>

(* recv returns -1 too when a signal interrupts it, and so the loop ends.  *)
Interrupt ==
  /\ Signals
  /\ state = "recv"
  /\ taken = arrived
  /\ state' = "done"
  /\ UNCHANGED <<given, arrived, taken, peer, head, body>>

Next == Arrive \/ HangUp \/ RecvData \/ RecvEnd \/ Interrupt

Spec == Init /\ [][Next]_vars

(* The thread runs, and the peer sends all of its message unless it hangs  *)
(* up; nothing makes it hang up, or a signal come.                         *)
FairSpec == Spec /\ WF_vars(RecvData) /\ WF_vars(RecvEnd) /\ WF_vars(Arrive)

--------------------------------------------------------------------------------
TypeOK ==
  /\ message \in Messages /\ segmented \in BOOLEAN /\ overread \in BOOLEAN
  /\ arrived \in 0 .. Len(message)
  /\ taken \in 0 .. arrived
  /\ peer \in {"open", "closed", "reset"}
  /\ state \in {"recv", "done"}
  /\ head \in Seq(Byte) /\ body \in Seq(Byte)

HeadOf(m) == SubSeq(m, 1, Min(HeaderEnds(m)))
BodyOf(m) == SubSeq(m, Min(HeaderEnds(m)) + 1, Len(m))

(* How many of the bytes taken so far come before any NUL. *)
BeforeNul == Min({taken} \cup {i - 1 : i \in {j \in 1 .. Len(message) : message[j] = "nul"}})

(***************************************************************************)
(* Whatever the segments, recv_http invents, drops and reorders nothing as *)
(* long as no NUL is sent: head and body together begin with the bytes     *)
(* taken up to the first NUL, and never hold more bytes than were taken.   *)
(* (When a NUL follows the buffer in memory.)                              *)
(***************************************************************************)
NothingInvented ==
  ~overread =>
    /\ Len(head \o body) <= taken
    /\ IsPrefix(SubSeq(message, 1, BeforeNul), head \o body)

(***************************************************************************)
(* Which messages are split right: those that arrive at once, when the     *)
(* empty line and the first byte after it lie in one block.  A message     *)
(* longer than a block needs a NUL after the buffer.                       *)
(***************************************************************************)
Splits(m) ==
  /\ ~segmented /\ ~Contains(m, "nul") /\ HeaderEnds(m) # {}
  /\ overread => Len(m) < Block
  /\ LET e == Min(HeaderEnds(m))
     IN  (e - 4) \div Block = (Min({e + 1, Len(m)}) - 1) \div Block

SplitExact ==
  state = "done" /\ taken = Len(message) /\ Splits(message) =>
    head = HeadOf(message) /\ body = BodyOf(message)

(***************************************************************************)
(* A message that arrives at once and does not fill its last block is read *)
(* to its end, although the peer keeps the connection open for the answer: *)
(* unless a NUL of the message ends one of its blocks, which is what "not  *)
(* true for binary data" (lib/nicehttp.cpp:59) is about.                   *)
(***************************************************************************)
NulEndsBlock == \E k \in 1 .. Len(message) : k % Block = 0 /\ message[k] = "nul"

ReadToEnd ==
  /\ arrived = Len(message) /\ state = "recv"
  /\ ~segmented /\ Len(message) % Block # 0 /\ ~NulEndsBlock
  ~> state = "done" /\ taken = Len(message)

(***************************************************************************)
(* "<header>\r\n\r\n<body>; head, body of request are the return values"   *)
(* (lib/nicehttp.cpp:36-39): of a peer that does not hang up, recv_http    *)
(* returns the header and the body.                                        *)
(***************************************************************************)
ReturnsHeadAndBody ==
  state = "done" /\ peer = "open" =>
    head = HeadOf(message) /\ body = BodyOf(message)
================================================================================
