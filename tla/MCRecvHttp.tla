------------------------------ MODULE MCRecvHttp ------------------------------
(* Instances of RecvHttp for TLC: messages with heads of up to eight bytes  *)
(* and bodies of up to nine, so that with blocks of six every boundary of   *)
(* the message falls on every place of a block, in up to four blocks.       *)
EXTENDS RecvHttp

Bytes(n, byte) == [i \in 1 .. n |-> byte]

Plain == {Bytes(h, "h") \o Terminator \o Bytes(b, "b") : h \in 0 .. 8, b \in 0 .. 9}

(* The same with one NUL somewhere in the body. *)
Binary ==
  {Bytes(h, "h") \o Terminator \o [Bytes(b, "b") EXCEPT ![k] = "nul"] :
     h \in 0 .. 3, b \in 3 .. 7, k \in 1 .. 3}

PlainAndBinary == Plain \cup Binary

(* Memory after the buffer: some bytes, or what looks like a whole header. *)
MCJunk == {<<"junk">>, <<"junk", "junk">>, Terminator \o <<"junk">>}
================================================================================
