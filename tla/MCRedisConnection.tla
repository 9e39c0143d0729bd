------------------------- MODULE MCRedisConnection -------------------------
(* Commands and answers for model checking RedisConnection: two of one     *)
(* shape, one of another, one that is refused; payloads with CR LF in them *)
(* and with a character of two bytes; raw streams that end well, in the    *)
(* middle of a frame, or in bytes that are no frame.                       *)
EXTENDS RedisConnection

CONSTANTS t1, t2

Peek(event) == <<<<"PEEK_QUEUE">>, event>>
Status(seat) == <<<<"SEAT_STATUS">>, seat>>
Set(value) == <<<<"SET">>, value>>

Odd == <<"CR", "LF", "e-acute">>

MCChars == ToSet(Digit) \cup {"CR", "LF", "*", "$", ":", "+", "-", "ERR", "OK", "p", "s", "v",
                              "PEEK_QUEUE", "SEAT_STATUS", "SET", "e-acute"}

MCAnswer ==
  (Peek(Odd)       :> Array(<<Str(Odd), Integer(12)>>)) @@
  (Peek(<<"p">>)   :> Array(<<Null, Integer(0)>>)) @@
  (Status(<<"s">>) :> ErrorReply) @@
  (Set(<<"v">>)    :> Simple(<<"OK">>)) @@
  (<<>>            :> ErrorReply)

MCCalls == (t1 :> {Peek(Odd)}) @@ (t2 :> {Peek(<<"p">>), Status(<<"s">>)})

Pipeline == <<Peek(Odd), <<>>, Set(<<"v">>), Peek(Odd)>>
MCStreams ==
  {[commands |-> Pipeline, rest |-> rest] :
     rest \in {<<>>, <<"*", "1">>, <<"*", "1", "CR", "LF", "$", "-", "1", "CR", "LF">>}}
=============================================================================
