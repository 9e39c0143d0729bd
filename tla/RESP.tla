-------------------------------- MODULE RESP --------------------------------
(***************************************************************************)
(* The RESP wire format: the request parser of the server                  *)
(* (protocol/resp_parser.py), the reply encoder (protocol/resp_encoder.py, *)
(* server/server.py) and the encoder and reply parser of the app server's  *)
(* client (app_server/redis_client.py).  A byte is a symbol, written as a  *)
(* string; a text is a sequence of characters, and utf-8 gives most of     *)
(* them one byte and "e-acute" two.                                        *)
(***************************************************************************)
EXTENDS Integers, Sequences, SequencesExt

CONSTANT Chars   \* the characters of texts

CRLF == <<"CR", "LF">>

Digit == <<"0", "1", "2", "3", "4", "5", "6", "7", "8", "9">>

(* The characters of the protocol itself have one byte each. *)
ASSUME CharsAssumption ==
  /\ ToSet(Digit) \cup {"CR", "LF", "*", "$", ":", "+", "-", "ERR"} \subseteq Chars
  /\ Chars \cap {"xC3", "xA9"} = {}

Byte == (Chars \ {"e-acute"}) \cup {"xC3", "xA9"}

(* str(n) *)
Decimal[n \in Nat] ==
  IF n < 10 THEN <<Digit[n + 1]>> ELSE Append(Decimal[n \div 10], Digit[(n % 10) + 1])
Text(n) == IF n < 0 THEN <<"-">> \o Decimal[-n] ELSE Decimal[n]

(* int(line): decimal digits, maybe after a sign. *)
DigitValue == [d \in ToSet(Digit) |-> CHOOSE n \in 0..9 : Digit[n + 1] = d]
Unsigned(line) == IF line # <<>> /\ Head(line) = "-" THEN Tail(line) ELSE line
IsInt(line) == /\ Unsigned(line) # <<>>
               /\ \A i \in DOMAIN Unsigned(line) : Unsigned(line)[i] \in DOMAIN DigitValue
IntOf(line) ==
  LET digits == Unsigned(line)
      upTo[n \in 0..Len(digits)] ==
        IF n = 0 THEN 0 ELSE 10 * upTo[n - 1] + DigitValue[digits[n]]
  IN IF Head(line) = "-" THEN -upTo[Len(digits)] ELSE upTo[Len(digits)]

(* str.encode("utf-8") and bytes.decode("utf-8") *)
Utf8(char) == IF char = "e-acute" THEN <<"xC3", "xA9">> ELSE <<char>>
Encode(text) == FlattenSeq([i \in DOMAIN text |-> Utf8(text[i])])
IsUtf8(bytes) == \A i \in 1..(Len(bytes) + 1) :
  (i > 1 /\ bytes[i - 1] = "xC3") <=> (i <= Len(bytes) /\ bytes[i] = "xA9")
Decode(bytes) ==
  LET upTo[n \in 0..Len(bytes)] ==
        IF n = 0 THEN <<>>
        ELSE CASE bytes[n] = "xC3" -> upTo[n - 1]
               [] bytes[n] = "xA9" -> Append(upTo[n - 1], "e-acute")
               [] OTHER -> Append(upTo[n - 1], bytes[n])
  IN upTo[Len(bytes)]

-----------------------------------------------------------------------------
(* What a parser does with the bytes from some index on: it returns a value *)
(* and the next index, needs more bytes, or raises.                         *)

Parsed(value, next) == [tag |-> "ok", value |-> value, next |-> next]
Incomplete == [tag |-> "incomplete"]
Malformed  == [tag |-> "malformed"]
Refused    == [tag |-> "refused"]      \* an error reply, raised as ConflictError

(* A parser goes on after a value, and passes anything else on. *)
Then(parsed, Rest(_, _)) ==
  IF parsed.tag = "ok" THEN Rest(parsed.value, parsed.next) ELSE parsed

(* _read_line, of both parsers *)
EndsLine(message, i) == message[i] = "CR" /\ message[i + 1] = "LF"
ReadLine(message, start) ==
  IF \A i \in start..(Len(message) - 1) : ~EndsLine(message, i) THEN Incomplete
  ELSE LET end == CHOOSE i \in start..(Len(message) - 1) :
                    EndsLine(message, i) /\ \A j \in start..(i - 1) : ~EndsLine(message, j)
       IN Parsed(SubSeq(message, start, end - 1), end + 2)

(* The line as an integer that is not less than least. *)
ReadInt(message, start, least) ==
  Then(ReadLine(message, start), LAMBDA line, next :
    IF IsInt(line) /\ IntOf(line) >= least THEN Parsed(IntOf(line), next) ELSE Malformed)

(* The payload of a bulk string of the given length, and its CRLF. *)
PayloadByLine(message, start, length) ==
  Then(ReadLine(message, start), LAMBDA line, next :
    IF Len(line) = length THEN Parsed(Decode(line), next) ELSE Malformed)

PayloadWaits(message, start, length) ==
  LET end == start + length
      payload == SubSeq(message, start, end - 1)
  IN IF end + 1 >= Len(message) THEN Incomplete
     ELSE IF EndsLine(message, end) /\ IsUtf8(payload) THEN Parsed(Decode(payload), end + 2)
     ELSE Malformed

Payload(message, start, length) ==
  LET end == start + length
      payload == SubSeq(message, start, end - 1)
  IN IF end + 1 > Len(message) THEN Incomplete
     ELSE IF EndsLine(message, end) /\ IsUtf8(payload) THEN Parsed(Decode(payload), end + 2)
     ELSE Malformed

(* The items of an array, each parsed where the one before it ended; item  *)
(* is what the bytes from each index on make.                              *)
Items(count, start, item) ==
  LET upTo[n \in 0..count] ==
        IF n = 0 THEN Parsed(<<>>, start)
        ELSE Then(upTo[n - 1], LAMBDA items, end :
               Then(item[end], LAMBDA value, next : Parsed(Append(items, value), next)))
  IN upTo[count]

-----------------------------------------------------------------------------
(* protocol/resp_parser.py: requests are arrays of bulk strings. *)

ArrayHeader(message, start) ==
  IF start > Len(message) THEN Incomplete
  ELSE IF message[start] # "*" THEN Malformed
  ELSE ReadInt(message, start + 1, 0)

BulkString(message, start) ==
  IF start > Len(message) THEN Incomplete
  ELSE IF message[start] # "$" THEN Malformed
  ELSE Then(ReadInt(message, start + 1, 0), LAMBDA length, next : Payload(message, next, length))

ParseFrame(message) ==
  Then(ArrayHeader(message, 1), LAMBDA count, next :
    Items(count, next, [start \in 1..(Len(message) + 1) |-> BulkString(message, start)]))

(* RedisRESPClient._encode_command *)
EncodeCommand(tokens) ==
  <<"*">> \o Text(Len(tokens)) \o CRLF
    \o FlattenSeq([i \in DOMAIN tokens |->
         <<"$">> \o Text(Len(Encode(tokens[i]))) \o CRLF \o Encode(tokens[i]) \o CRLF])

-----------------------------------------------------------------------------
(* Replies: an error, a text, an integer, a null, or an array of these.    *)
(* "OK" of SET, a simple string, reads like a text.                        *)

ErrorReply == [error |-> TRUE]
Simple(text) == [simple |-> text]
Str(text)  == [str |-> text]
Integer(n) == [int |-> n]
Null       == [null |-> TRUE]
Array(items) == [array |-> items]

Is(reply, kind) == kind \in DOMAIN reply

(* What the handlers reply with: texts of any characters in bulk strings,  *)
(* and a line.                                                             *)
IsScalar(reply) ==
  \/ reply = Null
  \/ Is(reply, "str") /\ reply = Str(reply.str) /\ reply.str \in Seq(Chars)
  \/ Is(reply, "int") /\ reply = Integer(reply.int) /\ reply.int \in Int
IsReply(reply) ==
  \/ reply = ErrorReply
  \/ IsScalar(reply)
  \/ Is(reply, "simple") /\ reply = Simple(reply.simple) /\ reply.simple \in Seq(Chars \ {"CR"})
  \/ /\ Is(reply, "array") /\ reply = Array(reply.array)
     /\ reply.array \in Seq(ToSet(reply.array))
     /\ \A i \in DOMAIN reply.array : IsScalar(reply.array[i])

EncodeBulkByChars(reply) ==
  IF Is(reply, "null") THEN <<"$">> \o Text(-1) \o CRLF
  ELSE <<"$">> \o Text(Len(reply.str)) \o CRLF \o Encode(reply.str) \o CRLF

(* encode_bulk_string: the length counts bytes. *)
EncodeBulk(reply) ==
  IF Is(reply, "null") THEN <<"$">> \o Text(-1) \o CRLF
  ELSE <<"$">> \o Text(Len(Encode(reply.str))) \o CRLF \o Encode(reply.str) \o CRLF

(* encode_integer, _encode_array_item *)
EncodeScalar(reply) ==
  IF Is(reply, "int") THEN <<":">> \o Text(reply.int) \o CRLF ELSE EncodeBulk(reply)

(* encode_error (its wording left out), encode_simple_string, encode_array *)
EncodeReply(reply) ==
  IF Is(reply, "error") THEN <<"-", "ERR">> \o CRLF
  ELSE IF Is(reply, "simple") THEN <<"+">> \o Encode(reply.simple) \o CRLF
  ELSE IF Is(reply, "array")
  THEN <<"*">> \o Text(Len(reply.array)) \o CRLF
         \o FlattenSeq([i \in DOMAIN reply.array |-> EncodeScalar(reply.array[i])])
  ELSE EncodeScalar(reply)

(* parse_resp_reply, by the first byte *)
ReplyLine(message, start) ==
  Then(ReadLine(message, start), LAMBDA line, next :
    IF IsUtf8(line) THEN Parsed(Str(Decode(line)), next) ELSE Malformed)

ReplyInt(message, start) ==
  Then(ReadLine(message, start), LAMBDA line, next :
    IF IsInt(line) THEN Parsed(Integer(IntOf(line)), next) ELSE Malformed)

ReplyBulk(message, start) ==
  Then(ReadInt(message, start, -1), LAMBDA length, next :
    IF length = -1 THEN Parsed(Null, next)
    ELSE Then(Payload(message, next, length), LAMBDA text, end : Parsed(Str(text), end)))

(* The reply from an index on; reply is what the later indexes begin. *)
ReplyFrom(message, start, reply) ==
  IF start > Len(message) THEN Incomplete
  ELSE CASE message[start] = "+" -> ReplyLine(message, start + 1)
         [] message[start] = "-" ->
              Then(ReplyLine(message, start + 1), LAMBDA line, next : Refused)
         [] message[start] = ":" -> ReplyInt(message, start + 1)
         [] message[start] = "$" -> ReplyBulk(message, start + 1)
         [] message[start] = "*" ->
              Then(ReadInt(message, start + 1, 0), LAMBDA count, first :
                Then(Items(count, first, reply), LAMBDA items, end :
                  Parsed(Array(items), end)))
         [] OTHER -> Malformed

ParseReply(message) ==
  LET reply[start \in 1..(Len(message) + 1)] == ReplyFrom(message, start, reply)
  IN reply[1]
=============================================================================
