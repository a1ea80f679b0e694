------------------------------- MODULE Frames -------------------------------
(***************************************************************************)
(* What Frame.c makes of a received frame: the errors each part of it can  *)
(* be refused for, and the answer a method calls for.                      *)
(*                                                                         *)
(* A frame is a record:                                                    *)
(*   type, channel    the numbers of its header                            *)
(*   payload_size     bytes of payload its header announces                *)
(*   class            of a method frame and of a content header            *)
(*   method           of a method frame                                    *)
(*   args             what is wrong with the arguments: "fine", or one of  *)
(*                    DOMAIN ArgumentError, or "over_limits" of a tune-ok  *)
(*   queue_name       of declare, consume and publish                      *)
(*   body_size        of a content header                                  *)
(*   end              whether the last byte is FRAME_END                   *)
(***************************************************************************)
EXTENDS Integers

METHOD_FRAME == 1
HEADER_FRAME == 2
BODY_FRAME == 3
HEARTBEAT_FRAME == 8
MAX_FRAME_TYPE == 9

BASE_COMMUNICATION_CHANNEL == 0
UNIQUE_COMMUNICATION_CHANNEL == 1

ERRORS ==
  {"NOT_EXPECTED_METHOD", "NOT_EXPECTED_CLASS", "INVALID_NAME_SIZE",
   "INVALID_EXCHANGE_NAME_SIZE", "INVALID_CONSUMER_TAG_SIZE", "INVALID_FRAME",
   "INVALID_FRAME_TYPE", "INVALID_FRAME_CHANNEL", "INVALID_TUNE",
   "INVALID_PROTOCOL_HEADER", "CONSUME_TO_INVALID_QUEUE"}

WARNINGS ==
  {"QUEUE_NOT_FOUND_OR_EMPTY", "HEARTBEAT_IGNORED", "QUEUE_NAME_ALREADY_EXISTS"}

Flags == ERRORS \cup WARNINGS \cup {"CONNECTION_ENDED"}

\* The bit of a flag in the word the thread accumulates them in.
Bit ==
  [NOT_EXPECTED_METHOD        |-> 32, NOT_EXPECTED_CLASS        |-> 33,
   INVALID_NAME_SIZE          |-> 34, INVALID_EXCHANGE_NAME_SIZE |-> 35,
   INVALID_CONSUMER_TAG_SIZE  |-> 36, INVALID_FRAME             |-> 37,
   INVALID_FRAME_TYPE         |-> 38, INVALID_FRAME_CHANNEL     |-> 39,
   INVALID_TUNE               |-> 40, INVALID_PROTOCOL_HEADER   |-> 41,
   CONSUME_TO_INVALID_QUEUE   |-> 42,
   QUEUE_NOT_FOUND_OR_EMPTY   |-> 0,  HEARTBEAT_IGNORED         |-> 1,
   QUEUE_NAME_ALREADY_EXISTS  |-> 2,  CONNECTION_ENDED          |-> 20]

\* One line of stderr for every bit the loop visits, if the mask finds any.
Lines(flags, mask, loop) ==
  {f \in flags : Bit[f] \in loop /\ \E g \in flags : Bit[g] \in mask}

\* print_errors_or_warnings; verbose is the build with DEBUG_MODE or
\* SNIFF_MODE.  The loops stop below bit 63 and below bit 19.
Printed(flags, verbose) ==
  Lines(flags, 32 .. 63, 32 .. 62)
    \cup (IF verbose THEN Lines(flags, 0 .. 19, 0 .. 18) ELSE {})

\* The methods the server knows, by class.
Methods ==
  [connection |-> {"start_ok", "tune_ok", "open", "close"},
   channel    |-> {"open", "close"},
   queue      |-> {"declare"},
   basic      |-> {"consume", "publish", "ack"}]

\* The arguments a method is refused for.
ArgumentError ==
  [name_size     |-> "INVALID_NAME_SIZE",
   exchange_size |-> "INVALID_EXCHANGE_NAME_SIZE",
   tag_size      |-> "INVALID_CONSUMER_TAG_SIZE"]

\* break_frame_header
HeaderFlags(f) ==
  IF f.type >= MAX_FRAME_TYPE THEN {"INVALID_FRAME_TYPE"}
  ELSE IF f.channel \notin {BASE_COMMUNICATION_CHANNEL,
                            UNIQUE_COMMUNICATION_CHANNEL}
       THEN {"INVALID_FRAME_CHANNEL"}
  ELSE {}

\* break_method_frame_payload.  The limits of a tune-ok are not among the
\* errors: its numbers are parsed out of the zeroed record they are meant to
\* be stored in, so they are always 0 (Frame.c:453-457).
MethodFlags(f) ==
  IF f.class \notin DOMAIN Methods THEN {"NOT_EXPECTED_CLASS"}
  ELSE IF f.method \notin Methods[f.class] THEN {"NOT_EXPECTED_METHOD"}
  ELSE {ArgumentError[e] : e \in {f.args} \cap DOMAIN ArgumentError}

\* The switch of receive_frame_payload.
PayloadFlags(f) ==
  CASE f.type = METHOD_FRAME    -> MethodFlags(f)
    [] f.type = HEARTBEAT_FRAME -> {"HEARTBEAT_IGNORED"}
    [] OTHER                    -> {}

\* receive_frame_end
EndFlags(f) == IF f.end THEN {} ELSE {"INVALID_FRAME"}

\* The rest of a method frame's payload that did not arrive is decoded from
\* bytes nobody wrote.
ScrapFlags(f) ==
  IF f.type # METHOD_FRAME THEN {PayloadFlags(f)}
  ELSE {{}, {"NOT_EXPECTED_CLASS"}, {"NOT_EXPECTED_METHOD"}}
         \cup {{ArgumentError[e]} : e \in DOMAIN ArgumentError}

Is(f, class, method) ==
  f.type = METHOD_FRAME /\ f.class = class /\ f.method = method

\* What the peer is answered, or "none".
ReplyTo(f) ==
  CASE Is(f, "connection", "start_ok") -> "connection_tune"
    [] Is(f, "connection", "open")     -> "connection_open_ok"
    [] Is(f, "connection", "close")    -> "connection_close_ok"
    [] Is(f, "channel", "open")        -> "channel_open_ok"
    [] Is(f, "channel", "close")       -> "channel_close_ok"
    [] Is(f, "queue", "declare")       -> "queue_declare_ok"
    [] Is(f, "basic", "consume")       -> "basic_consume_ok"
    [] OTHER                           -> "none"
=============================================================================
