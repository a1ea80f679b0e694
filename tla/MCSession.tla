----------------------------- MODULE MCSession -----------------------------
(* The frames of the instances of Session. *)
EXTENDS Session

CONSTANTS q1, q2

Plain(type) ==
  [type |-> type, channel |-> 1, payload_size |-> 2, class |-> "basic",
   method |-> "none", args |-> "fine", queue_name |-> q1, body_size |-> 0,
   end |-> TRUE]

Method(class, method, name) ==
  [Plain(METHOD_FRAME) EXCEPT !.class = class, !.method = method,
                              !.queue_name = name]
Header(size) == [Plain(HEADER_FRAME) EXCEPT !.body_size = size]
Body(size) == [Plain(BODY_FRAME) EXCEPT !.payload_size = size]

\* Methods that are answered, or refused for a queue that is not there.
Requests ==
  {Method("connection", "close", q1), Method("channel", "open", q1),
   Method("queue", "declare", q1),
   Method("basic", "consume", q1), Method("basic", "consume", q2)}

\* Messages, complete or not, one of two queues and two sizes.
Messages ==
  {Method("basic", "publish", q1), Method("basic", "publish", q2),
   Header(1), Header(2), Body(1)}

\* The two together: requests between the parts of a message.
RequestsAndMessages == Requests \cup Messages

\* Every handler, and every way of being refused.
Mixed ==
  {Method("connection", "start_ok", q1), Method("connection", "tune_ok", q1),
   Method("connection", "open", q1),
   Method("channel", "close", q1), Method("basic", "ack", q1),
   Method("queue", "declare", q1),
   Plain(HEARTBEAT_FRAME), Plain(5), Plain(MAX_FRAME_TYPE),
   [Plain(METHOD_FRAME) EXCEPT !.channel = 2],
   Method("exchange", "declare", q1), Method("queue", "delete", q1),
   Header(0), [Header(0) EXCEPT !.class = "queue"],
   [Method("basic", "consume", q1) EXCEPT !.args = "tag_size"],
   [Method("basic", "publish", q1) EXCEPT !.args = "exchange_size"],
   [Method("queue", "declare", q1) EXCEPT !.args = "name_size"],
   [Method("channel", "open", q1) EXCEPT !.end = FALSE],
   [Plain(HEARTBEAT_FRAME) EXCEPT !.payload_size = 0]}

Heartbeat == {[Plain(HEARTBEAT_FRAME) EXCEPT !.payload_size = 0]}

TuneOverLimits ==
  {[Method("connection", "tune_ok", q1) EXCEPT !.args = "over_limits"]}
=============================================================================
