------------------------------ MODULE Session ------------------------------
(***************************************************************************)
(* One connection: process_connection of Connection.c, with the loop of    *)
(* receive_and_process_frame and the handlers of Connection.c, Channel.c,  *)
(* Basic.c and Queue.c it calls, against a peer that may send anything at  *)
(* any time, send ahead, stop in the middle of a frame or disappear, and   *)
(* other clients that declare queues, under the same mutex, and need not   *)
(* read the answer.  (What else others may do to the process is the        *)
(* subject of Server.)                                                     *)
(*                                                                         *)
(* A step is one Recv, one Write or one handler.  A frame is received in   *)
(* three pieces: its header, its payload and its end.  The recursion of    *)
(* receive_and_process_frame is a loop here (its stack is not modelled);   *)
(* the tables of Queue.c are reduced to the set of the declared names.     *)
(***************************************************************************)
EXTENDS Frames, Sequences, FiniteSets

CONSTANTS
  Frame,     \* the frames a peer may send
  Name,      \* queue names
  NoName,    \* the empty name of a publication nobody announced
  MaxSent    \* bound: frames the peer sends

ASSUME FrameAssumption ==
  \A f \in Frame :
    /\ f.type \in Nat /\ f.channel \in Nat
    /\ f.payload_size \in Nat /\ f.body_size \in Nat
    /\ f.queue_name \in Name

ASSUME NameAssumption == NoName \notin Name

ASSUME BoundAssumption == MaxSent \in Nat

VARIABLES
  peer,       \* "open", "shut" (sends no more) or "reset"
  greetings,  \* the protocol headers it sent: whether each was the right one
  sent,       \* the frames it sent, the last one perhaps cut short
  arrived,    \* pieces of the last frame that arrived whole
  scrap,      \* whether a part of the piece after them arrived
  elsewhere,  \* whether another thread holds mutex_queue_declare
  pc,         \* where the thread stands
  next,       \* which frame it is at
  flags,      \* as accumulated by process_connection
  pub,        \* connection->publication: queue_name, size, frame of the body
  declared,   \* names in queue_list
  welcome,    \* what the thread wrote before the first frame
  replies,    \* history: its answers, each with the frame it answers
  published   \* history: the publications, and whether somebody got them

input == <<peer, greetings, sent, arrived, scrap, elsewhere>>
output == <<welcome, replies, published>>
thread == <<pc, next, flags, pub>>
vars == <<input, thread, declared, output>>

Piece == <<"recv_header", "recv_payload", "recv_end">>
Over == {"freed", "exited"}
Labels == {"greet", "send_protocol_header", "greet_again", "send_start",
           "process", "reply", "lookup", "deliver", "close", "closing"}
            \cup {Piece[p] : p \in 1 .. 3} \cup Over

frame == sent[next]
Handles(class, method) == pc = "process" /\ Is(frame, class, method)

Init ==
  /\ peer = "open"
  /\ greetings = <<>>
  /\ sent = <<>>
  /\ arrived = 3
  /\ scrap = FALSE
  /\ elsewhere = FALSE
  /\ pc = "greet"
  /\ next = 1
  /\ flags = {}
  /\ pub = [queue_name |-> NoName, size |-> 0, body |-> 0]
  /\ declared = {}
  /\ welcome = <<>>
  /\ replies = <<>>
  /\ published = <<>>

-----------------------------------------------------------------------------
(* The peer, and the other clients. *)

Greeted == \E k \in DOMAIN greetings : greetings[k]

\* Eight bytes, right or not; whoever was wrong may try again.
PeerGreets(right) ==
  /\ peer = "open" /\ ~Greeted /\ Len(greetings) < 2
  /\ greetings' = Append(greetings, right)
  /\ UNCHANGED <<peer, sent, arrived, scrap, elsewhere, thread, declared,
                 output>>

PeerSends(f) ==
  /\ peer = "open" /\ Greeted /\ Len(sent) < MaxSent
  /\ sent' = Append(sent, f)
  /\ UNCHANGED <<peer, greetings, arrived, scrap, elsewhere, thread, declared,
                 output>>

\* The peer ends its side in the middle of a frame: some pieces arrived, and
\* perhaps a part of the next one.
PeerCuts(f, pieces, some) ==
  /\ peer = "open" /\ Greeted /\ Len(sent) < MaxSent
  /\ pieces = 0 => some
  /\ pieces = 1 /\ some => f.payload_size > 1
  /\ pieces = 2 => ~some
  /\ arrived' = pieces /\ scrap' = some
  /\ sent' = Append(sent, f)
  /\ peer' = "shut"
  /\ UNCHANGED <<greetings, elsewhere, thread, declared, output>>

PeerShuts ==
  /\ peer = "open"
  /\ peer' = "shut"
  /\ UNCHANGED <<greetings, sent, arrived, scrap, elsewhere, thread, declared,
                 output>>

PeerResets ==
  /\ peer # "reset"
  /\ peer' = "reset"
  /\ UNCHANGED <<greetings, sent, arrived, scrap, elsewhere, thread, declared,
                 output>>

\* From its handler to its answer a declaration holds mutex_queue_declare:
\* this connection's ...
Declaring == pc = "reply" /\ Is(frame, "queue", "declare")

\* ... or another one's, which has locked it and added its queue ...
DeclaredElsewhere(n) ==
  /\ ~elsewhere /\ ~Declaring
  /\ elsewhere' = TRUE
  /\ declared' = declared \cup {n}
  /\ UNCHANGED <<peer, greetings, sent, arrived, scrap, thread, output>>

\* ... and unlocks it once its answer is written, if its peer lets it.
RepliedElsewhere ==
  /\ elsewhere
  /\ elsewhere' = FALSE
  /\ UNCHANGED <<peer, greetings, sent, arrived, scrap, thread, declared, output>>

-----------------------------------------------------------------------------
(* What the steps of the thread are made of. *)

Stops == ERRORS \cup {"CONNECTION_ENDED"}

\* The next call in line, unless a flag ends the connection.
Continue(raised, label) ==
  /\ flags' = flags \cup raised
  /\ pc' = IF raised \cap Stops = {} THEN label ELSE "closing"

End(raised) == flags' = flags \cup raised /\ pc' = "closing"

\* The frame is dealt with.
Proceed(raised) ==
  flags' = flags \cup raised /\ next' = next + 1 /\ pc' = "recv_header"

\* Throw: the whole process exits.
Throw == pc' = "exited" /\ UNCHANGED flags

\* Write on the connection's socket.
CanWrite == peer # "reset"

\* A Write to a peer that is gone, or a Recv it would have to answer.
WriteFails(label) ==
  /\ pc = label /\ ~CanWrite
  /\ Throw
  /\ UNCHANGED <<input, next, pub, declared, output>>

-----------------------------------------------------------------------------
(* init_connection. *)

\* receive_protocol_header: some bytes, right or not; none; or an error.
Greet(label, k, wrong, raised) ==
  /\ pc = label
  /\ \/ Len(greetings) >= k /\ greetings[k] /\ Continue({}, "send_start")
     \/ Len(greetings) >= k /\ ~greetings[k]
        /\ flags' = flags \cup raised /\ pc' = wrong
     \/ Len(greetings) < k /\ peer = "shut" /\ End({"CONNECTION_ENDED"})
     \/ Len(greetings) < k /\ peer = "reset" /\ Throw
  /\ UNCHANGED <<input, next, pub, declared, output>>

\* Faulty variant: the flags of the first attempt stay.
ReceiveHeaderKeepFlags ==
  Greet("greet", 1, "send_protocol_header", {"INVALID_PROTOCOL_HEADER"})

\* The flags of a wrong first attempt are forgotten.
ReceiveProtocolHeader == Greet("greet", 1, "send_protocol_header", {})

ReceiveProtocolHeaderAgain ==
  Greet("greet_again", 2, "closing", {"INVALID_PROTOCOL_HEADER"})

Welcomes(label, what, then) ==
  /\ pc = label /\ CanWrite
  /\ welcome' = Append(welcome, what)
  /\ pc' = then
  /\ UNCHANGED <<input, next, flags, pub, declared, replies, published>>

SendProtocolHeader ==
  Welcomes("send_protocol_header", "protocol_header", "greet_again")

SendConnectionStart == Welcomes("send_start", "connection_start", "recv_header")

-----------------------------------------------------------------------------
(* receive_frame. *)

Whole(p) == next < Len(sent) \/ (next = Len(sent) /\ p <= arrived)
Part(p) == next = Len(sent) /\ p = arrived + 1 /\ scrap
Nothing(p) == ~Whole(p) /\ ~Part(p) /\ peer # "open"

\* Recv of piece p and its decoding: the piece; a part of it, decoded all the
\* same; nothing, at the end of the stream or after a reset.
Receive(p, whole, part, label) ==
  /\ pc = Piece[p]
  /\ \/ Whole(p) /\ Continue(whole, label)
     \/ Part(p) /\ \E raised \in part : Continue(raised, label)
     \/ Nothing(p) /\ peer = "shut" /\ End({"CONNECTION_ENDED"})
     \/ Nothing(p) /\ peer = "reset" /\ Throw
  /\ UNCHANGED <<input, next, pub, declared, output>>

\* The bytes of a header that did not arrive are 0.
ReceiveHeader ==
  Receive(1, HeaderFlags(frame), {{}, HeaderFlags(frame)}, "recv_payload")

\* A Recv of no bytes returns 0, like one at the end of the stream.
ReceiveEmptyPayload ==
  /\ pc = "recv_payload"
  /\ Whole(1) => frame.payload_size = 0
  /\ End({"CONNECTION_ENDED"})
  /\ UNCHANGED <<input, next, pub, declared, output>>

\* Faulty variant: at the end of the stream it tries again.
ReceivePayloadRetry ==
  /\ Whole(1) => frame.payload_size # 0
  /\ \/ Nothing(2) /\ pc = "recv_payload" /\ UNCHANGED vars
     \/ /\ ~Nothing(2)
        /\ Receive(2, PayloadFlags(frame), ScrapFlags(frame), "recv_end")

ReceivePayload ==
  /\ Whole(1) => frame.payload_size # 0
  /\ Receive(2, PayloadFlags(frame), ScrapFlags(frame), "recv_end")

\* Faulty variant: the end of the stream goes for the end of the frame.
ReceiveEndAnyway ==
  \/ Receive(3, EndFlags(frame), {}, "process")
  \/ /\ pc = "recv_end" /\ Nothing(3)
     /\ Continue({}, "process")
     /\ UNCHANGED <<input, next, pub, declared, output>>

ReceiveEnd == Receive(3, EndFlags(frame), {}, "process")

-----------------------------------------------------------------------------
(* process_frame: the methods. *)

\* start-ok, open and close.
ProcessConnection ==
  /\ \E m \in {"start_ok", "open", "close"} : Handles("connection", m)
  /\ pc' = "reply"
  /\ UNCHANGED <<input, next, flags, pub, declared, output>>

\* process_connection_tune_ok: the numbers it is given, 0, exceed no limit.
ProcessTuneOk ==
  /\ Handles("connection", "tune_ok")
  /\ Proceed({})
  /\ UNCHANGED <<input, pub, declared, output>>

ProcessChannel ==
  /\ \E m \in {"open", "close"} : Handles("channel", m)
  /\ pc' = "reply"
  /\ UNCHANGED <<input, next, flags, pub, declared, output>>

\* An ack is accepted and has no effect.
ProcessAck ==
  /\ Handles("basic", "ack")
  /\ Proceed({})
  /\ UNCHANGED <<input, pub, declared, output>>

\* Faulty variant: the queue is added to the list after the reply.
ProcessDeclareLate ==
  /\ Handles("queue", "declare") /\ ~elsewhere
  /\ pc' = "reply"
  /\ UNCHANGED <<input, next, flags, pub, declared, output>>

\* process_queue_declare, from its lock, for which it may have to wait, to its
\* reply.
ProcessDeclare ==
  /\ Handles("queue", "declare") /\ ~elsewhere
  /\ flags' = IF frame.queue_name \in declared
              THEN flags \cup {"QUEUE_NAME_ALREADY_EXISTS"} ELSE flags
  /\ declared' = declared \cup {frame.queue_name}
  /\ pc' = "reply"
  /\ UNCHANGED <<input, next, pub, output>>

\* process_basic_consume: put_into_queue finds the queue, or does not.
ProcessConsume ==
  /\ Handles("basic", "consume")
  /\ IF frame.queue_name \in declared
     THEN pc' = "reply" /\ UNCHANGED flags
     ELSE End({"CONSUME_TO_INVALID_QUEUE"})
  /\ UNCHANGED <<input, next, pub, declared, output>>

ProcessPublish ==
  /\ Handles("basic", "publish")
  /\ pub' = [pub EXCEPT !.queue_name = frame.queue_name]
  /\ Proceed({})
  /\ UNCHANGED <<input, declared, output>>

\* Faulty variant: the reply is written again before the next frame is read.
ReplyTwice ==
  /\ pc = "reply" /\ CanWrite
  /\ replies' = Append(replies, [frame |-> next, what |-> ReplyTo(frame)])
  /\ \/ Proceed({})
     \/ UNCHANGED <<pc, next, flags>>
  /\ UNCHANGED <<input, pub, declared, welcome, published>>

Reply ==
  /\ pc = "reply" /\ CanWrite
  /\ replies' = Append(replies, [frame |-> next, what |-> ReplyTo(frame)])
  /\ IF Is(frame, "connection", "close")
     THEN next' = next + 1 /\ pc' = "close" /\ UNCHANGED flags
     ELSE Proceed({})
  /\ UNCHANGED <<input, pub, declared, welcome, published>>

\* close_connection of the handler, before the one of process_connection.
Close ==
  /\ pc = "close"
  /\ End({"CONNECTION_ENDED"})
  /\ UNCHANGED <<input, next, pub, declared, output>>

-----------------------------------------------------------------------------
(* process_frame: the contents. *)

\* Faulty variant: the size is kept if it is larger.
ProcessHeaderFrameMax ==
  /\ pc = "process" /\ frame.type = HEADER_FRAME
  /\ IF frame.class = "basic"
     THEN /\ pub' = [pub EXCEPT !.size = IF @ > frame.body_size THEN @
                                         ELSE frame.body_size]
          /\ Proceed({})
     ELSE End({"NOT_EXPECTED_CLASS"}) /\ UNCHANGED <<next, pub>>
  /\ UNCHANGED <<input, declared, output>>

\* Faulty variant: the size counts the byte that ends the frame.
ProcessHeaderFrameLess ==
  /\ pc = "process" /\ frame.type = HEADER_FRAME
  /\ IF frame.class = "basic"
     THEN pub' = [pub EXCEPT !.size = frame.body_size - 1] /\ Proceed({})
     ELSE End({"NOT_EXPECTED_CLASS"}) /\ UNCHANGED <<next, pub>>
  /\ UNCHANGED <<input, declared, output>>

ProcessHeaderFrame ==
  /\ pc = "process" /\ frame.type = HEADER_FRAME
  /\ IF frame.class = "basic"
     THEN pub' = [pub EXCEPT !.size = frame.body_size] /\ Proceed({})
     ELSE End({"NOT_EXPECTED_CLASS"}) /\ UNCHANGED <<next, pub>>
  /\ UNCHANGED <<input, declared, output>>

ProcessBodyFrame ==
  /\ pc = "process" /\ frame.type = BODY_FRAME
  /\ pub' = [pub EXCEPT !.body = next]
  /\ pc' = "lookup"
  /\ UNCHANGED <<input, next, flags, declared, output>>

Publication(delivered) ==
  published' = Append(published,
    [queue_name |-> pub.queue_name, size |-> pub.size, body |-> pub.body,
     delivered |-> delivered])

\* publish: no queue of that name, or nobody consumes from it ...
PublishNowhere ==
  /\ pc = "lookup"
  /\ Publication(FALSE)
  /\ Proceed({"QUEUE_NOT_FOUND_OR_EMPTY"})
  /\ UNCHANGED <<input, pub, declared, welcome, replies>>

\* ... or somebody does.
PublishTo ==
  /\ pc = "lookup" /\ pub.queue_name \in declared
  /\ pc' = "deliver"
  /\ UNCHANGED <<input, next, flags, pub, declared, output>>

\* send_basic_deliver, on the socket of the consumer.
Deliver ==
  /\ pc = "deliver"
  /\ Publication(TRUE)
  /\ Proceed({})
  /\ UNCHANGED <<input, pub, declared, welcome, replies>>

\* That socket was reset, or closed by its own thread.
DeliverFails ==
  /\ pc = "deliver"
  /\ Throw
  /\ UNCHANGED <<input, next, pub, declared, output>>

\* A heartbeat with a payload, which the protocol does not know.
ProcessHeartbeat ==
  /\ pc = "process" /\ frame.type = HEARTBEAT_FRAME
  /\ Proceed({"HEARTBEAT_IGNORED"})
  /\ UNCHANGED <<input, pub, declared, output>>

ProcessUnknownType ==
  /\ pc = "process"
  /\ frame.type \notin {METHOD_FRAME, HEADER_FRAME, BODY_FRAME, HEARTBEAT_FRAME}
  /\ End({"INVALID_FRAME_TYPE"})
  /\ UNCHANGED <<input, next, pub, declared, output>>

\* process_connection after its loop.
Finish ==
  /\ pc = "closing"
  /\ pc' = "freed"
  /\ UNCHANGED <<input, next, flags, pub, declared, output>>

-----------------------------------------------------------------------------

Peer ==
  \/ \E right \in BOOLEAN : PeerGreets(right)
  \/ \E f \in Frame :
       \/ PeerSends(f)
       \/ \E pieces \in 0 .. 2, some \in BOOLEAN : PeerCuts(f, pieces, some)
  \/ PeerShuts \/ PeerResets

Read ==
  \/ ReceiveProtocolHeader \/ ReceiveProtocolHeaderAgain
  \/ ReceiveHeader \/ ReceiveEmptyPayload \/ ReceivePayload \/ ReceiveEnd

Elsewhere == (\E n \in Name : DeclaredElsewhere(n)) \/ RepliedElsewhere

Process ==
  \/ ProcessConnection \/ ProcessTuneOk \/ ProcessChannel \/ ProcessAck
  \/ ProcessDeclare \/ ProcessConsume \/ ProcessPublish
  \/ ProcessHeaderFrame \/ ProcessBodyFrame \/ PublishNowhere \/ PublishTo
  \/ ProcessHeartbeat \/ ProcessUnknownType \/ Close \/ Finish

Write ==
  \/ SendProtocolHeader \/ SendConnectionStart \/ Reply
  \/ \E label \in {"send_protocol_header", "send_start", "reply"} :
       WriteFails(label)

\* The connection is gone, or the process.
Quiescent == pc \in Over /\ UNCHANGED vars

Next ==
  \/ Peer \/ Elsewhere
  \/ Read \/ Process \/ Write \/ Deliver \/ DeliverFails
  \/ Quiescent

Spec == Init /\ [][Next]_vars

\* The thread is scheduled again and again.  Its Writes end because its own
\* peer reads what it is sent and, after a reset, because they fail.  The peer
\* owes nobody a frame, the holder of mutex_queue_declare nobody its release,
\* and the consumer of a publication need not read.
FairSpec == Spec /\ WF_vars(Read \/ Process \/ Write)

-----------------------------------------------------------------------------
(* Properties. *)

\* Every variable has its type.
TypeOK ==
  /\ peer \in {"open", "shut", "reset"}
  /\ greetings \in Seq(BOOLEAN)
  /\ sent \in Seq(Frame)
  /\ arrived \in 0 .. 3 /\ scrap \in BOOLEAN
  /\ elsewhere \in BOOLEAN
  /\ pc \in Labels
  /\ next \in Nat \ {0}
  /\ flags \subseteq Flags
  /\ pub \in [queue_name : Name \cup {NoName}, size : Nat, body : Nat]
  /\ declared \subseteq Name
  /\ welcome \in Seq({"protocol_header", "connection_start"})
  /\ replies \in Seq([frame : Nat, what : {ReplyTo(f) : f \in Frame}])
  /\ published \in Seq([queue_name : Name \cup {NoName}, size : Nat,
                        body : Nat, delivered : BOOLEAN])

\* Frame.c:240-305.  Whatever frame was dealt with had arrived to its last
\* byte and was one the server accepts: a frame the peer left unfinished has
\* no effect, and none after a refused one.
OnlyWholeFrames ==
  \A k \in 1 .. next - 1 :
    /\ k < Len(sent) \/ (k = Len(sent) /\ arrived = 3)
    /\ (HeaderFlags(sent[k]) \cup PayloadFlags(sent[k]) \cup EndFlags(sent[k]))
         \cap ERRORS = {}

\* The queue of the last basic.publish, and the size of the last content
\* header, before frame n.
QueueBefore(n, name) ==
  \/ name = NoName /\ \A k \in 1 .. n - 1 : ~Is(sent[k], "basic", "publish")
  \/ \E k \in 1 .. n - 1 :
       /\ Is(sent[k], "basic", "publish") /\ sent[k].queue_name = name
       /\ \A j \in k + 1 .. n - 1 : ~Is(sent[j], "basic", "publish")

SizeBefore(n, size) ==
  \/ size = 0 /\ \A k \in 1 .. n - 1 : sent[k].type # HEADER_FRAME
  \/ \E k \in 1 .. n - 1 :
       /\ sent[k].type = HEADER_FRAME /\ sent[k].body_size = size
       /\ \A j \in k + 1 .. n - 1 : sent[j].type # HEADER_FRAME

\* Frame.c:174-176,219,231, Basic.c:67.  Every body frame dealt with was
\* published once, in order, to the queue of the last basic.publish before it
\* and with the size of the last content header before it.
PublishedInOrder ==
  /\ {published[j].body : j \in DOMAIN published} =
       {k \in 1 .. next - 1 : sent[k].type = BODY_FRAME}
  /\ \A j, k \in DOMAIN published :
       j < k => published[j].body < published[k].body
  /\ \A j \in DOMAIN published :
       /\ QueueBefore(published[j].body, published[j].queue_name)
       /\ SizeBefore(published[j].body, published[j].size)

\* Queue.c:91-127.  A peer that was sent a declare-ok is never told that the
\* queue it then consumes from does not exist.
DeclaredQueueIsKnown ==
  "CONSUME_TO_INVALID_QUEUE" \in flags =>
    \A k \in DOMAIN replies :
      replies[k].what = "queue_declare_ok" =>
        sent[replies[k].frame].queue_name # frame.queue_name

\* Connection.c:32-48,121-138, Flags.c:5-72.  A connection that ends, ends for
\* one reason: an error, which is then the only one printed, or the end of the
\* stream or of the connection, which is not.  A greeting that was repaired is
\* not reported; a warning is, in the builds that print them.
EndsForOneReason ==
  pc = "freed" =>
    /\ Cardinality(flags \cap Stops) = 1
    /\ Printed(flags, FALSE) = flags \cap ERRORS
    /\ Printed(flags, TRUE) = flags \ {"CONNECTION_ENDED"}

\* The steps the thread can take, at most, before it has to wait for the peer
\* or is at its end.
StagesAhead ==
  [freed |-> 0, exited |-> 0, closing |-> 1, close |-> 2, deliver |-> 3,
   reply |-> 4, lookup |-> 4, process |-> 5, recv_end |-> 6,
   recv_payload |-> 7, recv_header |-> 8, send_start |-> 9,
   greet_again |-> 10, send_protocol_header |-> 11, greet |-> 12]
StepsAhead == 8 * (Len(sent) + 1 - next) + StagesAhead[pc]

\* Connection.c:32-48, Frame.c:142-159.  Every step of the thread brings it
\* nearer to the end of what the peer has sent: it never reads, answers or
\* publishes anything twice, and takes no more steps for a frame than there
\* are stages.
ThreadAdvances ==
  [][<<thread, output>>' # <<thread, output>> =>
       StepsAhead' \in 0 .. StepsAhead - 1]_vars

\* Connection.c:39-43, Queue.c:81,112,119.  When the peer is gone, the
\* connection comes to its end, with two exceptions: others keep
\* mutex_queue_declare from its thread, one for ever or one after the other,
\* or the consumer its thread is writing a delivery to does not read.
PeerGoneEnds ==
  <>[](peer # "open") =>
    \/ <>[](pc \in Over)
    \/ <>[]Handles("queue", "declare") /\ []<>elsewhere
    \/ <>[](pc = "deliver")

\* Flags.c:63.  A heartbeat is received with a warning: it does not end the
\* connection.
HeartbeatIsIgnored ==
  pc = "closing" /\ Whole(3) =>
    ~(frame.type = HEARTBEAT_FRAME /\ HeaderFlags(frame) = {} /\ frame.end)

\* Flags.c:42, Connection.c:92-96.  A tune-ok beyond the server's limits ends
\* the connection with an error.
TuneLimitsHold ==
  \A k \in 1 .. next - 1 :
    ~(Is(sent[k], "connection", "tune_ok") /\ sent[k].args = "over_limits")

\* Frame.c:142-159.  The connection is a dialogue: the frames are answered in
\* the order they were sent, each that calls for an answer once.
Conversation ==
  INSTANCE Dialogue WITH
    Request <- Frame,
    asked <- sent,
    done <- next - 1,
    answers <- replies,
    over <- pc \in {"close", "closing"} \cup Over

AnsweredInOrder == Conversation!Spec
=============================================================================
