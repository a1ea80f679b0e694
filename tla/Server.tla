------------------------------- MODULE Server -------------------------------
(***************************************************************************)
(* The whole process: the accept loop of ep1_main.c, the table of          *)
(* descriptors, and a thread for each connection, which all meet at one    *)
(* queue (declared before) and on the sockets.                             *)
(*                                                                         *)
(* A connection is named by its peer, and a descriptor refers to the       *)
(* stream of a peer.  A step is one system call or one access to what      *)
(* another thread may be changing.  A frame is received by one Recv here   *)
(* (Session has its pieces), and the queue is the RoundRobin that          *)
(* QueueConsumers implements while its consumers stay and its array does   *)
(* not grow.  What a dispatch does when it meets the record of a           *)
(* connection that ended is the subject of QueueConsumers: the behaviour   *)
(* ends there, as it does where a copy leaves the object it is made to.    *)
(*                                                                         *)
(* Whoever stands at "declare_ok" holds mutex_queue_declare.               *)
(***************************************************************************)
EXTENDS Integers, Sequences

CONSTANTS
  Conn,        \* connections, one per peer
  Asker,       \* peers that may send other requests
  Declarer,    \* peers that may send queue.declare
  Consumer,    \* peers that may send basic.consume
  Publisher,   \* peers that may publish
  Closer,      \* peers that may send connection.close
  Leaver,      \* peers that may end their stream, or send a wrong frame
  Huge,        \* peers that may send a frame larger than a thread's stack
  Long,        \* peers that may publish a body larger than its record
  Resetter,    \* peers that may reset their connection
  Slow,        \* peers that may stop reading what they are sent
  Unlucky,     \* connections no thread may be created for
  Fd,          \* the descriptors left for connections
  Null,        \* no connection, no descriptor
  MaxDepth     \* calls of receive_and_process_frame a thread's stack holds

ASSUME RoleAssumption ==
  /\ \A role \in {Asker, Declarer, Consumer, Publisher, Closer, Leaver, Huge, Long,
                    Resetter, Slow, Unlucky} : role \subseteq Conn
  /\ Null \notin Conn \cup Fd

ASSUME FdAssumption == Fd \subseteq Nat

ASSUME DepthAssumption == MaxDepth \in Nat

VARIABLES
  down,       \* "no", or why the process is gone
  table,      \* descriptor -> the peer whose stream it refers to, or Null
  peer,       \* connection -> its peer: "absent", "up", "shut" or "reset"
  pc,         \* connection -> where its thread stands
  socket,     \* connection -> connection->socket
  closed,     \* connection -> connection->closed
  stream,     \* connection -> the stream its pending Recv reads, or Null
  depth,      \* connection -> calls of receive_and_process_frame on its stack
  ring, turn, handed,   \* the queue, see RoundRobin
  tag,        \* connection -> how often its consumer_tag was begun or finished
              \* to be written: 0 for none, odd while it is only half there
  seen,       \* connection -> register: tag, when a delivery was begun
  draft,      \* connection -> the delivery its thread is at
  wire,       \* history: connection -> what was written to its peer
  reused      \* history: whether a number was given out that a thread was
              \* about to close for the second time

queue == <<ring, turn, handed>>
registers == <<seen, draft>>
vars == <<down, table, peer, pc, socket, closed, stream, depth, queue, tag,
          registers, wire, reused>>

Q == INSTANCE RoundRobin WITH Connection <- Conn

Garbled == -1
Consuming == {"define_tag", "finish_tag", "consume_ok"}
Delivering == {"announce", "copy", "write"}
Working == {"recv", "blocked", "answer", "declare", "declare_ok", "dispatch",
            "close_ok", "close_method", "close", "release"}
             \cup Consuming \cup Delivering
Labels == {"absent", "unserved", "gone"} \cup Working
Causes == {"bad_descriptor", "peer_gone", "no_descriptors", "stack", "huge_frame",
           "overrun", "undefined"}

At(c, label) == down = "no" /\ pc[c] = label
Goto(c, label) == pc' = [pc EXCEPT ![c] = label]

Down(cause) ==
  /\ down' = cause
  /\ UNCHANGED <<table, peer, pc, socket, closed, stream, depth, queue, tag,
                 registers, wire, reused>>

Announced(c) == \E i \in DOMAIN wire[c] : wire[c][i].what = "consume_ok"

\* What is written: to whom, with which tag, and, of a delivery, whether its
\* size is as announced and whether its consumer was not yet sent consume-ok.
Item(what, c, n) ==
  [what |-> what, to |-> c, tag |-> n, framed |-> TRUE, early |-> FALSE]
NoDelivery == Item("deliver", Null, 0)

Init ==
  /\ down = "no"
  /\ table = [f \in Fd |-> Null]
  /\ peer = [c \in Conn |-> "absent"]
  /\ pc = [c \in Conn |-> "absent"]
  /\ socket = [c \in Conn |-> Null]
  /\ closed = [c \in Conn |-> FALSE]
  /\ stream = [c \in Conn |-> Null]
  /\ depth = [c \in Conn |-> 0]
  /\ Q!Init
  /\ tag = [c \in Conn |-> 0]
  /\ seen = [c \in Conn |-> 0]
  /\ draft = [c \in Conn |-> NoDelivery]
  /\ wire = [c \in Conn |-> <<>>]
  /\ reused = FALSE

-----------------------------------------------------------------------------
(* The accept loop of main. *)

Free == {f \in Fd : table[f] = Null}
ClosesAgain(d) == pc[d] = "close" /\ closed[d]

\* accept gives the lowest free number, and the new thread makes it the
\* socket of its record.  Nobody looks at what pthread_create returned.
Accept(c) ==
  /\ At(c, "absent")
  /\ \E f \in Free :
       /\ \A g \in Free : f <= g
       /\ table' = [table EXCEPT ![f] = c]
       /\ socket' = [socket EXCEPT ![c] = f]
       /\ reused' = (reused \/ \E d \in Conn : ClosesAgain(d) /\ socket[d] = f)
  /\ peer' = [peer EXCEPT ![c] = "up"]
  /\ \/ Goto(c, "recv")
     \/ c \in Unlucky /\ Goto(c, "unserved")
  /\ UNCHANGED <<down, closed, stream, depth, queue, tag, registers, wire>>

AcceptFails(c) == At(c, "absent") /\ Free = {} /\ Down("no_descriptors")

-----------------------------------------------------------------------------
(* The peers. *)

PeerShuts(c) ==
  /\ down = "no" /\ c \in Leaver /\ peer[c] = "up"
  /\ peer' = [peer EXCEPT ![c] = "shut"]
  /\ UNCHANGED <<down, table, pc, socket, closed, stream, depth, queue, tag,
                 registers, wire, reused>>

PeerResets(c) ==
  /\ down = "no" /\ c \in Resetter /\ peer[c] \in {"up", "shut"}
  /\ peer' = [peer EXCEPT ![c] = "reset"]
  /\ UNCHANGED <<down, table, pc, socket, closed, stream, depth, queue, tag,
                 registers, wire, reused>>

-----------------------------------------------------------------------------
(* The loop of receive_and_process_frame, by recursion. *)

\* One more call; then the Recv takes hold of the stream it will wait on,
\* whatever becomes of the number meanwhile.
BeginRecv(c) ==
  /\ At(c, "recv") /\ depth[c] < MaxDepth
  /\ table[socket[c]] # Null
  /\ stream' = [stream EXCEPT ![c] = table[socket[c]]]
  /\ depth' = [depth EXCEPT ![c] = @ + 1]
  /\ Goto(c, "blocked")
  /\ UNCHANGED <<down, table, peer, socket, closed, queue, tag, registers,
                 wire, reused>>

StackOverflows(c) == At(c, "recv") /\ depth[c] = MaxDepth /\ Down("stack")

RecvFails(c) ==
  \/ At(c, "recv") /\ table[socket[c]] = Null /\ Down("bad_descriptor")
  \/ At(c, "blocked") /\ peer[stream[c]] = "reset" /\ Down("peer_gone")

\* There are bytes the peer sent, perhaps before it ended its stream.
Readable(c) == peer[stream[c]] \in {"up", "shut"}

\* A frame from a peer with the right to it: the next label.
GetFrame(c, from, label) ==
  /\ At(c, "blocked") /\ stream[c] \in from /\ Readable(c)
  /\ stream' = [stream EXCEPT ![c] = Null]
  /\ Goto(c, label)
  /\ UNCHANGED <<down, table, peer, socket, closed, depth, tag, registers, wire,
                 reused>>

\* receive_frame_payload puts an array of payload_size bytes, which the peer
\* names, on the stack ...
GetHugeFrame(c) ==
  At(c, "blocked") /\ stream[c] \in Huge /\ Readable(c) /\ Down("huge_frame")

\* ... and break_body_frame_payload copies as many bytes as the header frame
\* named to one of MAX_BODY_SIZE.
GetLongBody(c) ==
  At(c, "blocked") /\ stream[c] \in Long /\ Readable(c) /\ Down("overrun")

GetRequest(c) == GetFrame(c, Asker, "answer") /\ UNCHANGED queue

\* A frame that calls for no answer.
GetSilent(c) == GetFrame(c, Asker, "recv") /\ UNCHANGED queue
GetBody(c) == GetFrame(c, Publisher, "dispatch") /\ UNCHANGED queue
GetDeclare(c) == GetFrame(c, Declarer, "declare") /\ UNCHANGED queue
GetClose(c) == GetFrame(c, Closer, "close_ok") /\ UNCHANGED queue

\* put_into_queue, before anything is answered.
GetConsume(c) == GetFrame(c, Consumer, "define_tag") /\ Q!Register(c)

\* Faulty variant: one call too many returns.
GetEndTwice(c) ==
  /\ At(c, "blocked") /\ stream[c] \in Leaver
  /\ depth' = [depth EXCEPT ![c] = @ - 2]
  /\ Goto(c, "close")
  /\ UNCHANGED <<down, table, peer, socket, closed, stream, queue, tag,
                 registers, wire, reused>>

\* Faulty variant: the end of the stream is taken for an empty frame.
GetEndRetry(c) ==
  /\ At(c, "blocked") /\ peer[stream[c]] = "shut"
  /\ UNCHANGED vars

\* The end of the stream, or a frame that is refused.
GetEnd(c) ==
  /\ At(c, "blocked") /\ stream[c] \in Leaver /\ Readable(c)
  /\ stream' = [stream EXCEPT ![c] = Null]
  /\ depth' = [depth EXCEPT ![c] = 0]
  /\ Goto(c, "close")
  /\ UNCHANGED <<down, table, peer, socket, closed, queue, tag, registers, wire,
                 reused>>

-----------------------------------------------------------------------------
(* Writes. *)

\* Thread c writes x on descriptor f, and goes on to label; or Throw.
Write(c, f, x, label) ==
  \/ /\ f \in Fd /\ table[f] # Null /\ peer[table[f]] \in {"up", "shut"}
     /\ wire' = [wire EXCEPT ![table[f]] = Append(@, x)]
     /\ draft' = [draft EXCEPT ![c] = NoDelivery]
     /\ seen' = [seen EXCEPT ![c] = 0]
     /\ Goto(c, label)
     /\ UNCHANGED <<down, table, peer, socket, closed, stream, depth, queue, tag,
                    reused>>
  \/ /\ f \in Fd /\ table[f] # Null /\ peer[table[f]] \in {"shut", "reset"}
     /\ Down("peer_gone")
  \/ (f \in Fd => table[f] = Null) /\ Down("bad_descriptor")

Answer(c) ==
  At(c, "answer") /\ Write(c, socket[c], Item("reply", c, 0), "recv")

\* process_queue_declare: lock the mutex, add the queue to the list (here it is
\* in it already) ...
LockDeclare(c) ==
  /\ At(c, "declare") /\ \A d \in Conn : pc[d] # "declare_ok"
  /\ Goto(c, "declare_ok")
  /\ UNCHANGED <<down, table, peer, socket, closed, stream, depth, queue, tag,
                 registers, wire, reused>>

\* ... and write the answer before the mutex is unlocked.
SendDeclareOk(c) ==
  At(c, "declare_ok") /\ Write(c, socket[c], Item("reply", c, 0), "recv")

SendCloseOk(c) ==
  At(c, "close_ok") /\ Write(c, socket[c], Item("reply", c, 0), "close_method")

\* define_consumer_tag, and the answer that announces the tag.
TouchTag(c, label, then) ==
  /\ At(c, label)
  /\ tag' = [tag EXCEPT ![c] = @ + 1]
  /\ Goto(c, then)
  /\ UNCHANGED <<down, table, peer, socket, closed, stream, depth, queue,
                 registers, wire, reused>>

DefineTag(c) == TouchTag(c, "define_tag", "finish_tag")
FinishTag(c) == TouchTag(c, "finish_tag", "consume_ok")

\* Faulty variant: the answer is built before the tag is defined.
SendConsumeOkEarly(c) ==
  /\ At(c, "consume_ok")
  /\ Write(c, socket[c], Item("consume_ok", c, tag[c] - 2), "recv")

SendConsumeOk(c) ==
  /\ At(c, "consume_ok")
  /\ Write(c, socket[c], Item("consume_ok", c, tag[c]), "recv")

-----------------------------------------------------------------------------
(* publish. *)

\* get_connection_from_queue, under mutex_get_next_connection.
HandOut(c) ==
  /\ At(c, "dispatch") /\ ring # <<>> /\ ~closed[ring[turn]]
  /\ Q!Dispatch
  /\ draft' = [draft EXCEPT ![c].to = ring[turn],
                            ![c].early = ~Announced(ring[turn])]
  /\ Goto(c, "announce")
  /\ UNCHANGED <<down, table, peer, socket, closed, stream, depth, tag, seen,
                 wire, reused>>

\* Faulty variant: the mutex is kept until the delivery is written.
DispatchAndHold(c) == (\A d \in Conn : pc[d] \notin Delivering) /\ HandOut(c)

\* The mutex is released with the hand-out, before anything is written.
Dispatch(c) == HandOut(c)

DispatchNowhere(c) ==
  /\ At(c, "dispatch") /\ ring = <<>>
  /\ Goto(c, "recv")
  /\ UNCHANGED <<down, table, peer, socket, closed, stream, depth, queue, tag,
                 registers, wire, reused>>

DispatchEnded(c) ==
  /\ At(c, "dispatch") /\ ring # <<>> /\ closed[ring[turn]]
  /\ Down("undefined")

\* send_basic_deliver reads consumer_tag_size when it computes the size of
\* the payload ...
AnnounceDelivery(c) ==
  /\ At(c, "announce")
  /\ seen' = [seen EXCEPT ![c] = tag[draft[c].to]]
  /\ Goto(c, "copy")
  /\ UNCHANGED <<down, table, peer, socket, closed, stream, depth, queue, tag,
                 draft, wire, reused>>

\* ... and again when it copies the tag: another tag in between leaves a
\* mixture, and the first one a frame longer than it says.
CopyTag(c) ==
  /\ At(c, "copy")
  /\ LET now == tag[draft[c].to] IN
       draft' = [draft EXCEPT
         ![c].tag = IF now = seen[c] /\ now % 2 = 0 THEN now ELSE Garbled,
         ![c].framed = (now = 0 <=> seen[c] = 0)]
  /\ Goto(c, "write")
  /\ UNCHANGED <<down, table, peer, socket, closed, stream, depth, queue, tag,
                 seen, wire, reused>>

\* connection->socket of the target's record; if that was freed, it may be
\* what it was, the socket of the record now in its place, or no descriptor.
SocketRead(d) ==
  IF pc[d] # "gone" THEN {socket[d]}
  ELSE {socket[d], Null} \cup {socket[e] : e \in {x \in Conn : pc[x] \in Working}}

\* Faulty variant: the publisher's own socket.
WriteDeliveryBack(c) ==
  At(c, "write") /\ Write(c, socket[c], draft[c], "recv")

WriteDelivery(c) ==
  /\ At(c, "write")
  /\ \E f \in SocketRead(draft[c].to) : Write(c, f, draft[c], "recv")

-----------------------------------------------------------------------------
(* The end of a connection. *)

\* close_connection: the number is free again, whoever has it by now.
CloseConnection(c, label, then) ==
  /\ At(c, label)
  /\ table' = [table EXCEPT ![socket[c]] = Null]
  /\ closed' = [closed EXCEPT ![c] = TRUE]
  /\ depth' = [depth EXCEPT ![c] = 0]
  /\ Goto(c, then)
  /\ UNCHANGED <<down, peer, socket, stream, queue, tag, registers, wire, reused>>

\* In the handler of connection.close ...
CloseMethod(c) == CloseConnection(c, "close_method", "close")

\* Faulty variant: a connection that ends with an error is only marked.
CloseOnlyMarks(c) ==
  /\ At(c, "close")
  /\ closed' = [closed EXCEPT ![c] = TRUE]
  /\ Goto(c, "release")
  /\ UNCHANGED <<down, table, peer, socket, stream, depth, queue, tag, registers,
                 wire, reused>>

\* ... and in process_connection, after any end.
Close(c) == CloseConnection(c, "close", "release")

\* Faulty variant: the socket is closed with the record, too.
ReleaseAndClose(c) == CloseConnection(c, "release", "gone")

\* free(connection)
Release(c) ==
  /\ At(c, "release")
  /\ Goto(c, "gone")
  /\ UNCHANGED <<down, table, peer, socket, closed, stream, depth, queue, tag,
                 registers, wire, reused>>

-----------------------------------------------------------------------------

Get(c) == \/ GetRequest(c) \/ GetSilent(c) \/ GetConsume(c) \/ GetBody(c)
          \/ GetDeclare(c) \/ GetClose(c) \/ GetEnd(c)
          \/ GetHugeFrame(c) \/ GetLongBody(c)

Send(c) == \/ Answer(c) \/ SendDeclareOk(c) \/ SendCloseOk(c)
           \/ SendConsumeOk(c) \/ WriteDelivery(c)

Compute(c) ==
  \/ BeginRecv(c) \/ RecvFails(c) \/ StackOverflows(c)
  \/ DefineTag(c) \/ FinishTag(c) \/ LockDeclare(c)
  \/ Dispatch(c) \/ DispatchNowhere(c) \/ DispatchEnded(c)
  \/ AnnounceDelivery(c) \/ CopyTag(c)
  \/ CloseMethod(c) \/ Close(c) \/ Release(c)

\* Every thread waits for its peer, or the process is gone.
Quiescent ==
  /\ down # "no" \/ \A c \in Conn : pc[c] \notin Working \ {"blocked"}
  /\ UNCHANGED vars

Next ==
  \/ \E c \in Conn : \/ Accept(c) \/ AcceptFails(c)
                     \/ PeerShuts(c) \/ PeerResets(c)
                     \/ Get(c) \/ Send(c) \/ Compute(c)
  \/ Quiescent

Spec == Init /\ [][Next]_vars

Writing == {"answer", "declare_ok", "close_ok", "consume_ok", "write"}

\* The descriptors the Write a thread is at may be on.
Outlets(c) == IF pc[c] = "write" THEN SocketRead(draft[c].to) ELSE {socket[c]}

\* It is on a stream whose peer does not read, and is there to be waited for.
Stuck(c) ==
  /\ pc[c] \in Writing
  /\ \E f \in Outlets(c) \cap Fd : table[f] \in Slow /\ peer[table[f]] # "reset"

\* A thread that waits for nobody is scheduled again, a stream that has ended is
\* noticed, and a Write, of an answer or a delivery, comes to its end unless its
\* reader stops reading.  No peer has to send anything, nobody has to connect,
\* and nobody who waits for mutex_queue_declare has to get it while others do.
Fairness ==
  \A c \in Conn : /\ WF_vars(Compute(c))
                  /\ WF_vars(GetEnd(c) /\ peer[stream[c]] = "shut")
                  /\ WF_vars(Send(c) /\ ~Stuck(c))

FairSpec == Spec /\ Fairness

-----------------------------------------------------------------------------
(* Properties. *)

Items == [what : {"reply", "consume_ok", "deliver"}, to : Conn \cup {Null},
          tag : Int, framed : BOOLEAN, early : BOOLEAN]

\* Every variable has its type.
TypeOK ==
  /\ down \in {"no"} \cup Causes
  /\ table \in [Fd -> Conn \cup {Null}]
  /\ peer \in [Conn -> {"absent", "up", "shut", "reset"}]
  /\ pc \in [Conn -> Labels]
  /\ socket \in [Conn -> Fd \cup {Null}]
  /\ closed \in [Conn -> BOOLEAN]
  /\ stream \in [Conn -> Conn \cup {Null}]
  /\ depth \in [Conn -> Nat]
  /\ ring \in Seq(Conn) /\ turn \in Nat \ {0} /\ handed \in Seq(Conn)
  /\ tag \in [Conn -> Nat]
  /\ seen \in [Conn -> Nat]
  /\ draft \in [Conn -> Items]
  /\ wire \in [Conn -> Seq(Items)]
  /\ reused \in BOOLEAN

\* A connection that is being served, until its socket is first closed.
Open(c) == pc[c] \in Working /\ ~closed[c]

Registered(c) == \E i \in DOMAIN ring : ring[i] = c

\* Some connection in the queue has ended.
ConsumerLeft == \E c \in Conn : Registered(c) /\ ~Open(c)

\* Connection.c:66,75-78,42, ep1_main.c:72.  Connections come and go and their
\* numbers are used again: as long as no number is given out that a thread is
\* about to close for the second time, the socket of every open connection is
\* its own.
OwnDescriptor == ~reused => \A c \in Conn : Open(c) => table[socket[c]] = c

\* Connection.c:42, ep1_main.c:71-81.  A descriptor stays in use only as long
\* as the connection it was accepted for has a thread that will close it, or
\* was never given a thread.  This holds in spite of the second close.
NoDescriptorLeak ==
  \A f \in Fd : table[f] # Null =>
    \/ pc[table[f]] = "unserved"
    \/ Open(table[f]) /\ socket[table[f]] = f

\* Queue.c:81, Frame.c:590-685.  What is written reaches the peer it is meant
\* for, across the threads that write to one socket and the connections that
\* come and go, as long as no consumer has left and no number was reused.
BytesReachTheirPeer ==
  (~reused /\ ~ConsumerLeft) =>
    \A c \in Conn : \A i \in DOMAIN wire[c] : wire[c][i].to = c

\* No second basic.consume on the connection.
ConsumesOnce(c) ==
  \A i, j \in DOMAIN ring : ring[i] = c /\ ring[j] = c => i = j

\* Basic.c:57-59, Frame.c:654-663,900-934.  A delivery may overtake the
\* consume-ok, and then names no tag or half of one, or is framed wrongly.
\* One that was dispatched after the consume-ok of a connection that consumes
\* once is framed rightly, follows the consume-ok and names the tag it announced.
AnnouncedTag ==
  (~reused /\ ~ConsumerLeft) =>
    \A c \in Conn :
      ConsumesOnce(c) =>
        \A i \in DOMAIN wire[c] :
          wire[c][i].what = "deliver" /\ ~wire[c][i].early =>
            /\ wire[c][i].framed
            /\ \E j \in 1 .. i - 1 : /\ wire[c][j].what = "consume_ok"
                                     /\ wire[c][j].tag = wire[c][i].tag

\* super_functions.c:20-49, ep1_main.c:72-75, Frame.c:158,269,1032-1033.  What
\* can end the process, of what is modelled here (memory that runs out is not):
\* a peer that went away, a connection longer than its thread's stack, a frame
\* larger than that, a body larger than the record it is copied to, more
\* connections at work at once than there are descriptors.  Whatever else it is
\* comes after a consumer has left or a number was closed under its new owner:
\* the second close of every connection does no harm by itself.
DownForAReason ==
  \/ down = "no" \/ reused \/ ConsumerLeft
  \/ down = "peer_gone" /\ \E c \in Conn : peer[c] \in {"shut", "reset"}
  \/ down = "stack" /\ \E c \in Conn : depth[c] = MaxDepth
  \/ down = "huge_frame" /\ \E c \in Conn : pc[c] = "blocked" /\ stream[c] \in Huge
  \/ down = "overrun" /\ \E c \in Conn : pc[c] = "blocked" /\ stream[c] \in Long
  \/ /\ down = "no_descriptors"
     /\ \A f \in Fd : \E c \in Conn :
          table[f] = c /\ (Open(c) \/ pc[c] = "unserved")

\* Queue.c:190-192,81.  The mutex is released before the delivery is written:
\* a consumer that does not read stops the publisher that is writing to it,
\* and no other publisher's dispatch.
DispatchNotBlocked ==
  \A c \in Conn : pc[c] = "dispatch" ~> pc[c] # "dispatch" \/ down # "no"

\* The peer is gone, or has had its connection closed.
Ending(c) ==
  \/ peer[c] \in {"shut", "reset"}
  \/ pc[c] \in {"close_ok", "close_method", "close"}

\* Connection.c:39-43,64-68, Queue.c:112,119.  The descriptor of a connection
\* that is coming to its end is returned, after whatever its thread still has
\* to answer or deliver, unless the process ends first, no thread was created
\* for it, its thread is writing to a peer that does not read, or others keep
\* mutex_queue_declare from it, one for ever or one after the other.
DescriptorReturns ==
  \A c \in Conn :
    <>[]Ending(c) =>
      \/ <>[](\A f \in Fd : table[f] # c)
      \/ <>[](down # "no")
      \/ <>[](pc[c] = "unserved")
      \/ <>[]Stuck(c)
      \/ <>[](pc[c] = "declare") /\ []<>(\E d \in Conn : pc[d] = "declare_ok")

\* ep1_main.c:69.  The server runs until somebody kills it.
ServerStaysUp == down = "no"
=============================================================================
