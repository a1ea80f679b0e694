----------------------------- MODULE Deliveries -----------------------------
(***************************************************************************)
(* A message on its way from the frames its publisher sends, through       *)
(* connection->publication, to the frames its consumer is sent, with the   *)
(* sizes the code computes with and the buffers it copies to.  The same    *)
(* consumer may be sent answers, so that all frames of Encoding pass here. *)
(*                                                                         *)
(* The publisher is a client that keeps to the protocol: basic.publish,    *)
(* the content header, and the body in as few frames as its frame size     *)
(* allows, none if it is empty.  The consumer is in the queue, and there   *)
(* is no other; its tag may not be defined yet.  Two threads meet here:    *)
(* the publisher's, which builds deliveries, and the consumer's, which     *)
(* answers.  A step of either accesses consumer_tag_size once, or writes.  *)
(*                                                                         *)
(* Of a body only this is kept: which message its first bytes are of, from *)
(* which place on, and how many they are; the rest is whatever lay behind. *)
(***************************************************************************)
EXTENDS Encoding, Sequences

CONSTANTS
  Size,          \* sizes of messages
  NameSize,      \* lengths of the names of queues
  Unwritten,     \* what name_size of a new queue may be
  FrameMax,      \* the size of frames the publisher keeps to
  MaxMessages,   \* bound: messages published
  MaxWrites      \* bound: writes before a further answer

ASSUME SizeAssumption == Size \subseteq Nat

ASSUME NameAssumption ==
  /\ NameSize \subseteq 0 .. 255
  /\ Unwritten \subseteq 0 .. 255

\* What the server offers in connection.tune, or less.
ASSUME FrameAssumption == FrameMax \in 9 .. MAX_FRAME_SIZE

ASSUME BoundAssumption == MaxMessages \in Nat /\ MaxWrites \in Nat

VARIABLES
  client,    \* what the publisher sends next: "publish", "header" or "body"
  sizes,     \* history: the sizes of the messages, the last one under way
  left,      \* bytes of the last message that it has not sent yet
  pub,       \* connection->publication, of the publisher
  stage,     \* where its thread is in send_basic_deliver, or "idle"
  draft,     \* the tag's size in the delivery: as announced, as said before
             \* the tag, as copied; and, as history, whether the tag was first
             \* defined in between
  tag_size,  \* connection->consumer_tag_size, of the consumer
  tagging,   \* whether its thread defined the tag for an answer to be sent
  wire,      \* history: what was written to the consumer, write by write
  overrun    \* whether a copy left the record it was made to

publisher == <<client, sizes, left>>
sending == <<stage, draft>>
consumer == <<tag_size, tagging>>
vars == <<publisher, pub, sending, consumer, wire, overrun>>

NoBody == [of |-> 0, from |-> 0, good |-> 0]
NoDraft == [announced |-> 0, said |-> 0, copied |-> 0, raced |-> FALSE]

Init ==
  /\ client = "publish"
  /\ sizes = <<>>
  /\ left = 0
  /\ pub = [name_size |-> 0, size |-> 0, body |-> NoBody]
  /\ stage = "idle"
  /\ draft = NoDraft
  /\ tag_size = 0
  /\ tagging = FALSE
  /\ wire = <<>>
  /\ overrun = FALSE

-----------------------------------------------------------------------------
(* Writes to the consumer. *)

\* Faulty variant: the buffer of a single frame.
OneFrameBuffer == MAX_FRAME_SIZE

DeliverBuffer == 3 * MAX_FRAME_SIZE

Written(frames, buffer, size, body, raced) ==
  [frames |-> frames, buffer |-> buffer, size |-> size, body |-> body,
   raced |-> raced]

\* One of the other send_* functions.
Sends(f) ==
  wire' = Append(wire, Written(<<f>>, MAX_FRAME_SIZE, 0, NoBody, FALSE))

Constant ==
  {build_connection_start, build_connection_tune, build_connection_open_ok,
   build_connection_close_ok, build_channel_open_ok, build_channel_close_ok}

MayAnswer == ~overrun /\ ~tagging /\ Len(wire) < MaxWrites

Answer(f) ==
  /\ MayAnswer
  /\ Sends(f)
  /\ UNCHANGED <<publisher, pub, sending, consumer, overrun>>

\* The length of the name is taken from name_size, which nobody wrote.
AnswerDeclare(name_size) == Answer(build_queue_declare_ok(name_size))

\* The tag gets its size between the first and the last of the reads of it for
\* the delivery under way.
Races == stage \in {"say", "copy"} /\ tag_size # CONSUMER_TAG_SIZE

\* Faulty variant: each basic.consume makes the tag longer.
DefineTagLonger ==
  /\ MayAnswer
  /\ draft' = [draft EXCEPT !.raced = @ \/ Races]
  /\ tag_size' = tag_size + CONSUMER_TAG_SIZE
  /\ tagging' = TRUE
  /\ UNCHANGED <<publisher, pub, stage, wire, overrun>>

\* define_consumer_tag ...
DefineTag ==
  /\ MayAnswer
  /\ draft' = [draft EXCEPT !.raced = @ \/ Races]
  /\ tag_size' = CONSUMER_TAG_SIZE
  /\ tagging' = TRUE
  /\ UNCHANGED <<publisher, pub, stage, wire, overrun>>

\* ... and the answer with the tag.
AnswerConsume ==
  /\ ~overrun /\ tagging
  /\ Sends(build_basic_consume_ok(tag_size))
  /\ tagging' = FALSE
  /\ UNCHANGED <<publisher, pub, sending, tag_size, overrun>>

\* build_basic_deliver_method reads consumer_tag_size once ...
ReadTagSize(at, then) ==
  /\ stage = at
  /\ stage' = then
  /\ UNCHANGED <<publisher, pub, consumer, wire, overrun>>

AnnounceTagSize ==
  ReadTagSize("announce", "say") /\ draft' = [draft EXCEPT !.announced = tag_size]

\* ... again ...
SayTagSize ==
  ReadTagSize("say", "copy") /\ draft' = [draft EXCEPT !.said = tag_size]

\* ... and a third time.
CopyTag ==
  ReadTagSize("copy", "write") /\ draft' = [draft EXCEPT !.copied = tag_size]

\* send_basic_deliver
WriteDelivery ==
  /\ stage = "write"
  /\ wire' = Append(wire,
       Written(<<build_basic_deliver_method(draft.announced, draft.said,
                                            draft.copied, pub.name_size),
                 build_basic_deliver_header,
                 build_basic_deliver_body(pub.size)>>,
               DeliverBuffer, pub.size, pub.body, draft.raced))
  /\ stage' = "idle"
  /\ draft' = NoDraft
  /\ UNCHANGED <<publisher, pub, consumer, overrun>>

-----------------------------------------------------------------------------
(* What the publisher sends. *)

Idle == ~overrun /\ stage = "idle"

\* process_basic_publish
Publish(n) ==
  /\ Idle /\ client = "publish" /\ Len(sizes) < MaxMessages
  /\ pub' = [pub EXCEPT !.name_size = n]
  /\ client' = "header"
  /\ UNCHANGED <<sizes, left, sending, consumer, wire, overrun>>

\* Faulty variant: the largest size is kept.
ProcessHeaderFrameMax(s) ==
  /\ Idle /\ client = "header"
  /\ pub' = [pub EXCEPT !.size = IF @ > s THEN @ ELSE s]
  /\ sizes' = Append(sizes, s)
  /\ left' = s
  /\ client' = IF s = 0 THEN "publish" ELSE "body"
  /\ UNCHANGED <<sending, consumer, wire, overrun>>

\* process_header_frame
ProcessHeaderFrame(s) ==
  /\ Idle /\ client = "header"
  /\ pub' = [pub EXCEPT !.size = s]
  /\ sizes' = Append(sizes, s)
  /\ left' = s
  /\ client' = IF s = 0 THEN "publish" ELSE "body"
  /\ UNCHANGED <<sending, consumer, wire, overrun>>

\* The payload of the next body frame, with 7 + 1 bytes around it.
Payload == IF left > FrameMax - 8 THEN FrameMax - 8 ELSE left

\* Faulty variant: the record has to hold the rest of the frame, too.
FitsWithHeader == pub.size + 7 + 1 < MAX_BODY_SIZE

\* break_body_frame_payload puts a 0 behind the body.
Fits == pub.size < MAX_BODY_SIZE

\* break_body_frame_payload copies publication.size bytes, however many there
\* are in this frame; process_body_frame copies them on, and publish begins to
\* send them.
ProcessBodyFrame ==
  /\ Idle /\ client = "body" /\ Fits
  /\ LET copied == Copied(pub.size) IN
       pub' = [pub EXCEPT !.body =
         [of |-> Len(sizes), from |-> sizes[Len(sizes)] - left,
          good |-> IF Payload < copied THEN Payload ELSE copied]]
  /\ left' = left - Payload
  /\ client' = IF left' = 0 THEN "publish" ELSE "body"
  /\ stage' = "announce"
  /\ UNCHANGED <<sizes, draft, consumer, wire, overrun>>

\* A body that does not fit is written past the end of the record.
OverrunBody ==
  /\ Idle /\ client = "body" /\ ~Fits
  /\ overrun' = TRUE
  /\ UNCHANGED <<publisher, pub, sending, consumer, wire>>

-----------------------------------------------------------------------------

\* The bounds are reached, or what happens next is not defined.
Quiescent ==
  /\ \/ overrun
     \/ Idle /\ ~tagging /\ client = "publish" /\ Len(sizes) = MaxMessages
  /\ UNCHANGED vars

Next ==
  \/ \E n \in NameSize : Publish(n)
  \/ \E s \in Size : ProcessHeaderFrame(s)
  \/ ProcessBodyFrame \/ OverrunBody
  \/ AnnounceTagSize \/ SayTagSize \/ CopyTag \/ WriteDelivery
  \/ \E f \in Constant : Answer(f)
  \/ \E u \in Unwritten : AnswerDeclare(u)
  \/ DefineTag \/ AnswerConsume
  \/ Quiescent

Spec == Init /\ [][Next]_vars

-----------------------------------------------------------------------------
(* Properties. *)

Bodies == [of : Nat, from : Nat, good : Nat]

Kinds ==
  {"queue_declare_ok", "connection_tune", "connection_start",
   "connection_open_ok", "connection_close_ok", "channel_open_ok",
   "channel_close_ok", "basic_consume_ok", "basic_deliver", "header", "body"}

Frames == [what : Kinds, says : Nat, has : Nat,
           strings : SUBSET [says : Nat, has : Nat]]

Writes == [frames : Seq(Frames), buffer : Nat, size : Nat, body : Bodies,
           raced : BOOLEAN]

TagSizes == {0, CONSUMER_TAG_SIZE}

\* Every variable has its type.
TypeOK ==
  /\ client \in {"publish", "header", "body"}
  /\ sizes \in Seq(Size)
  /\ left \in Nat
  /\ pub \in [name_size : 0 .. 255, size : Nat, body : Bodies]
  /\ stage \in {"idle", "announce", "say", "copy", "write"}
  /\ draft \in [announced : TagSizes, said : TagSizes, copied : TagSizes,
                raced : BOOLEAN]
  /\ tag_size \in TagSizes
  /\ tagging \in BOOLEAN
  /\ wire \in Seq(Writes)
  /\ overrun \in BOOLEAN

\* The payload its header says, and in every string the length before it.
RightFrame(f) == f.says = f.has /\ \A s \in f.strings : s.says = s.has

\* Frame.c:687-1023,1103-1106, Basic.c:75.  A delivery makes its peer lose its
\* place in the stream exactly if the tag was first defined while the delivery
\* was being put together, between the three reads of consumer_tag_size, and
\* no other write does: no delivery that is put together before the tag is
\* defined, or after, even if the tag is defined again meanwhile, and no answer,
\* whatever name_size is where nobody wrote it.  This is of bodies that their
\* record holds: at any other the behaviour ends.
FramedRightly ==
  \A i \in DOMAIN wire :
    (\A j \in DOMAIN wire[i].frames : RightFrame(wire[i].frames[j]))
      <=> ~wire[i].raced

WriteSize(w) ==
  IF Len(w.frames) = 1 THEN FrameSize(w.frames[1])
  ELSE FrameSize(w.frames[1]) + FrameSize(w.frames[2]) + FrameSize(w.frames[3])

\* Frame.c:596-685.  What is put together before a Write fits the buffer it is
\* put together in.
FitsItsBuffer == \A i \in DOMAIN wire : WriteSize(wire[i]) <= wire[i].buffer

\* A message that its publisher sends in one frame.
OneFrame(m) == sizes[m] \in 1 .. FrameMax - 8
Done(m) == m < Len(sizes) \/ (client # "body" /\ stage = "idle")
DeliveriesOf(m) == {i \in DOMAIN wire : wire[i].body.of = m}

\* Frame.c:212-234,1029-1035, Queue.c:81.  A message in one frame is delivered
\* once, whole and as it was sent, even after messages in several frames, of
\* which the bytes are still there, and the deliveries are in the order of the
\* messages.
OneFrameIsIntact ==
  /\ \A m \in DOMAIN sizes :
       OneFrame(m) =>
         /\ Done(m) => DeliveriesOf(m) # {}
         /\ \A i, j \in DeliveriesOf(m) : i = j
         /\ \A i \in DeliveriesOf(m) :
              /\ wire[i].size = sizes[m]
              /\ wire[i].body.from = 0 /\ wire[i].body.good = sizes[m]
  /\ \A i, j \in DOMAIN wire :
       i < j /\ wire[j].body.of # 0 => wire[i].body.of <= wire[j].body.of

\* Frame.c:1033, ep1_main.c:30.  A publisher that keeps to the frame size the
\* server offers, and to messages of one frame or none, makes no copy leave
\* the record it is made to.
OneFrameFits ==
  overrun => \E m \in DOMAIN sizes : sizes[m] > FrameMax - 8
=============================================================================
