-------------------------- MODULE DeliveriesProofs --------------------------
(***************************************************************************)
(* Theorems about Deliveries: for every set of sizes, every length of the  *)
(* names and every frame size, which frames are framed rightly, that they  *)
(* fit the buffer they are built in, and that a message in one frame       *)
(* arrives as it was sent.                                                 *)
(***************************************************************************)
EXTENDS Deliveries, TLAPS

-----------------------------------------------------------------------------
(* The frames. *)

\* The frame is of its type and takes up to n bytes.
Sized(f, n) == f \in Frames /\ FrameSize(f) <= n

\* It also has what it says.
Right(f, n) == Sized(f, n) /\ RightFrame(f)

\* A remainder that is the number itself.
LEMMA Small ==
  ASSUME NEW n \in Nat
  PROVE  /\ n < 256 => Byte(n) = n
         /\ n < 65536 => Copied(n) = n
  BY DEF Byte, Short, Copied

\* A frame without strings.
LEMMA PlainFrame ==
  ASSUME NEW what \in Kinds, NEW n \in Nat, n < 2992
  PROVE  Right(Frame(what, n, n, {}), MAX_FRAME_SIZE)
  BY DEF Right, Sized, RightFrame, Frame, Frames, FrameSize, MAX_FRAME_SIZE

LEMMA DeclareOkRight ==
  ASSUME NEW name_size \in 0 .. 255
  PROVE  Right(build_queue_declare_ok(name_size), MAX_FRAME_SIZE)
<1>1. Byte(name_size) = name_size /\ Copied(name_size) = name_size
  BY Small
<1> QED
  BY <1>1 DEF build_queue_declare_ok, Right, Sized, RightFrame, Frame, Frames,
     Kinds, FrameSize, String, class, method, MAX_FRAME_SIZE

LEMMA ConsumeOkRight ==
  ASSUME NEW n \in TagSizes
  PROVE  Right(build_basic_consume_ok(n), MAX_FRAME_SIZE)
<1>1. /\ n \in 0 .. 50
      /\ Byte(n) = n /\ Copied(n) = n
  BY Small DEF TagSizes, CONSUMER_TAG_SIZE
<1> QED
  BY <1>1 DEF build_basic_consume_ok, Right, Sized, RightFrame, Frame, Frames,
     Kinds, FrameSize, String, class, method, MAX_FRAME_SIZE

LEMMA StartRight == Right(build_connection_start, MAX_FRAME_SIZE)
<1>1. /\ DOMAIN NameOf = {"cluster_name", "license", "product"}
      /\ DOMAIN Meta =
           {"cluster_name", "license", "product", "mechanisms", "locales"}
  BY DEF NameOf, Meta
<1>2. \A p \in DOMAIN NameOf : /\ NameOf[p] \in 1 .. 99
                               /\ Key(p) = [says |-> NameOf[p], has |-> NameOf[p]]
  <2>1. \A p \in DOMAIN NameOf : NameOf[p] \in 1 .. 99
    BY <1>1 DEF NameOf
  <2> QED
    BY <2>1, Small DEF Key, String
<1>3. \A p \in DOMAIN Meta : /\ Meta[p] \in 1 .. 99
                             /\ Value(p) = [says |-> Meta[p], has |-> Meta[p]]
  <2>1. \A p \in DOMAIN Meta : Meta[p] \in 1 .. 99
    BY <1>1 DEF Meta
  <2> QED
    BY <2>1, Small DEF Value, String
<1>4. \A p \in DOMAIN NameOf :
        /\ p \in DOMAIN Meta
        /\ PropertyWritten(p) = Property(p) /\ Property(p) \in 1 .. 300
  BY <1>1, <1>2, <1>3, SMTT(20) DEF PropertyWritten, Property
<1> DEFINE size == Property("cluster_name") + Property("license")
                     + Property("product")
           written == PropertyWritten("cluster_name")
                        + PropertyWritten("license") + PropertyWritten("product")
           strings == {Key(p) : p \in DOMAIN NameOf}
                        \cup {Value(p) : p \in DOMAIN Meta}
                        \cup {[says |-> size, has |-> written]}
           says == class + method + 1 + 1 + 4 + size
                     + 4 + Meta.mechanisms + 4 + Meta.locales
           has == class + method + 1 + 1 + 4 + written
                    + 4 + Value("mechanisms").has + 4 + Value("locales").has
<1>5. size = written /\ size \in 1 .. 900
  <2>1. \A p \in {"cluster_name", "license", "product"} :
          PropertyWritten(p) = Property(p) /\ Property(p) \in 1 .. 300
    BY <1>1, <1>4
  <2>2. PICK a \in 1 .. 300, b \in 1 .. 300, c \in 1 .. 300 :
          /\ Property("cluster_name") = a
          /\ Property("license") = b
          /\ Property("product") = c
    BY <2>1
  <2>3. a + b + c \in 1 .. 900
    OBVIOUS
  <2>4. size \in 1 .. 900
    BY <2>2, <2>3
  <2>5. size = written
    BY ONLY <2>1
  <2> QED
    BY <2>4, <2>5
<1>6. says = has /\ says \in 1 .. 1200
  <2>1. /\ Meta.mechanisms \in 1 .. 99 /\ Meta.locales \in 1 .. 99
        /\ Value("mechanisms").has = Meta.mechanisms
        /\ Value("locales").has = Meta.locales
    BY <1>1, <1>3
  <2> HIDE DEF size, written
  <2>3. says = has
    BY <1>5, <2>1
  <2>4. says \in 1 .. 1200
    <3>1. PICK a \in 1 .. 900, b \in 1 .. 99, c \in 1 .. 99 :
            size = a /\ Meta.mechanisms = b /\ Meta.locales = c
      BY <1>5, <2>1, ZenonT(30)
    <3>2. says = 2 + 2 + 1 + 1 + 4 + a + 4 + b + 4 + c
      BY <3>1 DEF class, method
    <3>3. 2 + 2 + 1 + 1 + 4 + a + 4 + b + 4 + c \in 1 .. 1200
      BY SMTT(30)
    <3> HIDE DEF says
    <3> QED
      BY <3>2, <3>3
  <2> HIDE DEF says, has
  <2> QED
    BY <2>3, <2>4
<1>7. /\ strings \in SUBSET [says : Nat, has : Nat]
      /\ \A s \in strings : s.says = s.has
  <2> HIDE DEF size, written
  <2>1. \A p \in DOMAIN NameOf : /\ Key(p) \in [says : Nat, has : Nat]
                                 /\ Key(p).says = Key(p).has
    BY <1>2
  <2>2. \A p \in DOMAIN Meta : /\ Value(p) \in [says : Nat, has : Nat]
                               /\ Value(p).says = Value(p).has
    BY <1>3
  <2>3. size \in Nat /\ written = size
    BY <1>5
  <2>4. ASSUME NEW s \in strings
        PROVE  s \in [says : Nat, has : Nat] /\ s.says = s.has
    <3>1. CASE \E p \in DOMAIN NameOf : s = Key(p)
      BY <2>1, <3>1
    <3>2. CASE \E p \in DOMAIN Meta : s = Value(p)
      BY <2>2, <3>2
    <3>3. CASE s = [says |-> size, has |-> written]
      BY <2>3, <3>3
    <3> QED
      BY <3>1, <3>2, <3>3
  <2> HIDE DEF strings
  <2> QED
    BY <2>4
<1>8. build_connection_start = Frame("connection_start", says, has, strings)
  BY DEF build_connection_start
<1> HIDE DEF says, has, strings
<1> QED
  BY <1>6, <1>7, <1>8 DEF Right, Sized, RightFrame, Frame, Frames, Kinds, FrameSize,
     MAX_FRAME_SIZE

LEMMA ConstantRight ==
  ASSUME NEW f \in Constant
  PROVE  Right(f, MAX_FRAME_SIZE)
<1>1. CASE f = build_connection_start
  BY <1>1, StartRight
<1>2. CASE f = build_connection_tune
  BY <1>2, PlainFrame DEF build_connection_tune, Kinds, class, method
<1>3. CASE f = build_connection_open_ok
  BY <1>3, PlainFrame DEF build_connection_open_ok, Kinds, class, method
<1>4. CASE f = build_connection_close_ok
  BY <1>4, PlainFrame DEF build_connection_close_ok, Kinds, class, method
<1>5. CASE f = build_channel_open_ok
  BY <1>5, PlainFrame DEF build_channel_open_ok, Kinds, class, method
<1>6. CASE f = build_channel_close_ok
  BY <1>6, PlainFrame DEF build_channel_close_ok, Kinds, class, method
<1> QED
  BY <1>1, <1>2, <1>3, <1>4, <1>5, <1>6 DEF Constant

\* A delivery fits whatever was read of the tag's size, and has what it says if
\* it was read alike.
LEMMA DeliverSized ==
  ASSUME NEW announced \in TagSizes, NEW said \in TagSizes, NEW copied \in TagSizes,
         NEW name_size \in 0 .. 255
  PROVE  LET f == build_basic_deliver_method(announced, said, copied, name_size) IN
           /\ Sized(f, MAX_FRAME_SIZE)
           /\ announced = said /\ said = copied => RightFrame(f)
           /\ announced # copied => ~RightFrame(f)
<1> DEFINE f == build_basic_deliver_method(announced, said, copied, name_size)
<1>1. /\ announced \in 0 .. 50 /\ said \in 0 .. 50 /\ copied \in 0 .. 50
      /\ Byte(said) = said /\ Copied(copied) = copied
      /\ Byte(name_size) = name_size /\ Copied(name_size) = name_size
  BY Small DEF TagSizes, CONSUMER_TAG_SIZE
<1>2. f = [what |-> "basic_deliver",
           says |-> 2 + 2 + (1 + announced + 10 + 1 + name_size),
           has |-> 2 + 2 + 1 + copied + 10 + 1 + name_size,
           strings |-> {[says |-> said, has |-> copied],
                        [says |-> name_size, has |-> name_size]}]
  BY <1>1 DEF build_basic_deliver_method, Frame, String, class, method
<1> HIDE DEF f
<1>3. Sized(f, MAX_FRAME_SIZE)
  BY <1>1, <1>2 DEF Sized, Frames, Kinds, FrameSize, MAX_FRAME_SIZE
<1>4. announced = said /\ said = copied => RightFrame(f)
  BY <1>1, <1>2 DEF RightFrame
<1>5. announced # copied => ~RightFrame(f)
  BY <1>1, <1>2 DEF RightFrame
<1> QED
  BY <1>3, <1>4, <1>5 DEF f

LEMMA HeaderRight == Right(build_basic_deliver_header, MAX_FRAME_SIZE - 8)
BY DEF build_basic_deliver_header, Right, Sized, RightFrame, Frame, Frames, Kinds, FrameSize, class,
   MAX_FRAME_SIZE

\* The body may be longer than a frame is meant to be; the buffer makes up
\* for it.
LEMMA BodyRight ==
  ASSUME NEW n \in Nat, n < MAX_BODY_SIZE
  PROVE  Right(build_basic_deliver_body(n), MAX_FRAME_SIZE + 8)
<1>1. n < 3000 /\ Copied(n) = n
  BY Small DEF MAX_BODY_SIZE
<1> QED
  BY <1>1 DEF build_basic_deliver_body, Right, Sized, RightFrame, Frame, Frames, Kinds, FrameSize,
     MAX_FRAME_SIZE

-----------------------------------------------------------------------------
(* The inductive invariant. *)

\* A write is a right frame or the three of a delivery, of which only the first
\* may be wrong; together they fit.
GoodWrite(w) ==
  /\ w \in Writes
  /\ \/ \E f : w.frames = <<f>> /\ Right(f, w.buffer) /\ ~w.raced
     \/ \E f, g, h :
          /\ w.frames = <<f, g, h>>
          /\ Sized(f, MAX_FRAME_SIZE) /\ (RightFrame(f) <=> ~w.raced)
          /\ Right(g, MAX_FRAME_SIZE - 8)
          /\ Right(h, MAX_FRAME_SIZE + 8)
          /\ w.buffer = 3 * MAX_FRAME_SIZE

WiresRight == \A i \in DOMAIN wire : GoodWrite(wire[i])

\* How far the publisher is: the size in its publication is that of the
\* message under way, and of one that takes one frame nothing was sent.
ClientInv ==
  /\ client # "body" => left = 0
  /\ client = "body" =>
       /\ Len(sizes) > 0 /\ pub.size = sizes[Len(sizes)]
       /\ left \in 1 .. pub.size
       /\ pub.size <= FrameMax - 8 =>
            left = pub.size /\ DeliveriesOf(Len(sizes)) = {} /\ stage = "idle"

\* Deliveries are of messages already begun.
BegunInv == \A i \in DOMAIN wire : wire[i].body.of <= Len(sizes)

\* A delivery under way is of the last message, of which, if it takes one frame,
\* it is the only one.
SendingInv ==
  stage # "idle" =>
    /\ Len(sizes) > 0
    /\ pub.size < MAX_BODY_SIZE /\ pub.body.of = Len(sizes)
    /\ OneFrame(Len(sizes)) =>
         /\ pub.size = sizes[Len(sizes)]
         /\ pub.body.from = 0 /\ pub.body.good = pub.size
         /\ DeliveriesOf(Len(sizes)) = {}

\* What was read of the tag's size is the same and still right, but for the tag
\* that got its size after the first of the reads.
DraftInv ==
  /\ stage \in {"idle", "announce"} => ~draft.raced
  /\ draft.raced => draft.announced = 0
  /\ stage = "say" =>
       IF draft.raced THEN tag_size = CONSUMER_TAG_SIZE
       ELSE draft.announced = tag_size
  /\ stage = "copy" =>
       IF draft.raced THEN tag_size = CONSUMER_TAG_SIZE
       ELSE draft.announced = tag_size /\ draft.said = tag_size
  /\ stage = "write" =>
       IF draft.raced THEN draft.copied = CONSUMER_TAG_SIZE
       ELSE draft.announced = draft.said /\ draft.said = draft.copied

IndInv ==
  /\ TypeOK /\ WiresRight /\ ClientInv /\ BegunInv /\ SendingInv /\ DraftInv
  /\ OneFrameIsIntact /\ OneFrameFits

\* The body of a write.
LEMMA BodyOf ==
  ASSUME TypeOK, NEW i \in DOMAIN wire
  PROVE  wire[i].body \in Bodies /\ wire[i].body.of \in Nat
<1>1. wire[i] \in Writes
  <2>1. \A S : wire \in Seq(S) => wire[i] \in S
    OBVIOUS
  <2> QED
    BY <2>1 DEF TypeOK
<1>2. wire[i].body \in Bodies
  BY <1>1 DEF Writes
<1> QED
  BY <1>2 DEF Bodies

LEMMA InitInv == Init => IndInv
<1> SUFFICES ASSUME Init PROVE IndInv
  OBVIOUS
<1>1. TypeOK
  <2>1. wire \in Seq(Writes)
    BY DEF Init
  <2>2. pub \in [name_size : 0 .. 255, size : Nat, body : Bodies]
    BY DEF Init, Bodies, NoBody
  <2>3. sizes \in Seq(Size)
    BY DEF Init
  <2>4. /\ left \in Nat /\ tag_size \in TagSizes /\ tagging \in BOOLEAN
        /\ stage \in {"idle", "announce", "say", "copy", "write"}
        /\ draft \in [announced : TagSizes, said : TagSizes, copied : TagSizes,
                     raced : BOOLEAN]
    BY DEF Init, TagSizes, NoDraft
  <2>5. client \in {"publish", "header", "body"} /\ overrun \in BOOLEAN
    BY DEF Init
  <2> QED
    BY <2>1, <2>2, <2>3, <2>4, <2>5 DEF TypeOK
<1>2. DraftInv
  BY DEF Init, DraftInv, NoDraft
<1> QED
  BY <1>1, <1>2 DEF Init, IndInv, WiresRight, ClientInv, BegunInv, SendingInv,
     OneFrameIsIntact, OneFrameFits

-----------------------------------------------------------------------------
(* Writing one thing more. *)

\* What a longer history is.
LEMMA Longer ==
  ASSUME TypeOK, NEW w, wire' = Append(wire, w)
  PROVE  /\ Len(wire) \in Nat
         /\ DOMAIN wire = 1 .. Len(wire)
         /\ DOMAIN wire' = 1 .. Len(wire) + 1
         /\ \A i \in DOMAIN wire : i \in DOMAIN wire' /\ wire'[i] = wire[i]
         /\ wire'[Len(wire) + 1] = w
  BY SMTT(30) DEF TypeOK

LEMMA WriteKeeps ==
  ASSUME TypeOK, WiresRight, NEW w, wire' = Append(wire, w), GoodWrite(w)
  PROVE  /\ WiresRight'
         /\ wire' \in Seq(Writes)
<1>1. \A i \in DOMAIN wire' : GoodWrite(wire'[i])
  <2> TAKE i \in DOMAIN wire'
  <2>1. CASE i \in DOMAIN wire
    BY <2>1, Longer DEF WiresRight
  <2>2. CASE i = Len(wire) + 1
    BY <2>2, Longer
  <2> QED
    BY <2>1, <2>2, Longer
<1>2. w \in Writes
  BY DEF GoodWrite
<1> QED
  BY <1>1, <1>2 DEF WiresRight, TypeOK

\* An answer carries no body.
LEMMA AnswerKeeps ==
  ASSUME IndInv, NEW f, Right(f, MAX_FRAME_SIZE), Sends(f),
         UNCHANGED <<publisher, pub, sending, tag_size, overrun>>,
         tagging' \in BOOLEAN
  PROVE  IndInv'
<1> DEFINE w == Written(<<f>>, MAX_FRAME_SIZE, 0, NoBody, FALSE)
<1>1. wire' = Append(wire, w)
  BY DEF Sends
<1>2. /\ w.body.of = 0
      /\ w.body = NoBody
  BY DEF Written, NoBody
<1>3. GoodWrite(w)
  BY DEF GoodWrite, Written, Writes, Right, Sized, Bodies, NoBody, MAX_FRAME_SIZE
<1> HIDE DEF w
<1>4. WiresRight' /\ TypeOK'
  BY <1>1, <1>3, WriteKeeps DEF IndInv, TypeOK, publisher, sending
<1>5. \A m \in Nat : m > 0 => DeliveriesOf(m)' = DeliveriesOf(m)
  <2> TAKE m \in Nat
  <2> HAVE m > 0
  <2>1. \A i \in DOMAIN wire' : wire'[i].body.of = m => i \in DOMAIN wire
    BY <1>1, <1>2, Longer DEF IndInv
  <2> QED
    BY <1>1, <2>1, Longer DEF IndInv, DeliveriesOf
<1>6. ClientInv'
  <2>1. client = "body" => Len(sizes) \in Nat /\ Len(sizes) > 0
    BY DEF IndInv, ClientInv, TypeOK
  <2> QED
    BY <2>1, <1>5 DEF IndInv, ClientInv, publisher, sending
<1>7. BegunInv'
  <2> SUFFICES ASSUME NEW i \in DOMAIN wire'
               PROVE  wire'[i].body.of <= Len(sizes)
    BY DEF BegunInv, publisher
  <2>1. CASE i \in DOMAIN wire
    BY <2>1, <1>1, Longer DEF IndInv, BegunInv
  <2>2. CASE i = Len(wire) + 1
    BY <2>2, <1>1, <1>2, Longer DEF IndInv, TypeOK
  <2> QED
    BY <2>1, <2>2, <1>1, Longer DEF IndInv
<1>8. OneFrameIsIntact'
  <2>1. ASSUME NEW m \in DOMAIN sizes, OneFrame(m)
        PROVE  /\ Done(m) => DeliveriesOf(m)' # {}
               /\ \A i, j \in DeliveriesOf(m)' : i = j
               /\ \A i \in DeliveriesOf(m)' :
                    /\ wire'[i].size = sizes[m]
                    /\ wire'[i].body.from = 0 /\ wire'[i].body.good = sizes[m]
    <3>1. DeliveriesOf(m)' = DeliveriesOf(m)
      BY <1>5 DEF IndInv, TypeOK
    <3>2. \A i \in DeliveriesOf(m) : wire'[i] = wire[i]
      BY <1>1, Longer DEF DeliveriesOf, IndInv
    <3> QED
      BY <2>1, <3>1, <3>2 DEF IndInv, OneFrameIsIntact
  <2>2. \A i, j \in DOMAIN wire' :
          i < j /\ wire'[j].body.of # 0 => wire'[i].body.of <= wire'[j].body.of
    <3> TAKE i, j \in DOMAIN wire'
    <3> HAVE i < j /\ wire'[j].body.of # 0
    <3>1. i \in DOMAIN wire /\ j \in DOMAIN wire
      BY <1>1, <1>2, Longer DEF IndInv
    <3> QED
      BY <3>1, <1>1, Longer DEF IndInv, OneFrameIsIntact
  <2> QED
    BY <2>1, <2>2 DEF OneFrameIsIntact, OneFrame, Done, publisher, sending
<1>9. OneFrameFits'
  BY DEF IndInv, OneFrameFits, publisher
<1>10. SendingInv'
  BY <1>5 DEF IndInv, TypeOK, SendingInv, OneFrame, publisher, sending
<1>11. DraftInv'
  BY DEF IndInv, DraftInv, sending
<1> QED
  BY <1>4, <1>6, <1>7, <1>8, <1>9, <1>10, <1>11 DEF IndInv

-----------------------------------------------------------------------------
(* A body frame. *)

\* What the record holds after a body frame, of the message under way.
LEMMA BodyCopied ==
  ASSUME IndInv, client = "body", Fits, NEW b,
         b = [of |-> Len(sizes), from |-> sizes[Len(sizes)] - left,
              good |-> IF Payload < Copied(pub.size) THEN Payload
                       ELSE Copied(pub.size)]
  PROVE  /\ Len(sizes) \in Nat \ {0}
         /\ pub.size \in Nat /\ pub.size < MAX_BODY_SIZE
         /\ b \in Bodies /\ b.of = Len(sizes)
         /\ Payload \in 1 .. left
         /\ OneFrame(Len(sizes)) =>
              /\ b.from = 0 /\ b.good = pub.size
              /\ pub.size = sizes[Len(sizes)] /\ Payload = left
<1>1. /\ Len(sizes) \in Nat \ {0} /\ sizes[Len(sizes)] = pub.size
      /\ pub.size \in Nat /\ left \in 1 .. pub.size
      /\ pub.size <= FrameMax - 8 => left = pub.size
  BY DEF IndInv, TypeOK, ClientInv
<1>2. FrameMax \in Nat /\ FrameMax > 8
  BY FrameAssumption DEF MAX_FRAME_SIZE
<1>3. pub.size < MAX_BODY_SIZE /\ pub.size < 3000
  BY DEF Fits, MAX_BODY_SIZE
<1>4. Copied(pub.size) = pub.size
  BY <1>1, <1>3, Small
<1>5. Payload \in 1 .. left /\ (left <= FrameMax - 8 => Payload = left)
  BY <1>1, <1>2 DEF Payload
<1>6. b = [of |-> Len(sizes), from |-> pub.size - left,
           good |-> IF Payload < pub.size THEN Payload ELSE pub.size]
  BY <1>1, <1>4
<1>7. b \in Bodies /\ b.of = Len(sizes)
  BY <1>1, <1>5, <1>6 DEF Bodies
<1>8. ASSUME OneFrame(Len(sizes))
      PROVE  b.from = 0 /\ b.good = pub.size /\ Payload = left
  <2>1. pub.size <= FrameMax - 8 /\ left = pub.size
    BY <1>1, <1>2, <1>8 DEF OneFrame
  <2> QED
    BY <1>1, <1>5, <1>6, <2>1
<1> QED
  BY <1>1, <1>3, <1>5, <1>7, <1>8

LEMMA BodyKeeps ==
  ASSUME IndInv, ProcessBodyFrame
  PROVE  IndInv'
<1> DEFINE b == [of |-> Len(sizes), from |-> sizes[Len(sizes)] - left,
                 good |-> IF Payload < Copied(pub.size) THEN Payload
                          ELSE Copied(pub.size)]
           last == Len(sizes)
<1>1. /\ client = "body" /\ Fits /\ ~overrun /\ stage = "idle"
      /\ pub' = [pub EXCEPT !.body = b]
      /\ left' = left - Payload
      /\ client' = IF left' = 0 THEN "publish" ELSE "body"
      /\ stage' = "announce"
      /\ UNCHANGED <<sizes, draft, tag_size, tagging, wire, overrun>>
  BY DEF ProcessBodyFrame, Idle, consumer
<1>2. /\ last \in Nat \ {0}
      /\ pub.size \in Nat /\ pub.size < MAX_BODY_SIZE
      /\ b \in Bodies /\ b.of = last
      /\ Payload \in 1 .. left
      /\ OneFrame(last) => /\ b.from = 0 /\ b.good = pub.size
                           /\ pub.size = sizes[last] /\ Payload = left
  <2> HIDE DEF b
  <2>1. b = [of |-> Len(sizes), from |-> sizes[Len(sizes)] - left,
             good |-> IF Payload < Copied(pub.size) THEN Payload
                      ELSE Copied(pub.size)]
    BY DEF b
  <2> QED
    BY <1>1, <2>1, BodyCopied
<1> HIDE DEF b
<1>3. /\ pub'.size = pub.size /\ pub'.body = b
      /\ pub' \in [name_size : 0 .. 255, size : Nat, body : Bodies]
  BY <1>1, <1>2 DEF IndInv, TypeOK
<1>4. /\ left' \in Nat /\ left' < left
      /\ left \in 1 .. pub.size /\ pub.size = sizes[last]
      /\ pub.size <= FrameMax - 8 => left = pub.size /\ DeliveriesOf(last) = {}
  BY <1>1, <1>2 DEF IndInv, ClientInv
<1>5. TypeOK' /\ WiresRight' /\ BegunInv' /\ DraftInv'
  <2>1. TypeOK'
    BY <1>1, <1>3, <1>4 DEF IndInv, TypeOK
  <2>2. WiresRight' /\ BegunInv'
    BY <1>1 DEF IndInv, WiresRight, BegunInv
  <2>3. DraftInv'
    BY <1>1 DEF IndInv, DraftInv
  <2> QED
    BY <2>1, <2>2, <2>3
<1>6. FrameMax \in Nat /\ FrameMax - 8 \in Nat
  BY FrameAssumption DEF MAX_FRAME_SIZE
<1>7. OneFrame(last) <=> pub.size <= FrameMax - 8
  BY <1>2, <1>4, <1>6 DEF OneFrame
<1>8. \A m : DeliveriesOf(m)' = DeliveriesOf(m) /\ OneFrame(m)' = OneFrame(m)
  BY <1>1 DEF DeliveriesOf, OneFrame
<1>9. ClientInv'
  <2>1. client' # "body" => left' = 0
    BY <1>1
  <2>2. ASSUME client' = "body"
        PROVE  left' \in 1 .. pub.size /\ ~(pub.size <= FrameMax - 8)
    BY <1>1, <1>2, <1>4, <1>7, <2>2
  <2> QED
    BY <1>1, <1>2, <1>3, <1>4, <2>1, <2>2 DEF ClientInv
<1>10. SendingInv'
  BY <1>1, <1>2, <1>3, <1>4, <1>7, <1>8 DEF SendingInv
<1>11. OneFrameIsIntact'
  <2>1. ASSUME NEW m \in DOMAIN sizes, Done(m)'
        PROVE  Done(m)
    BY <1>1, <2>1 DEF Done
  <2> QED
    BY <1>1, <1>8, <2>1 DEF IndInv, OneFrameIsIntact
<1>12. OneFrameFits'
  BY <1>1 DEF OneFrameFits
<1> QED
  BY <1>5, <1>9, <1>10, <1>11, <1>12 DEF IndInv

-----------------------------------------------------------------------------
(* The two threads at consumer_tag_size. *)

\* A step that changes nothing of the publisher and the history keeps what is
\* said of them.
LEMMA Aside ==
  ASSUME IndInv, UNCHANGED <<publisher, pub, wire, overrun>>,
         stage' = stage \/ (stage # "idle" /\ stage' # "idle")
  PROVE  (WiresRight /\ ClientInv /\ BegunInv /\ SendingInv /\ OneFrameIsIntact
            /\ OneFrameFits)'
<1>1. UNCHANGED <<client, sizes, left, pub, wire, overrun>>
  BY DEF publisher
<1>2. \A m : /\ DeliveriesOf(m)' = DeliveriesOf(m) /\ OneFrame(m)' = OneFrame(m)
             /\ Done(m)' = Done(m)
  BY <1>1 DEF DeliveriesOf, OneFrame, Done
<1>3. (WiresRight /\ BegunInv /\ OneFrameFits)'
  BY <1>1 DEF IndInv, WiresRight, BegunInv, OneFrameFits
<1>4. ClientInv' /\ SendingInv' /\ OneFrameIsIntact'
  BY <1>1, <1>2 DEF IndInv, ClientInv, SendingInv, OneFrameIsIntact
<1> QED
  BY <1>3, <1>4

LEMMA ReadsKeep ==
  ASSUME IndInv, AnnounceTagSize \/ SayTagSize \/ CopyTag
  PROVE  IndInv'
<1>1. /\ UNCHANGED <<publisher, client, sizes, left, pub, tag_size, tagging, wire,
                     overrun>>
      /\ stage # "idle" /\ stage' # "idle"
      /\ stage' \in {"say", "copy", "write"}
  BY DEF AnnounceTagSize, SayTagSize, CopyTag, ReadTagSize, publisher, consumer
<1>2. draft \in [announced : TagSizes, said : TagSizes, copied : TagSizes,
                raced : BOOLEAN] /\ tag_size \in TagSizes
  BY DEF IndInv, TypeOK
<1>3. /\ draft' \in [announced : TagSizes, said : TagSizes, copied : TagSizes,
                     raced : BOOLEAN]
      /\ DraftInv'
  <2>1. CASE AnnounceTagSize
    BY <1>2, <2>1 DEF IndInv, AnnounceTagSize, ReadTagSize, DraftInv, consumer
  <2>2. CASE SayTagSize
    BY <1>2, <2>2 DEF IndInv, SayTagSize, ReadTagSize, DraftInv, consumer
  <2>3. CASE CopyTag
    BY <1>2, <2>3 DEF IndInv, CopyTag, ReadTagSize, DraftInv, consumer
  <2> QED
    BY <2>1, <2>2, <2>3
<1>4. TypeOK'
  BY <1>1, <1>3 DEF IndInv, TypeOK
<1> QED
  BY <1>1, <1>3, <1>4, Aside DEF IndInv

LEMMA DefineKeeps ==
  ASSUME IndInv, DefineTag
  PROVE  IndInv'
<1>1. /\ UNCHANGED <<publisher, client, sizes, left, pub, stage, wire, overrun>>
      /\ draft' = [draft EXCEPT !.raced = @ \/ Races]
      /\ tag_size' = CONSUMER_TAG_SIZE /\ tagging' = TRUE
  BY DEF DefineTag, publisher
<1>2. draft \in [announced : TagSizes, said : TagSizes, copied : TagSizes,
                raced : BOOLEAN] /\ tag_size \in TagSizes
  BY DEF IndInv, TypeOK
<1>3. /\ draft'.announced = draft.announced /\ draft'.said = draft.said
      /\ draft'.copied = draft.copied
      /\ draft'.raced <=> draft.raced \/ Races
      /\ draft' \in [announced : TagSizes, said : TagSizes, copied : TagSizes,
                     raced : BOOLEAN]
  BY <1>1, <1>2, Zenon
<1>4. ~Races => stage \notin {"say", "copy"} \/ tag_size = CONSUMER_TAG_SIZE
  BY DEF Races
<1>5. Races => stage \in {"say", "copy"} /\ tag_size = 0
  BY <1>2 DEF Races, TagSizes
<1>6. DraftInv'
  <2>1. CASE Races
    <3>1. draft'.raced /\ tag_size' = CONSUMER_TAG_SIZE /\ stage' \in {"say", "copy"}
      BY <1>1, <1>3, <1>5, <2>1
    <3>2. draft'.announced = 0
      BY <1>3, <1>5, <2>1 DEF IndInv, DraftInv
    <3> QED
      BY <3>1, <3>2 DEF DraftInv
  <2>2. CASE ~Races
    <3>1. draft'.raced <=> draft.raced
      BY <1>3, <2>2
    <3> QED
      BY <1>1, <1>3, <1>4, <2>2, <3>1 DEF IndInv, DraftInv
  <2> QED
    BY <2>1, <2>2
<1>7. TypeOK'
  BY <1>1, <1>3 DEF IndInv, TypeOK, TagSizes
<1> QED
  BY <1>1, <1>6, <1>7, Aside DEF IndInv

\* The delivery is written: of the message under way, in its turn.
LEMMA DeliveryKeeps ==
  ASSUME IndInv, WriteDelivery
  PROVE  IndInv'
<1> DEFINE f == build_basic_deliver_method(draft.announced, draft.said,
                                           draft.copied, pub.name_size)
           g == build_basic_deliver_header
           h == build_basic_deliver_body(pub.size)
           w == Written(<<f, g, h>>, DeliverBuffer, pub.size, pub.body, draft.raced)
           last == Len(sizes)
<1>1. /\ stage = "write" /\ stage' = "idle" /\ draft' = NoDraft
      /\ wire' = Append(wire, w)
      /\ UNCHANGED <<client, sizes, left, pub, tag_size, tagging, overrun>>
  BY DEF WriteDelivery, publisher, consumer
<1>2. /\ last \in Nat \ {0}
      /\ pub.size \in Nat /\ pub.size < MAX_BODY_SIZE
      /\ pub.body \in Bodies /\ pub.body.of = last
      /\ pub.name_size \in 0 .. 255
      /\ OneFrame(last) => /\ pub.size = sizes[last]
                           /\ pub.body.from = 0 /\ pub.body.good = pub.size
                           /\ DeliveriesOf(last) = {}
  BY <1>1 DEF IndInv, TypeOK, SendingInv
<1>3. /\ Sized(f, MAX_FRAME_SIZE)
      /\ RightFrame(f) <=> ~draft.raced
      /\ Right(g, MAX_FRAME_SIZE - 8) /\ Right(h, MAX_FRAME_SIZE + 8)
  <2> HIDE DEF f
  <2>1. /\ draft.announced \in TagSizes /\ draft.said \in TagSizes
        /\ draft.copied \in TagSizes /\ draft.raced \in BOOLEAN
    BY DEF IndInv, TypeOK
  <2>2. /\ draft.raced =>
             draft.announced = 0 /\ draft.copied = CONSUMER_TAG_SIZE
        /\ ~draft.raced =>
             draft.announced = draft.said /\ draft.said = draft.copied
    BY <1>1 DEF IndInv, DraftInv
  <2>3. /\ Sized(f, MAX_FRAME_SIZE)
        /\ draft.announced = draft.said /\ draft.said = draft.copied => RightFrame(f)
        /\ draft.announced # draft.copied => ~RightFrame(f)
    <3>1. PICK a \in TagSizes, b \in TagSizes, k \in TagSizes, n \in 0 .. 255 :
            /\ a = draft.announced /\ b = draft.said /\ k = draft.copied
            /\ n = pub.name_size
      BY <1>2, <2>1
    <3>2. f = build_basic_deliver_method(a, b, k, n)
      BY <3>1 DEF f
    <3>3. /\ Sized(f, MAX_FRAME_SIZE)
          /\ a = b /\ b = k => RightFrame(f)
          /\ a # k => ~RightFrame(f)
      BY ONLY <3>2, DeliverSized
    <3> QED
      BY <3>1, <3>3
  <2>4. draft.raced => draft.announced # draft.copied
    BY <2>2 DEF CONSUMER_TAG_SIZE
  <2>5. RightFrame(f) <=> ~draft.raced
    BY <2>2, <2>3, <2>4
  <2> QED
    BY <1>2, <2>3, <2>5, HeaderRight, BodyRight
<1>4. w.body = pub.body /\ w.size = pub.size
  BY DEF Written
<1>5. GoodWrite(w)
  <2>1. w = [frames |-> <<f, g, h>>, buffer |-> 3 * MAX_FRAME_SIZE,
             size |-> pub.size, body |-> pub.body, raced |-> draft.raced]
    BY DEF Written, DeliverBuffer
  <2>2. f \in Frames /\ g \in Frames /\ h \in Frames /\ draft.raced \in BOOLEAN
    BY <1>3 DEF Right, Sized, IndInv, TypeOK
  <2> HIDE DEF f, g, h, w
  <2>3. w \in Writes
    BY <1>2, <2>1, <2>2 DEF Writes, MAX_FRAME_SIZE
  <2>4. /\ w.frames = <<f, g, h>> /\ w.buffer = 3 * MAX_FRAME_SIZE
        /\ w.raced = draft.raced
    BY <2>1
  <2>5. RightFrame(f) <=> ~w.raced
    BY <1>3, <2>4
  <2> QED
    BY <1>3, <2>3, <2>4, <2>5 DEF GoodWrite
<1> HIDE DEF w
<1>6. WiresRight' /\ TypeOK'
  <2>1. draft' \in [announced : TagSizes, said : TagSizes, copied : TagSizes,
                    raced : BOOLEAN]
    BY <1>1 DEF NoDraft, TagSizes
  <2> QED
    BY <1>1, <1>5, <2>1, WriteKeeps DEF IndInv, TypeOK
<1>7. DraftInv'
  BY <1>1 DEF DraftInv, NoDraft
<1>8. SendingInv'
  BY <1>1 DEF SendingInv
<1>9. ClientInv'
  <2>1. client = "body" => ~(pub.size <= FrameMax - 8)
    BY <1>1 DEF IndInv, ClientInv
  <2> QED
    BY <1>1, <2>1 DEF IndInv, ClientInv
<1>10. BegunInv'
  <2> SUFFICES ASSUME NEW i \in DOMAIN wire'
               PROVE  wire'[i].body.of <= last
    BY <1>1 DEF BegunInv
  <2>1. CASE i \in DOMAIN wire
    BY <2>1, <1>1, Longer DEF IndInv, BegunInv
  <2>2. CASE i = Len(wire) + 1
    BY <2>2, <1>1, <1>2, <1>4, Longer DEF IndInv
  <2> QED
    BY <2>1, <2>2, <1>1, Longer DEF IndInv
<1>11. OneFrameIsIntact'
  <2>1. ASSUME NEW m \in DOMAIN sizes, OneFrame(m)
        PROVE  /\ Done(m)' => DeliveriesOf(m)' # {}
               /\ \A i, j \in DeliveriesOf(m)' : i = j
               /\ \A i \in DeliveriesOf(m)' :
                    /\ wire'[i].size = sizes[m]
                    /\ wire'[i].body.from = 0 /\ wire'[i].body.good = sizes[m]
    <3>1. CASE m = last
      <4>1. DeliveriesOf(last) = {} /\ pub.size = sizes[last]
        BY <1>2, <2>1, <3>1
      <4>2. DeliveriesOf(m)' = {Len(wire) + 1}
        BY <3>1, <1>1, <1>2, <1>4, <4>1, Longer DEF IndInv, DeliveriesOf
      <4>3. /\ wire'[Len(wire) + 1].size = pub.size
            /\ wire'[Len(wire) + 1].body = pub.body
        BY <1>1, <1>4, Longer DEF IndInv
      <4>4. pub.body.from = 0 /\ pub.body.good = sizes[last]
        BY <1>2, <2>1, <3>1
      <4>5. \A i \in DeliveriesOf(m)' : i = Len(wire) + 1
        BY <4>2
      <4>6. DeliveriesOf(m)' # {}
        BY <4>2
      <4>7. \A i \in DeliveriesOf(m)' :
              /\ wire'[i].size = sizes[m]
              /\ wire'[i].body.from = 0 /\ wire'[i].body.good = sizes[m]
        BY <3>1, <4>1, <4>3, <4>4, <4>5
      <4> QED
        BY <4>5, <4>6, <4>7
    <3>2. CASE m # last
      <4>1. m \in Nat /\ m < last
        BY <3>2, <1>2, <2>1, SMTT(20) DEF IndInv, TypeOK
      <4>2. DeliveriesOf(m)' = DeliveriesOf(m)
        BY <1>1, <1>2, <1>4, <4>1, Longer DEF IndInv, DeliveriesOf
      <4>3. \A i \in DeliveriesOf(m) : wire'[i] = wire[i]
        BY <1>1, Longer DEF DeliveriesOf, IndInv
      <4>4. Done(m)
        BY <4>1 DEF Done
      <4> QED
        BY <2>1, <4>2, <4>3, <4>4 DEF IndInv, OneFrameIsIntact
    <3> QED
      BY <3>1, <3>2
  <2>2. \A i, j \in DOMAIN wire' :
          i < j /\ wire'[j].body.of # 0 => wire'[i].body.of <= wire'[j].body.of
    <3> TAKE i, j \in DOMAIN wire'
    <3> HAVE i < j /\ wire'[j].body.of # 0
    <3>1. CASE j \in DOMAIN wire
      <4>1. i \in DOMAIN wire
        BY <3>1, <1>1, Longer DEF IndInv
      <4> QED
        BY <3>1, <4>1, <1>1, Longer DEF IndInv, OneFrameIsIntact
    <3>2. CASE j = Len(wire) + 1
      <4>1. i \in DOMAIN wire /\ wire'[j].body.of = last
        BY <3>2, <1>1, <1>2, <1>4, Longer DEF IndInv
      <4> QED
        BY <4>1, <1>1, Longer DEF IndInv, BegunInv
    <3> QED
      BY <3>1, <3>2, <1>1, Longer DEF IndInv
  <2> QED
    BY <1>1, <2>1, <2>2 DEF OneFrameIsIntact, OneFrame
<1>12. OneFrameFits'
  BY <1>1 DEF IndInv, OneFrameFits
<1> QED
  BY <1>6, <1>7, <1>8, <1>9, <1>10, <1>11, <1>12 DEF IndInv

-----------------------------------------------------------------------------
(* The other steps. *)

LEMMA PublishKeeps ==
  ASSUME IndInv, NEW n \in NameSize, Publish(n)
  PROVE  IndInv'
<1>1. TypeOK'
  BY NameAssumption DEF IndInv, TypeOK, Publish, sending, consumer
<1>2. /\ UNCHANGED <<sizes, left, stage, draft, tag_size, wire, overrun>>
      /\ client = "publish" /\ client' = "header" /\ stage = "idle"
  BY DEF Publish, Idle, sending, consumer
<1>3. \A m : Done(m)' = Done(m) /\ OneFrame(m)' = OneFrame(m)
             /\ DeliveriesOf(m)' = DeliveriesOf(m)
  BY <1>2 DEF Done, OneFrame, DeliveriesOf
<1>4. OneFrameIsIntact'
  BY <1>2, <1>3 DEF IndInv, OneFrameIsIntact
<1> QED
  BY <1>1, <1>2, <1>4 DEF IndInv, WiresRight, ClientInv, BegunInv, SendingInv,
     DraftInv, OneFrameFits

LEMMA HeaderKeeps ==
  ASSUME IndInv, NEW s \in Size, ProcessHeaderFrame(s)
  PROVE  IndInv'
<1>0. PICK new \in Nat : new = Len(sizes) + 1
  BY DEF IndInv, TypeOK
<1>1. /\ client = "header" /\ ~overrun /\ stage = "idle"
      /\ pub' = [pub EXCEPT !.size = s]
      /\ sizes' = Append(sizes, s) /\ left' = s /\ s \in Nat
      /\ client' = IF s = 0 THEN "publish" ELSE "body"
      /\ UNCHANGED <<stage, draft, tag_size, tagging, wire, overrun>>
  BY SizeAssumption DEF ProcessHeaderFrame, Idle, sending, consumer
<1>2. /\ Len(sizes) \in Nat /\ DOMAIN sizes = 1 .. Len(sizes)
      /\ Len(sizes') = new /\ DOMAIN sizes' = 1 .. new
      /\ sizes'[new] = s
      /\ \A m \in DOMAIN sizes : sizes'[m] = sizes[m]
  BY <1>0, <1>1 DEF IndInv, TypeOK
<1>3. /\ pub'.size = s
      /\ pub' \in [name_size : 0 .. 255, size : Nat, body : Bodies]
  BY <1>1 DEF IndInv, TypeOK
<1>4. TypeOK'
  <2>1. sizes' \in Seq(Size)
    BY <1>1 DEF IndInv, TypeOK
  <2>2. /\ client' \in {"publish", "header", "body"}
        /\ left' \in Nat
    BY <1>1
  <2>3. /\ tag_size' \in TagSizes /\ tagging' \in BOOLEAN
        /\ stage' \in {"idle", "announce", "say", "copy", "write"}
        /\ draft' \in [announced : TagSizes, said : TagSizes, copied : TagSizes,
                      raced : BOOLEAN]
        /\ overrun' \in BOOLEAN
        /\ wire' \in Seq(Writes)
    BY <1>1 DEF IndInv, TypeOK
  <2> QED
    BY <1>3, <2>1, <2>2, <2>3 DEF TypeOK
<1>5. DeliveriesOf(new)' = {}
  <2>1. \A i \in DOMAIN wire : wire[i].body.of \in Nat
    BY BodyOf DEF IndInv
  <2>2. \A i \in DOMAIN wire : wire[i].body.of <= Len(sizes)
    BY DEF IndInv, BegunInv
  <2>3. \A i \in DOMAIN wire : wire[i].body.of # new
    BY <1>0, <1>2, <2>1, <2>2
  <2>4. {i \in DOMAIN wire' : wire'[i].body.of = new} = {}
    BY <1>1, <2>3
  <2> QED
    BY <2>4 DEF DeliveriesOf
<1>6. ClientInv'
  <2>1. client' # "body" => left' = 0
    BY <1>1
  <2>2. client' = "body" => s > 0
    BY <1>1
  <2>3. DeliveriesOf(Len(sizes))' = {}
    BY <1>2, <1>5
  <2> QED
    BY <1>0, <1>1, <1>2, <1>3, <2>1, <2>2, <2>3 DEF ClientInv
<1>7. BegunInv'
  <2>1. \A i \in DOMAIN wire : wire[i].body.of \in Nat
    BY BodyOf DEF IndInv
  <2>2. \A i \in DOMAIN wire : wire[i].body.of <= new
    BY <1>0, <1>2, <2>1 DEF IndInv, BegunInv
  <2> QED
    BY <1>1, <1>2, <2>2 DEF BegunInv
<1>8. OneFrameIsIntact'
  <2>1. ASSUME NEW m \in DOMAIN sizes', OneFrame(m)'
        PROVE  /\ Done(m)' => DeliveriesOf(m)' # {}
               /\ \A i, j \in DeliveriesOf(m)' : i = j
               /\ \A i \in DeliveriesOf(m)' :
                    /\ wire[i].size = sizes'[m]
                    /\ wire[i].body.from = 0 /\ wire[i].body.good = sizes'[m]
    <3>1. CASE m = new
      <4>1. s # 0
        BY <1>1, <1>2, <2>1, <3>1, FrameAssumption DEF OneFrame, MAX_FRAME_SIZE
      <4>2. ~Done(m)'
        BY <1>1, <1>2, <3>1, <4>1 DEF Done
      <4>3. DeliveriesOf(m)' = {}
        BY <1>5, <3>1 DEF DeliveriesOf
      <4> QED
        BY <4>2, <4>3
    <3>2. CASE m # new
      <4>1. m \in DOMAIN sizes /\ sizes'[m] = sizes[m] /\ OneFrame(m)
        BY <1>0, <1>2, <2>1, <3>2 DEF OneFrame
      <4>2. Done(m) /\ DeliveriesOf(m)' = DeliveriesOf(m)
        BY <1>1 DEF Done, DeliveriesOf
      <4> QED
        BY <4>1, <4>2 DEF IndInv, OneFrameIsIntact
    <3> QED
      BY <3>1, <3>2
  <2> QED
    BY <1>1, <2>1 DEF OneFrameIsIntact, IndInv
<1>9. OneFrameFits'
  BY <1>1 DEF OneFrameFits
<1> QED
  BY <1>1, <1>4, <1>6, <1>7, <1>8, <1>9 DEF IndInv, WiresRight, SendingInv, DraftInv

\* A body that does not fit is larger than any frame its publisher sends.
LEMMA OverrunKeeps ==
  ASSUME IndInv, OverrunBody
  PROVE  IndInv'
<1>1. /\ client = "body" /\ ~Fits /\ stage = "idle"
      /\ UNCHANGED <<publisher, pub, stage, draft, tag_size, tagging, wire>>
      /\ overrun' = TRUE
  BY DEF OverrunBody, Idle, sending, consumer
<1>2. /\ Len(sizes) \in Nat \ {0} /\ DOMAIN sizes = 1 .. Len(sizes)
      /\ sizes[Len(sizes)] = pub.size /\ pub.size \in Nat
  BY <1>1 DEF IndInv, TypeOK, ClientInv
<1>3. pub.size > FrameMax - 8
  BY <1>1, <1>2, FrameAssumption DEF Fits, MAX_BODY_SIZE, MAX_FRAME_SIZE
<1>4. OneFrameFits'
  BY <1>1, <1>2, <1>3 DEF OneFrameFits, publisher
<1>5. TypeOK'
  BY <1>1 DEF IndInv, TypeOK, publisher
<1>6. (WiresRight /\ ClientInv /\ BegunInv /\ SendingInv /\ DraftInv
         /\ OneFrameIsIntact)'
  BY <1>1 DEF IndInv, WiresRight, ClientInv, BegunInv, SendingInv, DraftInv,
     OneFrameIsIntact, OneFrame, Done, DeliveriesOf, publisher
<1> QED
  BY <1>4, <1>5, <1>6 DEF IndInv

LEMMA NextInv == IndInv /\ [Next]_vars => IndInv'
<1> SUFFICES ASSUME IndInv, [Next]_vars PROVE IndInv'
  OBVIOUS
<1>1. CASE \E n \in NameSize : Publish(n)
  BY <1>1, PublishKeeps
<1>2. CASE \E s \in Size : ProcessHeaderFrame(s)
  BY <1>2, HeaderKeeps
<1>3. CASE ProcessBodyFrame
  BY <1>3, BodyKeeps
<1>4. CASE OverrunBody
  BY <1>4, OverrunKeeps
<1>5. ASSUME NEW f \in Constant, Answer(f) PROVE IndInv'
  BY <1>5, ConstantRight, AnswerKeeps DEF Answer, IndInv, TypeOK, consumer
<1>6. ASSUME NEW u \in Unwritten, AnswerDeclare(u) PROVE IndInv'
  <2>1. Right(build_queue_declare_ok(u), MAX_FRAME_SIZE)
    BY NameAssumption, DeclareOkRight
  <2> QED
    BY <1>6, <2>1, AnswerKeeps DEF AnswerDeclare, Answer, IndInv, TypeOK, consumer
<1>7. CASE AnswerConsume
  <2>1. Right(build_basic_consume_ok(tag_size), MAX_FRAME_SIZE)
    BY ConsumeOkRight DEF IndInv, TypeOK
  <2> QED
    BY <1>7, <2>1, AnswerKeeps DEF AnswerConsume
<1>8. CASE DefineTag
  BY <1>8, DefineKeeps
<1>9. CASE AnnounceTagSize \/ SayTagSize \/ CopyTag
  BY <1>9, ReadsKeep
<1>10. CASE WriteDelivery
  BY <1>10, DeliveryKeeps
<1>11. CASE UNCHANGED vars
  <2>1. UNCHANGED <<publisher, client, sizes, left, pub, stage, draft, tag_size,
                    tagging, wire, overrun>>
    BY <1>11 DEF vars, publisher, sending, consumer
  <2>2. TypeOK'
    BY <2>1 DEF IndInv, TypeOK
  <2>3. DraftInv'
    BY <2>1 DEF IndInv, DraftInv
  <2> QED
    BY <2>1, <2>2, <2>3, Aside DEF IndInv
<1> QED
  BY <1>1, <1>2, <1>3, <1>4, <1>5, <1>6, <1>7, <1>8, <1>9, <1>10, <1>11
  DEF Next, Quiescent

-----------------------------------------------------------------------------
(* The theorems. *)

\* The invariant holds: Frame.c's buffers and counts, message by message.
THEOREM Invariance == Spec => []IndInv
BY InitInv, NextInv, PTL DEF Spec

\* Every variable of the way of a message has its type.
THEOREM TypeCorrect == Spec => []TypeOK
<1>1. IndInv => TypeOK
  BY DEF IndInv
<1> QED
  BY <1>1, Invariance, PTL

\* Frame.c:687-1023, Basic.c:75.  Whatever the names and sizes, and wherever the
\* consumer's thread is: a frame has not the payload it says it has exactly if it
\* is of a delivery during the reads of which the tag was first defined.
THEOREM EveryFrameRight == Spec => []FramedRightly
<1>1. IndInv => FramedRightly
  <2> SUFFICES ASSUME IndInv, NEW i \in DOMAIN wire
               PROVE  (\A j \in DOMAIN wire[i].frames : RightFrame(wire[i].frames[j]))
                        <=> ~wire[i].raced
    BY DEF FramedRightly
  <2>1. GoodWrite(wire[i])
    BY DEF IndInv, WiresRight
  <2>2. CASE \E f : wire[i].frames = <<f>> /\ Right(f, wire[i].buffer)
                      /\ ~wire[i].raced
    BY <2>2 DEF Right
  <2>3. ASSUME NEW f, NEW g, NEW h, wire[i].frames = <<f, g, h>>,
               RightFrame(f) <=> ~wire[i].raced, RightFrame(g), RightFrame(h)
        PROVE  (\A j \in DOMAIN wire[i].frames : RightFrame(wire[i].frames[j]))
                 <=> ~wire[i].raced
    <3> DEFINE frames == wire[i].frames
    <3>1. /\ DOMAIN frames = {1, 2, 3}
          /\ frames[1] = f /\ frames[2] = g /\ frames[3] = h
      BY <2>3
    <3> HIDE DEF frames
    <3>2. (\A j \in DOMAIN frames : RightFrame(frames[j])) <=> RightFrame(f)
      BY <2>3, <3>1
    <3> QED
      BY <2>3, <3>2 DEF frames
  <2> QED
    BY <2>1, <2>2, <2>3 DEF GoodWrite, Right
<1> QED
  BY <1>1, Invariance, PTL

\* Frame.c:596-685.  Every write fits the buffer it is put together in.
THEOREM BuffersSuffice == Spec => []FitsItsBuffer
<1>1. IndInv => FitsItsBuffer
  <2> SUFFICES ASSUME IndInv, NEW i \in DOMAIN wire
               PROVE  WriteSize(wire[i]) <= wire[i].buffer
    BY DEF FitsItsBuffer
  <2>1. GoodWrite(wire[i])
    BY DEF IndInv, WiresRight
  <2>2. CASE \E f : wire[i].frames = <<f>> /\ Right(f, wire[i].buffer)
    BY <2>2 DEF WriteSize, Right, Sized
  <2>3. ASSUME NEW f, NEW g, NEW h,
               wire[i].frames = <<f, g, h>>,
               Sized(f, MAX_FRAME_SIZE), Sized(g, MAX_FRAME_SIZE - 8),
               Sized(h, MAX_FRAME_SIZE + 8),
               wire[i].buffer = 3 * MAX_FRAME_SIZE
        PROVE  WriteSize(wire[i]) <= wire[i].buffer
    <3>1. /\ FrameSize(f) \in Nat /\ FrameSize(g) \in Nat /\ FrameSize(h) \in Nat
          /\ FrameSize(f) <= 3000 /\ FrameSize(g) <= 2992 /\ FrameSize(h) <= 3008
      BY <2>3 DEF Sized, Frames, FrameSize, MAX_FRAME_SIZE
    <3>2. WriteSize(wire[i]) = FrameSize(f) + FrameSize(g) + FrameSize(h)
      BY <2>3 DEF WriteSize
    <3> QED
      BY <2>3, <3>1, <3>2 DEF MAX_FRAME_SIZE
  <2> QED
    BY <2>1, <2>2, <2>3 DEF GoodWrite, Right
<1> QED
  BY <1>1, Invariance, PTL

\* Frame.c:212-234,1029-1035.  A message that takes one frame is delivered
\* once, whole, in its turn, whatever was published before it.
THEOREM OneFrameDelivered == Spec => []OneFrameIsIntact
<1>1. IndInv => OneFrameIsIntact
  BY DEF IndInv
<1> QED
  BY <1>1, Invariance, PTL

\* Frame.c:1033.  Only a message larger than a frame is copied too far.
THEOREM OneFrameStaysInside == Spec => []OneFrameFits
<1>1. IndInv => OneFrameFits
  BY DEF IndInv
<1> QED
  BY <1>1, Invariance, PTL
=============================================================================
