--------------------------- MODULE SessionProofs ---------------------------
(***************************************************************************)
(* Proofs about Session, for every set of frames and names and every       *)
(* number of frames sent.                                                  *)
(***************************************************************************)
EXTENDS Session, FiniteSetTheorems, TLAPS

-----------------------------------------------------------------------------
(* What decoding raises and answers. *)

LEMMA HeaderFlagsType ==
  ASSUME NEW f PROVE HeaderFlags(f) \subseteq Flags
BY DEF HeaderFlags, Flags, ERRORS

LEMMA ArgumentErrorType ==
  ASSUME NEW e \in DOMAIN ArgumentError PROVE ArgumentError[e] \in Flags
BY DEF ArgumentError, Flags, ERRORS

LEMMA MethodFlagsType ==
  ASSUME NEW f PROVE MethodFlags(f) \subseteq Flags
BY ArgumentErrorType DEF MethodFlags, Flags, ERRORS

LEMMA PayloadFlagsType ==
  ASSUME NEW f PROVE PayloadFlags(f) \subseteq Flags
BY MethodFlagsType DEF PayloadFlags, Flags, WARNINGS

LEMMA EndFlagsType ==
  ASSUME NEW f PROVE EndFlags(f) \subseteq Flags
BY DEF EndFlags, Flags, ERRORS

LEMMA ScrapFlagsType ==
  ASSUME NEW f, NEW raised \in ScrapFlags(f) PROVE raised \subseteq Flags
BY PayloadFlagsType, ArgumentErrorType DEF ScrapFlags, Flags, ERRORS

-----------------------------------------------------------------------------
(* The inductive invariant. *)

\* A peer that left a frame unfinished sends no other.
CutInv == arrived # 3 => peer # "open"

Accepted(f) ==
  (HeaderFlags(f) \cup PayloadFlags(f) \cup EndFlags(f)) \cap ERRORS = {}

\* What the thread knows of the frame it is at.  A frame of which only a part
\* has arrived by then never becomes whole.
FrameInv ==
  /\ pc = "recv_payload" =>
       /\ next <= Len(sent)
       /\ Whole(1) => HeaderFlags(frame) \cap ERRORS = {}
  /\ pc = "recv_end" =>
       /\ next <= Len(sent)
       /\ Whole(2) => (HeaderFlags(frame) \cup PayloadFlags(frame))
                        \cap ERRORS = {}
  /\ pc \in {"process", "reply", "lookup", "deliver"} =>
       Whole(3) /\ Accepted(frame)

\* The handler it is in is one for that frame.
HandlerInv ==
  /\ pc = "reply" => ReplyTo(frame) # "none"
  /\ pc \in {"lookup", "deliver"} => frame.type = BODY_FRAME

IndInv == TypeOK /\ CutInv /\ FrameInv /\ HandlerInv /\ OnlyWholeFrames

-----------------------------------------------------------------------------
(* Every step keeps each part of the invariant. *)

LEMMA InitIndInv == Init => IndInv
<1> SUFFICES ASSUME Init PROVE IndInv
  OBVIOUS
<1>1. TypeOK
  <2>1. pub \in [queue_name : Name \cup {NoName}, size : Nat, body : Nat]
    BY DEF Init
  <2>2. /\ greetings \in Seq(BOOLEAN) /\ sent \in Seq(Frame)
        /\ welcome \in Seq({"protocol_header", "connection_start"})
        /\ replies \in Seq([frame : Nat, what : {ReplyTo(f) : f \in Frame}])
        /\ published \in Seq([queue_name : Name \cup {NoName}, size : Nat,
                              body : Nat, delivered : BOOLEAN])
    BY DEF Init
  <2>3. next \in Nat \ {0} /\ arrived \in 0 .. 3
    BY DEF Init
  <2>4. flags \subseteq Flags /\ declared \subseteq Name
    BY DEF Init
  <2>5. pc \in Labels
    BY DEF Init, Labels
  <2>6. peer \in {"open", "shut", "reset"} /\ scrap \in BOOLEAN
        /\ elsewhere \in BOOLEAN
    BY DEF Init
  <2>7. QED
    BY <2>1, <2>2, <2>3, <2>4, <2>5, <2>6 DEF TypeOK
<1>2. CutInv /\ FrameInv /\ HandlerInv
  BY DEF Init, CutInv, FrameInv, HandlerInv
<1>3. OnlyWholeFrames
  BY DEF Init, OnlyWholeFrames
<1>4. QED
  BY <1>1, <1>2, <1>3 DEF IndInv

LEMMA LabelsListed ==
  Labels = {"greet", "send_protocol_header", "greet_again", "send_start",
            "process", "reply", "lookup", "deliver", "close", "closing",
            "recv_header", "recv_payload", "recv_end", "freed", "exited"}
BY DEF Labels, Piece, Over

LEMMA FrameInSent ==
  ASSUME TypeOK, next <= Len(sent)
  PROVE  frame \in Frame /\ frame.queue_name \in Name /\ frame.body_size \in Nat
BY FrameAssumption DEF TypeOK, frame

LEMMA TypeStep ==
  ASSUME TypeOK, FrameInv, [Next]_vars
  PROVE  TypeOK'
<1> USE DEF TypeOK, vars, input, thread, output
<1>0. CASE UNCHANGED vars \/ Quiescent
  BY <1>0 DEF Quiescent
<1>1. CASE \E right \in BOOLEAN : PeerGreets(right)
  BY <1>1 DEF PeerGreets
<1>2. CASE \E f \in Frame : PeerSends(f)
  BY <1>2 DEF PeerSends
<1>3. CASE \E f \in Frame, pieces \in 0 .. 2, some \in BOOLEAN :
             PeerCuts(f, pieces, some)
  BY <1>3 DEF PeerCuts
<1>4. CASE PeerShuts \/ PeerResets
  BY <1>4 DEF PeerShuts, PeerResets
<1>5. CASE Elsewhere
  BY <1>5 DEF Elsewhere, DeclaredElsewhere, RepliedElsewhere
<1>6. CASE ReceiveProtocolHeader \/ ReceiveProtocolHeaderAgain
  BY <1>6, LabelsListed
     DEF ReceiveProtocolHeader, ReceiveProtocolHeaderAgain, Greet, Continue,
         End, Throw, Flags, ERRORS
<1>7. CASE SendProtocolHeader \/ SendConnectionStart
  <2>1. /\ \E what \in {"protocol_header", "connection_start"} :
             welcome' = Append(welcome, what)
        /\ pc' \in {"greet_again", "recv_header"}
        /\ UNCHANGED <<input, next, flags, pub, declared, replies, published>>
    BY <1>7 DEF SendProtocolHeader, SendConnectionStart, Welcomes
  <2>2. welcome' \in Seq({"protocol_header", "connection_start"})
    BY <2>1
  <2>3. pc' \in Labels
    BY <2>1, LabelsListed
  <2>4. QED
    BY <2>1, <2>2, <2>3
<1>8. CASE ReceiveHeader
  BY <1>8, LabelsListed, HeaderFlagsType
     DEF ReceiveHeader, Receive, Continue, End, Throw, Flags
<1>9. CASE ReceiveEmptyPayload
  BY <1>9, LabelsListed DEF ReceiveEmptyPayload, End, Flags
<1>10. CASE ReceivePayload
  <2>1. PayloadFlags(frame) \subseteq Flags
    BY PayloadFlagsType
  <2>2. \A raised \in ScrapFlags(frame) : raised \subseteq Flags
    BY ScrapFlagsType
  <2>3. "CONNECTION_ENDED" \in Flags
    BY DEF Flags
  <2>4. flags' \subseteq Flags /\ pc' \in Labels
    BY <1>10, <2>1, <2>2, <2>3, LabelsListed
       DEF ReceivePayload, Receive, Continue, End, Throw
  <2>5. UNCHANGED <<input, next, pub, declared, output>>
    BY <1>10 DEF ReceivePayload, Receive
  <2>6. QED
    BY <2>4, <2>5
<1>11. CASE ReceiveEnd
  BY <1>11, LabelsListed, EndFlagsType
     DEF ReceiveEnd, Receive, Continue, End, Throw, Flags
<1>12. CASE ProcessConnection \/ ProcessTuneOk \/ ProcessChannel \/ ProcessAck
  BY <1>12, LabelsListed
     DEF ProcessConnection, ProcessTuneOk, ProcessChannel, ProcessAck, Proceed
<1>13. CASE ProcessDeclare
  BY <1>13, LabelsListed, FrameInSent
     DEF ProcessDeclare, Handles, FrameInv, Whole, Flags, WARNINGS
<1>14. CASE ProcessConsume
  BY <1>14, LabelsListed DEF ProcessConsume, End, Flags, ERRORS
<1>15. CASE ProcessPublish
  <2>1. frame.queue_name \in Name
    BY <1>15, FrameInSent DEF ProcessPublish, Handles, FrameInv, Whole
  <2>2. pub' \in [queue_name : Name \cup {NoName}, size : Nat, body : Nat]
    BY <1>15, <2>1 DEF ProcessPublish
  <2>3. QED
    BY <1>15, <2>2, LabelsListed DEF ProcessPublish, Proceed
<1>16. CASE ProcessHeaderFrame
  <2>1. frame.body_size \in Nat
    BY <1>16, FrameInSent DEF ProcessHeaderFrame, FrameInv, Whole
  <2>2. pub' \in [queue_name : Name \cup {NoName}, size : Nat, body : Nat]
    BY <1>16, <2>1 DEF ProcessHeaderFrame
  <2>3. "NOT_EXPECTED_CLASS" \in Flags
    BY DEF Flags, ERRORS
  <2>4. flags' \subseteq Flags /\ pc' \in Labels /\ next' \in Nat \ {0}
    BY <1>16, <2>3, LabelsListed DEF ProcessHeaderFrame, Proceed, End
  <2>5. UNCHANGED <<input, declared, output>>
    BY <1>16 DEF ProcessHeaderFrame
  <2>6. QED
    BY <2>2, <2>4, <2>5
<1>17. CASE ProcessBodyFrame
  BY <1>17, LabelsListed DEF ProcessBodyFrame
<1>18. CASE PublishNowhere \/ PublishTo \/ Deliver \/ DeliverFails
  <2>1. CASE \E delivered \in BOOLEAN :
               /\ Publication(delivered)
               /\ UNCHANGED <<input, pub, declared, welcome, replies>>
               /\ \/ Proceed({}) \/ Proceed({"QUEUE_NOT_FOUND_OR_EMPTY"})
    <3>1. PICK delivered \in BOOLEAN : Publication(delivered)
      BY <2>1
    <3>2. published' \in Seq([queue_name : Name \cup {NoName}, size : Nat,
                              body : Nat, delivered : BOOLEAN])
      BY <3>1 DEF Publication
    <3>3. "QUEUE_NOT_FOUND_OR_EMPTY" \in Flags
      BY DEF Flags, WARNINGS
    <3>4. flags' \subseteq Flags /\ pc' \in Labels /\ next' \in Nat \ {0}
      BY <2>1, <3>3, LabelsListed DEF Proceed
    <3>5. QED
      BY <2>1, <3>2, <3>4
  <2>2. CASE PublishTo \/ DeliverFails
    BY <2>2, LabelsListed DEF PublishTo, DeliverFails, Throw
  <2>3. QED
    BY <1>18, <2>1, <2>2 DEF PublishNowhere, Deliver
<1>19. CASE ProcessHeartbeat \/ ProcessUnknownType
  <2>1. {"HEARTBEAT_IGNORED", "INVALID_FRAME_TYPE"} \subseteq Flags
    BY DEF Flags, ERRORS, WARNINGS
  <2>2. flags' \subseteq Flags /\ pc' \in Labels /\ next' \in Nat \ {0}
    BY <1>19, <2>1, LabelsListed
       DEF ProcessHeartbeat, ProcessUnknownType, Proceed, End
  <2>3. QED
    BY <1>19, <2>2 DEF ProcessHeartbeat, ProcessUnknownType
<1>20. CASE Close
  BY <1>20, LabelsListed DEF Close, End, Flags
<1>24. CASE Finish
  BY <1>24, LabelsListed DEF Finish
<1>21. CASE Reply
  BY <1>21, LabelsListed, FrameInSent
     DEF Reply, FrameInv, Whole, Proceed
<1>22. CASE \E label \in {"send_protocol_header", "send_start", "reply"} :
              WriteFails(label)
  BY <1>22, LabelsListed DEF WriteFails, Throw
<1>23. QED
  BY <1>0, <1>1, <1>2, <1>3, <1>4, <1>5, <1>6, <1>7, <1>8, <1>9, <1>10, <1>11,
     <1>12, <1>13, <1>14, <1>15, <1>16, <1>17, <1>18, <1>19, <1>20, <1>21, <1>22,
     <1>24
     DEF Next, Peer, Read, Process, Write

\* The steps of the thread, by what they do to the frame it is at: go on to
\* the next one, pass it from handler to handler, or neither.
AtFrame == {"process", "reply", "lookup", "deliver"}
Framed == AtFrame \cup {"recv_payload", "recv_end"}
Passes == pc \in AtFrame /\ pc' \notin Framed /\ next' = next + 1
Works == pc \in AtFrame /\ pc' \in AtFrame /\ next' = next
Stands == pc' \notin Framed /\ next' = next
Waits == UNCHANGED <<pc, next>>

\* What the peer did.
fromPeer == <<peer, greetings, sent, arrived, scrap>>

LEMMA StepKinds ==
  ASSUME [Next]_vars
  PROVE  \/ Peer
         \/ ReceiveHeader \/ ReceivePayload \/ ReceiveEnd
         \/ (Waits \/ Passes \/ Works \/ Stands) /\ UNCHANGED fromPeer
<1> USE DEF vars, input, fromPeer, thread, output, AtFrame, Framed, Waits, Passes, Works,
      Stands, Proceed, End, Throw
<1>0. CASE UNCHANGED vars \/ Quiescent \/ Elsewhere
  BY <1>0 DEF Quiescent, Elsewhere, DeclaredElsewhere, RepliedElsewhere
<1>1. CASE ReceiveProtocolHeader \/ ReceiveProtocolHeaderAgain
  BY <1>1
     DEF ReceiveProtocolHeader, ReceiveProtocolHeaderAgain, Greet, Continue
<1>2. CASE SendProtocolHeader \/ SendConnectionStart \/ ReceiveEmptyPayload
  BY <1>2
     DEF SendProtocolHeader, SendConnectionStart, Welcomes, ReceiveEmptyPayload
<1>3. CASE ProcessConnection \/ ProcessTuneOk \/ ProcessChannel \/ ProcessAck
  BY <1>3
     DEF ProcessConnection, ProcessTuneOk, ProcessChannel, ProcessAck, Handles
<1>4. CASE ProcessDeclare \/ ProcessConsume \/ ProcessPublish
  BY <1>4 DEF ProcessDeclare, ProcessConsume, ProcessPublish, Handles
<1>5. CASE ProcessHeaderFrame \/ ProcessBodyFrame \/ ProcessHeartbeat
             \/ ProcessUnknownType
  BY <1>5 DEF ProcessHeaderFrame, ProcessBodyFrame, ProcessHeartbeat,
              ProcessUnknownType
<1>6. CASE PublishNowhere \/ PublishTo \/ Deliver \/ DeliverFails
  BY <1>6 DEF PublishNowhere, PublishTo, Deliver, DeliverFails
<1>7. CASE Reply \/ Close \/ Finish
  BY <1>7 DEF Reply, Close, Finish
<1>8. CASE \E label \in {"send_protocol_header", "send_start", "reply"} :
             WriteFails(label)
  BY <1>8 DEF WriteFails
<1>9. QED
  BY <1>0, <1>1, <1>2, <1>3, <1>4, <1>5, <1>6, <1>7, <1>8
     DEF Next, Read, Process, Write

LEMMA CutStep ==
  ASSUME TypeOK, CutInv, [Next]_vars
  PROVE  CutInv'
<1>1. CASE Peer
  BY <1>1 DEF TypeOK, CutInv, Peer, PeerGreets, PeerSends, PeerCuts, PeerShuts,
              PeerResets
<1>2. CASE UNCHANGED fromPeer
  BY <1>2 DEF CutInv, input, fromPeer
<1>3. CASE ReceiveHeader \/ ReceivePayload \/ ReceiveEnd
  BY <1>3, <1>2
     DEF ReceiveHeader, ReceivePayload, ReceiveEnd, Receive, input, fromPeer
<1>4. QED
  BY <1>1, <1>2, <1>3, StepKinds

\* What the peer does leaves the frames it sent, and how much of them is
\* there, as they are.
LEMMA PeerKeeps ==
  ASSUME TypeOK, CutInv, Peer
  PROVE  /\ UNCHANGED <<pc, next>>
         /\ Len(sent) <= Len(sent')
         /\ \A k \in 1 .. Len(sent) :
              /\ sent'[k] = sent[k]
              /\ k < Len(sent) \/ arrived = 3
                   <=> k < Len(sent') \/ arrived' = 3
         /\ next <= Len(sent) => \A p \in 1 .. 3 : Whole(p)' <=> Whole(p)
<1> USE DEF TypeOK, CutInv, thread, input, fromPeer, Whole
<1>1. CASE \E right \in BOOLEAN : PeerGreets(right)
  BY <1>1 DEF PeerGreets
<1>2. CASE \E f \in Frame : PeerSends(f)
  BY <1>2 DEF PeerSends
<1>3. CASE \E f \in Frame, pieces \in 0 .. 2, some \in BOOLEAN :
             PeerCuts(f, pieces, some)
  BY <1>3 DEF PeerCuts
<1>4. CASE PeerShuts \/ PeerResets
  BY <1>4 DEF PeerShuts, PeerResets
<1>5. QED
  BY <1>1, <1>2, <1>3, <1>4 DEF Peer

LEMMA FrameStep ==
  ASSUME TypeOK, CutInv, FrameInv, [Next]_vars
  PROVE  FrameInv'
<1>1. CASE Peer
  <2>1. pc \in Framed => next <= Len(sent) /\ next \in 1 .. Len(sent)
    BY DEF Framed, AtFrame, FrameInv, Whole, TypeOK
  <2>2. UNCHANGED <<pc, next>>
    BY <1>1, PeerKeeps
  <2>3. next <= Len(sent) => /\ frame' = frame /\ next <= Len(sent')
                             /\ Whole(1)' <=> Whole(1)
                             /\ Whole(2)' <=> Whole(2)
                             /\ Whole(3)' <=> Whole(3)
    BY <1>1, <2>2, PeerKeeps DEF frame, TypeOK
  <2>4. QED
    BY <2>1, <2>2, <2>3 DEF FrameInv, Framed, AtFrame
<1>2. CASE (Waits \/ Passes \/ Works \/ Stands) /\ UNCHANGED fromPeer
  <2>1. CASE Waits \/ Works
    BY <1>2, <2>1
       DEF FrameInv, Waits, Works, AtFrame, input, fromPeer, frame, Whole
  <2>2. CASE Passes \/ Stands
    BY <2>2 DEF FrameInv, Passes, Stands, Framed, AtFrame
  <2>3. QED
    BY <1>2, <2>1, <2>2
<1>3. CASE ReceiveHeader
  BY <1>3
     DEF ReceiveHeader, Receive, Continue, End, Throw, Piece, FrameInv, Stops,
         TypeOK, input, fromPeer, Whole, Part, Nothing, frame
<1>4. CASE ReceivePayload
  BY <1>4
     DEF ReceivePayload, Receive, Continue, End, Throw, Piece, FrameInv, Stops,
         TypeOK, input, fromPeer, Whole, Part, Nothing, frame
<1>5. CASE ReceiveEnd
  BY <1>5
     DEF ReceiveEnd, Receive, Continue, End, Throw, Piece, FrameInv, Stops,
         TypeOK, input, fromPeer, Whole, Part, Nothing, frame, Accepted
<1>6. QED
  BY <1>1, <1>2, <1>3, <1>4, <1>5, StepKinds

LEMMA WholeStep ==
  ASSUME TypeOK, CutInv, FrameInv, OnlyWholeFrames, [Next]_vars
  PROVE  OnlyWholeFrames'
<1> USE DEF OnlyWholeFrames, Accepted
<1>1. CASE Peer
  <2>1. UNCHANGED next
    BY <1>1, PeerKeeps
  <2>2. ASSUME NEW k \in 1 .. next - 1
        PROVE  /\ k < Len(sent') \/ (k = Len(sent') /\ arrived' = 3)
               /\ Accepted(sent'[k])
    <3>1. k \in 1 .. Len(sent) /\ (k < Len(sent) \/ arrived = 3)
      BY DEF TypeOK
    <3>2. k <= Len(sent') /\ sent'[k] = sent[k]
      BY <1>1, <3>1, PeerKeeps DEF TypeOK
    <3>3. k < Len(sent') \/ arrived' = 3
      BY <1>1, <3>1, PeerKeeps
    <3>4. Len(sent') \in Nat /\ k \in Nat
      BY TypeStep DEF TypeOK
    <3>5. QED
      BY <3>2, <3>3, <3>4
  <2>3. QED
    BY <2>1, <2>2
<1>2. CASE UNCHANGED next /\ UNCHANGED fromPeer
  BY <1>2 DEF input, fromPeer
<1>3. CASE Passes /\ UNCHANGED fromPeer
  <2>1. Whole(3) /\ Accepted(frame)
    BY <1>3 DEF Passes, AtFrame, FrameInv
  <2>2. ASSUME NEW k \in 1 .. next
        PROVE  /\ k < Len(sent) \/ (k = Len(sent) /\ arrived = 3)
               /\ Accepted(sent[k])
    <3>1. CASE k = next
      BY <3>1, <2>1 DEF Whole, frame, TypeOK
    <3>2. CASE k # next
      BY <3>2 DEF TypeOK
    <3>3. QED
      BY <3>1, <3>2
  <2>3. next' - 1 = next /\ UNCHANGED <<sent, arrived>>
    BY <1>3 DEF Passes, input, fromPeer, TypeOK
  <2>4. QED
    BY <2>2, <2>3
<1>4. CASE ReceiveHeader \/ ReceivePayload \/ ReceiveEnd
  BY <1>4, <1>2
     DEF ReceiveHeader, ReceivePayload, ReceiveEnd, Receive, input, fromPeer
<1>5. QED
  BY <1>1, <1>2, <1>3, <1>4, StepKinds DEF Waits, Works, Stands

LEMMA HandlerStep ==
  ASSUME TypeOK, CutInv, FrameInv, HandlerInv, [Next]_vars
  PROVE  HandlerInv'
<1> USE DEF HandlerInv
<1>1. CASE UNCHANGED <<pc, next>> /\ (pc \in AtFrame => frame' = frame)
  BY <1>1 DEF AtFrame
<1>2. CASE Peer
  <2>1. pc \in AtFrame => next \in 1 .. Len(sent)
    BY DEF AtFrame, FrameInv, Whole, TypeOK
  <2>2. UNCHANGED <<pc, next>> /\ (pc \in AtFrame => frame' = frame)
    BY <1>2, <2>1, PeerKeeps DEF frame
  <2>3. QED
    BY <1>1, <2>2
<1>3. CASE pc' \notin {"reply", "lookup", "deliver"}
  BY <1>3
<1>4. CASE ProcessConnection \/ ProcessChannel \/ ProcessDeclare \/ ProcessConsume
  BY <1>4, <1>3
     DEF ProcessConnection, ProcessChannel, ProcessDeclare, ProcessConsume,
         Handles, Is, ReplyTo, frame, input, fromPeer, End
<1>5. CASE ProcessBodyFrame \/ PublishTo
  BY <1>5 DEF ProcessBodyFrame, PublishTo, frame, input, fromPeer
<1>6. CASE UNCHANGED vars \/ Quiescent \/ Elsewhere
  BY <1>6, <1>1 DEF vars, input, fromPeer, thread, Quiescent, Elsewhere,
     DeclaredElsewhere, RepliedElsewhere, frame
<1>7. CASE Read
  BY <1>7, <1>3
     DEF Read, ReceiveProtocolHeader, ReceiveProtocolHeaderAgain, Greet,
         ReceiveHeader, ReceiveEmptyPayload, ReceivePayload, ReceiveEnd,
         Receive, Continue, End, Throw
<1>8. CASE \/ ProcessTuneOk \/ ProcessAck \/ ProcessPublish
           \/ ProcessHeaderFrame \/ PublishNowhere \/ ProcessHeartbeat
           \/ ProcessUnknownType \/ Close \/ Finish
  BY <1>8, <1>3
     DEF ProcessTuneOk, ProcessAck, ProcessPublish, ProcessHeaderFrame,
         PublishNowhere, ProcessHeartbeat, ProcessUnknownType, Close, Finish,
         Proceed, End
<1>9. CASE Write \/ Deliver \/ DeliverFails
  BY <1>9, <1>3
     DEF Write, SendProtocolHeader, SendConnectionStart, Welcomes, Reply,
         WriteFails, Deliver, DeliverFails, Proceed, Throw
<1>10. QED
  BY <1>2, <1>4, <1>5, <1>6, <1>7, <1>8, <1>9 DEF Next, Process

LEMMA StepIndInv == IndInv /\ [Next]_vars => IndInv'
BY TypeStep, CutStep, FrameStep, HandlerStep, WholeStep DEF IndInv

-----------------------------------------------------------------------------
(* What holds in every state. *)

\* The inductive invariant.
THEOREM Invariance == Spec => []IndInv
BY InitIndInv, StepIndInv, PTL DEF Spec

\* Every variable keeps its type, whatever frames the peer sends.
THEOREM TypeCorrect == Spec => []TypeOK
<1>1. IndInv => TypeOK
  BY DEF IndInv
<1>2. QED
  BY <1>1, Invariance, PTL

\* Frame.c:240-305.  A frame that was not received to its end, or that is to
\* be refused, is never dealt with, wherever the peer stops or disappears.
THEOREM WholeFramesOnly == Spec => []OnlyWholeFrames
<1>1. IndInv => OnlyWholeFrames
  BY DEF IndInv
<1>2. QED
  BY <1>1, Invariance, PTL

-----------------------------------------------------------------------------
(* Session implements Dialogue: its initial states are Dialogue's, and each  *)
(* of its steps is one of Dialogue's or leaves Dialogue's variables alone.   *)

LEMMA InitDialogue == Init => Conversation!Init
BY DEF Init, Conversation!Init, Over

\* A step that passes no frame and writes no answer: at most the end.
LEMMA NothingDone ==
  ASSUME UNCHANGED <<sent, next, replies>>,
         pc \in {"close", "closing"} \cup Over
           => pc' \in {"close", "closing"} \cup Over
  PROVE  [Conversation!Next]_(Conversation!vars)
BY DEF Conversation!Next, Conversation!Stop, Conversation!vars

\* A step that is done with a frame that calls for no answer.
LEMMA PassedOver ==
  ASSUME TypeOK, Whole(3), ReplyTo(frame) = "none",
         pc \notin {"close", "closing"} \cup Over,
         next' = next + 1, UNCHANGED <<sent, replies>>
  PROVE  [Conversation!Next]_(Conversation!vars)
<1>1. next - 1 < Len(sent) /\ next' - 1 = (next - 1) + 1 /\ next' - 1 = next
  BY DEF TypeOK, Whole
<1>2. Conversation!Answer
  BY <1>1 DEF Conversation!Answer, frame
<1>3. QED
  BY <1>2 DEF Conversation!Next

LEMMA StepDialogue ==
  ASSUME TypeOK, FrameInv, HandlerInv, [Next]_vars
  PROVE  [Conversation!Next]_(Conversation!vars)
<1>1. CASE \E f \in Frame :
             \/ PeerSends(f)
             \/ \E pieces \in 0 .. 2, some \in BOOLEAN : PeerCuts(f, pieces, some)
  <2>1. PICK f \in Frame : sent' = Append(sent, f)
    BY <1>1 DEF PeerSends, PeerCuts
  <2>2. UNCHANGED <<pc, next, replies>>
    BY <1>1 DEF PeerSends, PeerCuts, thread, output
  <2>3. Conversation!Ask(f)
    BY <2>1, <2>2 DEF Conversation!Ask
  <2>4. QED
    BY <2>3 DEF Conversation!Next
<1>2. CASE \/ \E right \in BOOLEAN : PeerGreets(right)
           \/ PeerShuts \/ PeerResets \/ Quiescent \/ UNCHANGED vars
           \/ Elsewhere
  BY <1>2, NothingDone
     DEF PeerGreets, PeerShuts, PeerResets, Quiescent, Elsewhere,
         DeclaredElsewhere, RepliedElsewhere, vars,
         input, fromPeer, thread, output
<1>3. CASE Read
  <2>1. UNCHANGED <<sent, next, replies>>
    BY <1>3
       DEF Read, ReceiveProtocolHeader, ReceiveProtocolHeaderAgain, Greet,
           ReceiveHeader, ReceiveEmptyPayload, ReceivePayload, ReceiveEnd,
           Receive, input, fromPeer, output
  <2>2. pc \notin {"close", "closing"} \cup Over
    BY <1>3
       DEF Read, ReceiveProtocolHeader, ReceiveProtocolHeaderAgain, Greet,
           ReceiveHeader, ReceiveEmptyPayload, ReceivePayload, ReceiveEnd,
           Receive, Piece, Over
  <2>3. QED
    BY <2>1, <2>2, NothingDone
<1>4. CASE \/ ProcessConnection \/ ProcessChannel \/ ProcessDeclare
           \/ ProcessConsume \/ ProcessBodyFrame \/ PublishTo
           \/ ProcessUnknownType \/ DeliverFails
  BY <1>4, NothingDone
     DEF ProcessConnection, ProcessChannel, ProcessDeclare, ProcessConsume,
         ProcessBodyFrame, PublishTo, ProcessUnknownType, DeliverFails, Handles,
         End, Throw, input, fromPeer, output, Over
<1>5. CASE Close \/ Finish
  BY <1>5, NothingDone DEF Close, Finish, End, input, fromPeer, output, Over
<1>6. CASE SendProtocolHeader \/ SendConnectionStart
  BY <1>6, NothingDone
     DEF SendProtocolHeader, SendConnectionStart, Welcomes, input, fromPeer, Over
<1>7. CASE \E label \in {"send_protocol_header", "send_start", "reply"} :
             WriteFails(label)
  BY <1>7, NothingDone DEF WriteFails, Throw, input, fromPeer, output, Over
<1>8. CASE ProcessTuneOk \/ ProcessAck \/ ProcessPublish
  <2>1. Whole(3) /\ ReplyTo(frame) = "none"
    BY <1>8
       DEF ProcessTuneOk, ProcessAck, ProcessPublish, Handles, FrameInv,
           ReplyTo, Is
  <2>2. QED
    BY <1>8, <2>1, PassedOver
       DEF ProcessTuneOk, ProcessAck, ProcessPublish, Handles, Proceed, input, fromPeer,
           output, Over
<1>9. CASE ProcessHeaderFrame \/ ProcessHeartbeat
  <2>1. Whole(3) /\ ReplyTo(frame) = "none"
    BY <1>9
       DEF ProcessHeaderFrame, ProcessHeartbeat, FrameInv, ReplyTo, Is,
           METHOD_FRAME, HEADER_FRAME, HEARTBEAT_FRAME
  <2>2. QED
    BY <1>9, <2>1, PassedOver, NothingDone
       DEF ProcessHeaderFrame, ProcessHeartbeat, Proceed, End, input, fromPeer, output,
           Over
<1>10. CASE PublishNowhere \/ Deliver
  <2>1. Whole(3) /\ ReplyTo(frame) = "none"
    <3>1. pc \in {"lookup", "deliver"}
      BY <1>10 DEF PublishNowhere, Deliver
    <3>2. Whole(3) /\ frame.type = BODY_FRAME
      BY <3>1 DEF FrameInv, HandlerInv
    <3>3. QED
      BY <3>2 DEF ReplyTo, Is, METHOD_FRAME, BODY_FRAME
  <2>2. QED
    BY <1>10, <2>1, PassedOver
       DEF PublishNowhere, Deliver, Proceed, input, fromPeer, Over
<1>11. CASE Reply
  <2>1. /\ pc = "reply" /\ next' = next + 1 /\ UNCHANGED sent
        /\ replies' = Append(replies, [frame |-> next, what |-> ReplyTo(frame)])
    BY <1>11 DEF Reply, Proceed, input, fromPeer
  <2>2. Whole(3) /\ ReplyTo(frame) # "none"
    BY <2>1 DEF FrameInv, HandlerInv
  <2>3. next - 1 < Len(sent) /\ next' - 1 = (next - 1) + 1 /\ next' - 1 = next
    BY <2>1, <2>2 DEF TypeOK, Whole
  <2>4. Conversation!Answer
    BY <2>1, <2>2, <2>3 DEF Conversation!Answer, frame, Over
  <2>5. QED
    BY <2>4 DEF Conversation!Next
<1>12. QED
  BY <1>1, <1>2, <1>3, <1>4, <1>5, <1>6, <1>7, <1>8, <1>9, <1>10, <1>11
     DEF Next, Peer, Process, Write

\* Frame.c:142-159.  The frames are answered in the order they were sent,
\* each that calls for an answer exactly once, and none after the end.
THEOREM ImplementsDialogue == Spec => AnsweredInOrder
<1>1. Init => Conversation!Init
  BY InitDialogue
<1>2. IndInv /\ [Next]_vars => [Conversation!Next]_(Conversation!vars)
  BY StepDialogue DEF IndInv
<1>3. QED
  BY <1>1, <1>2, Invariance, PTL DEF Spec, AnsweredInOrder, Conversation!Spec

-----------------------------------------------------------------------------
(* Why a connection ends. *)

\* Decoding a piece of a frame raises one flag at most, and never the one of
\* a consume.
FewFlags(raised) ==
  /\ raised = {} \/ \E x \in Flags : raised = {x}
  /\ "CONSUME_TO_INVALID_QUEUE" \notin raised

LEMMA FewHeaderFlags ==
  ASSUME NEW f PROVE FewFlags(HeaderFlags(f))
BY DEF FewFlags, HeaderFlags, Flags, ERRORS

LEMMA FewArgumentFlags ==
  ASSUME NEW e \in DOMAIN ArgumentError PROVE FewFlags({ArgumentError[e]})
BY ArgumentErrorType DEF FewFlags, ArgumentError

LEMMA FewMethodFlags ==
  ASSUME NEW f PROVE FewFlags(MethodFlags(f))
<1>1. CASE f.class \notin DOMAIN Methods
  BY <1>1 DEF MethodFlags, FewFlags, Flags, ERRORS
<1>2. CASE f.class \in DOMAIN Methods /\ f.method \notin Methods[f.class]
  BY <1>2 DEF MethodFlags, FewFlags, Flags, ERRORS
<1>3. CASE f.class \in DOMAIN Methods /\ f.method \in Methods[f.class]
  <2>1. MethodFlags(f) = {ArgumentError[e] : e \in {f.args} \cap DOMAIN ArgumentError}
    BY <1>3 DEF MethodFlags
  <2>2. CASE f.args \in DOMAIN ArgumentError
    BY <2>1, <2>2, FewArgumentFlags
  <2>3. CASE f.args \notin DOMAIN ArgumentError
    BY <2>1, <2>3 DEF FewFlags
  <2>4. QED
    BY <2>2, <2>3
<1>4. QED
  BY <1>1, <1>2, <1>3

LEMMA FewPayloadFlags ==
  ASSUME NEW f PROVE FewFlags(PayloadFlags(f))
<1>1. FewFlags({}) /\ FewFlags({"HEARTBEAT_IGNORED"})
  BY DEF FewFlags, Flags, WARNINGS
<1>2. QED
  BY <1>1, FewMethodFlags DEF PayloadFlags

LEMMA FewScrapFlags ==
  ASSUME NEW f, NEW raised \in ScrapFlags(f) PROVE FewFlags(raised)
<1>1. /\ FewFlags({}) /\ FewFlags({"NOT_EXPECTED_CLASS"})
      /\ FewFlags({"NOT_EXPECTED_METHOD"})
  BY DEF FewFlags, Flags, ERRORS
<1>2. QED
  BY <1>1, FewPayloadFlags, FewArgumentFlags DEF ScrapFlags

LEMMA FewEndFlags ==
  ASSUME NEW f PROVE FewFlags(EndFlags(f))
BY DEF FewFlags, EndFlags, Flags, ERRORS

\* No flag that ends a connection is raised while it goes on, and one by the
\* step it ends with.
ReasonInv ==
  /\ pc \notin {"closing", "freed"} => flags \cap Stops = {}
  /\ pc \in {"closing", "freed"} => \E x \in Flags : flags \cap Stops = {x}

LEMMA ContinueOnce ==
  ASSUME ReasonInv, pc \notin {"closing", "freed"}, NEW raised, NEW label,
         FewFlags(raised), Continue(raised, label), label \notin {"closing", "freed"}
  PROVE  ReasonInv'
BY DEF ReasonInv, FewFlags, Continue

LEMMA EndOnce ==
  ASSUME ReasonInv, pc \notin {"closing", "freed"}, NEW x \in Flags,
         x \in Stops, End({x})
  PROVE  ReasonInv'
BY DEF ReasonInv, End

LEMMA ProceedOnce ==
  ASSUME ReasonInv, pc \notin {"closing", "freed"}, NEW raised,
         raised \cap Stops = {}, Proceed(raised)
  PROVE  ReasonInv'
BY DEF ReasonInv, Proceed

LEMMA ReasonStep ==
  ASSUME ReasonInv, [Next]_vars
  PROVE  ReasonInv'
<1>1. CASE UNCHANGED <<pc, flags>>
  BY <1>1 DEF ReasonInv
<1>2. CASE UNCHANGED flags /\ {pc, pc'} \cap {"closing", "freed"} = {}
  BY <1>2 DEF ReasonInv
<1>3. CASE UNCHANGED vars \/ Quiescent \/ Elsewhere
  BY <1>3, <1>1 DEF vars, thread, Quiescent, Elsewhere,
     DeclaredElsewhere, RepliedElsewhere
<1>4. CASE Peer
  BY <1>4, <1>1
     DEF Peer, PeerGreets, PeerSends, PeerCuts, PeerShuts, PeerResets, thread
<1>5. CASE ReceiveProtocolHeader
  <2>1. FewFlags({})
    BY DEF FewFlags
  <2>2. "CONNECTION_ENDED" \in Flags /\ "CONNECTION_ENDED" \in Stops
    BY DEF Flags, Stops
  <2>3. pc = "greet"
    BY <1>5 DEF ReceiveProtocolHeader, Greet
  <2>4. \/ Continue({}, "send_start")
        \/ flags' = flags /\ pc' = "send_protocol_header"
        \/ End({"CONNECTION_ENDED"})
        \/ Throw
    BY <1>5 DEF ReceiveProtocolHeader, Greet
  <2>5. CASE Continue({}, "send_start")
    BY <2>1, <2>3, <2>5, ContinueOnce
  <2>6. CASE End({"CONNECTION_ENDED"})
    BY <2>2, <2>3, <2>6, EndOnce
  <2>7. QED
    BY <1>2, <2>3, <2>4, <2>5, <2>6 DEF Throw
<1>6. CASE ReceiveProtocolHeaderAgain
  <2>1. FewFlags({})
    BY DEF FewFlags
  <2>2. /\ {"CONNECTION_ENDED", "INVALID_PROTOCOL_HEADER"} \subseteq Flags
        /\ {"CONNECTION_ENDED", "INVALID_PROTOCOL_HEADER"} \subseteq Stops
    BY DEF Flags, Stops, ERRORS
  <2>3. pc = "greet_again"
    BY <1>6 DEF ReceiveProtocolHeaderAgain, Greet
  <2>4. \/ Continue({}, "send_start")
        \/ End({"INVALID_PROTOCOL_HEADER"})
        \/ End({"CONNECTION_ENDED"})
        \/ Throw
    BY <1>6 DEF ReceiveProtocolHeaderAgain, Greet, End
  <2>5. CASE Continue({}, "send_start")
    BY <2>1, <2>3, <2>5, ContinueOnce
  <2>6. CASE End({"CONNECTION_ENDED"}) \/ End({"INVALID_PROTOCOL_HEADER"})
    BY <2>2, <2>3, <2>6, EndOnce
  <2>7. QED
    BY <1>2, <2>3, <2>4, <2>5, <2>6 DEF Throw
<1>7. CASE ReceiveHeader \/ ReceivePayload \/ ReceiveEnd
  <2>1. pc \in {"recv_header", "recv_payload", "recv_end"}
    BY <1>7 DEF ReceiveHeader, ReceivePayload, ReceiveEnd, Receive, Piece
  <2>2. \/ \E raised, label : /\ FewFlags(raised) /\ Continue(raised, label)
                              /\ label \notin {"closing", "freed"}
        \/ End({"CONNECTION_ENDED"})
        \/ Throw
    <3>1. CASE ReceiveHeader
      <4>1. FewFlags(HeaderFlags(frame)) /\ FewFlags({})
        BY FewHeaderFlags DEF FewFlags
      <4>2. QED
        BY <3>1, <4>1 DEF ReceiveHeader, Receive
    <3>2. CASE ReceivePayload
      <4>1. /\ FewFlags(PayloadFlags(frame))
            /\ \A raised \in ScrapFlags(frame) : FewFlags(raised)
        BY FewPayloadFlags, FewScrapFlags
      <4>2. QED
        BY <3>2, <4>1 DEF ReceivePayload, Receive
    <3>3. CASE ReceiveEnd
      <4>1. FewFlags(EndFlags(frame))
        BY FewEndFlags
      <4>2. QED
        BY <3>3, <4>1 DEF ReceiveEnd, Receive
    <3>4. QED
      BY <1>7, <3>1, <3>2, <3>3
  <2>3. "CONNECTION_ENDED" \in Flags /\ "CONNECTION_ENDED" \in Stops
    BY DEF Flags, Stops
  <2>4. CASE \E raised, label : /\ FewFlags(raised) /\ Continue(raised, label)
                                /\ label \notin {"closing", "freed"}
    BY <2>1, <2>4, ContinueOnce
  <2>5. CASE End({"CONNECTION_ENDED"})
    BY <2>1, <2>3, <2>5, EndOnce
  <2>6. QED
    BY <1>2, <2>1, <2>2, <2>4, <2>5 DEF Throw
<1>8. CASE ReceiveEmptyPayload \/ Close
  <2>1. "CONNECTION_ENDED" \in Flags /\ "CONNECTION_ENDED" \in Stops
    BY DEF Flags, Stops
  <2>2. QED
    BY <1>8, <2>1, EndOnce DEF ReceiveEmptyPayload, Close
<1>9. CASE Write
  <2>1. {} \cap Stops = {}
    OBVIOUS
  <2>2. QED
    BY <1>9, <1>2, <2>1, ProceedOnce
       DEF Write, SendProtocolHeader, SendConnectionStart, Welcomes, Reply,
           WriteFails, Throw
<1>10. CASE \/ ProcessConnection \/ ProcessChannel \/ ProcessBodyFrame
            \/ PublishTo \/ DeliverFails
  BY <1>10, <1>2
     DEF ProcessConnection, ProcessChannel, ProcessBodyFrame, PublishTo,
         DeliverFails, Handles, Throw
<1>11. CASE ProcessDeclare
  <2>1. "QUEUE_NAME_ALREADY_EXISTS" \notin Stops
    BY DEF Stops, ERRORS
  <2>2. QED
    BY <1>11, <2>1 DEF ProcessDeclare, Handles, ReasonInv
<1>12. CASE \/ ProcessTuneOk \/ ProcessAck \/ ProcessPublish
            \/ PublishNowhere \/ Deliver \/ ProcessHeartbeat
  <2>1. /\ {"QUEUE_NOT_FOUND_OR_EMPTY"} \cap Stops = {}
        /\ {"HEARTBEAT_IGNORED"} \cap Stops = {} /\ {} \cap Stops = {}
    BY DEF Stops, ERRORS
  <2>2. pc \in {"process", "lookup", "deliver"}
    BY <1>12
       DEF ProcessTuneOk, ProcessAck, ProcessPublish, PublishNowhere, Deliver,
           ProcessHeartbeat, Handles
  <2>3. \/ Proceed({}) \/ Proceed({"QUEUE_NOT_FOUND_OR_EMPTY"})
        \/ Proceed({"HEARTBEAT_IGNORED"})
    BY <1>12
       DEF ProcessTuneOk, ProcessAck, ProcessPublish, PublishNowhere, Deliver,
           ProcessHeartbeat
  <2>4. QED
    BY <2>1, <2>2, <2>3, ProceedOnce
<1>13. CASE ProcessConsume \/ ProcessHeaderFrame \/ ProcessUnknownType
  <2>1. LET E == {"CONSUME_TO_INVALID_QUEUE", "NOT_EXPECTED_CLASS",
                  "INVALID_FRAME_TYPE"}
        IN E \subseteq Flags /\ E \subseteq Stops
    BY DEF Flags, Stops, ERRORS
  <2>2. pc = "process"
    BY <1>13
       DEF ProcessConsume, ProcessHeaderFrame, ProcessUnknownType, Handles
  <2>3. \/ pc' = "reply" /\ UNCHANGED flags
        \/ Proceed({})
        \/ End({"CONSUME_TO_INVALID_QUEUE"})
        \/ End({"NOT_EXPECTED_CLASS"})
        \/ End({"INVALID_FRAME_TYPE"})
    BY <1>13 DEF ProcessConsume, ProcessHeaderFrame, ProcessUnknownType
  <2>4. {} \cap Stops = {}
    OBVIOUS
  <2>5. QED
    BY <1>2, <2>1, <2>2, <2>3, <2>4, EndOnce, ProceedOnce
<1>14. CASE Finish
  BY <1>14 DEF Finish, ReasonInv
<1>15. QED
  BY <1>3, <1>4, <1>5, <1>6, <1>7, <1>8, <1>9, <1>10, <1>11, <1>12, <1>13,
     <1>14
     DEF Next, Read, Process

\* Connection.c:32-48,121-138.  A connection that ends, ends for exactly one
\* reason, whatever its peer sent.
\* Every flag the thread may raise but CONNECTION_ENDED has a line.
LEMMA PrintsThem ==
  ASSUME NEW F \in SUBSET Flags
  PROVE  /\ Printed(F, FALSE) = F \cap ERRORS
         /\ Printed(F, TRUE) = F \ {"CONNECTION_ENDED"}
<1>1. \A f \in Flags : /\ Bit[f] \in 32 .. 62 <=> f \in ERRORS
                       /\ Bit[f] \in 0 .. 18 <=> f \in WARNINGS
                       /\ Bit[f] \in 32 .. 62 => Bit[f] \in 32 .. 63
                       /\ Bit[f] \in 0 .. 18 => Bit[f] \in 0 .. 19
  BY DEF Bit, Flags, ERRORS, WARNINGS
<1>2. Flags = ERRORS \cup WARNINGS \cup {"CONNECTION_ENDED"}
      /\ "CONNECTION_ENDED" \notin ERRORS \cup WARNINGS
  BY DEF Flags, ERRORS, WARNINGS
<1>3. Lines(F, 32 .. 63, 32 .. 62) = F \cap ERRORS
  BY <1>1 DEF Lines
<1>4. Lines(F, 0 .. 19, 0 .. 18) = F \cap WARNINGS
  BY <1>1 DEF Lines
<1> QED
  BY <1>2, <1>3, <1>4 DEF Printed

THEOREM OneReason == Spec => []EndsForOneReason
<1>1. Init => ReasonInv
  BY DEF Init, ReasonInv
<1>2. ReasonInv /\ TypeOK => EndsForOneReason
  <2> SUFFICES ASSUME ReasonInv, TypeOK, pc = "freed"
               PROVE  /\ Cardinality(flags \cap Stops) = 1
                      /\ Printed(flags, FALSE) = flags \cap ERRORS
                      /\ Printed(flags, TRUE) = flags \ {"CONNECTION_ENDED"}
    BY DEF EndsForOneReason
  <2>1. Cardinality(flags \cap Stops) = 1
    BY FS_Singleton DEF ReasonInv
  <2>2. flags \in SUBSET Flags
    BY DEF TypeOK
  <2> QED
    BY <2>1, <2>2, PrintsThem
<1>3. QED
  BY <1>1, <1>2, ReasonStep, TypeCorrect, PTL DEF Spec

-----------------------------------------------------------------------------
(* What a declare-ok is worth. *)

RefusedConsume == "CONSUME_TO_INVALID_QUEUE" \in flags

\* An answer belongs to a frame that was sent; a queue is declared before its
\* declare-ok is written, and stays so; a connection that consumed from an
\* unknown queue is over.
KnownInv ==
  /\ \A k \in DOMAIN replies :
       /\ replies[k].frame \in 1 .. Len(sent)
       /\ replies[k].what = "queue_declare_ok" =>
            sent[replies[k].frame].queue_name \in declared
  /\ pc = "reply" /\ Is(frame, "queue", "declare") =>
       frame.queue_name \in declared
  /\ RefusedConsume => pc \in {"closing", "freed"} /\ next \in 1 .. Len(sent)

\* The flag of a refused consume is raised nowhere else.
LEMMA RefusedByConsume ==
  ASSUME [Next]_vars, RefusedConsume', ~RefusedConsume
  PROVE  /\ Handles("basic", "consume") /\ frame.queue_name \notin declared
         /\ pc' = "closing"
         /\ UNCHANGED <<fromPeer, next, declared, replies>>
<1> USE DEF RefusedConsume
<1>1. flags' # flags
  OBVIOUS
<1>2. CASE ProcessConsume
  BY <1>1, <1>2 DEF ProcessConsume, End, output, input, fromPeer
<1>3. \A raised : FewFlags(raised) => "CONSUME_TO_INVALID_QUEUE" \notin raised
  BY DEF FewFlags
<1>4. ~ReceiveProtocolHeader /\ ~ReceiveProtocolHeaderAgain
  BY DEF ReceiveProtocolHeader, ReceiveProtocolHeaderAgain, Greet, Continue,
         End, Throw
<1>5. ~ReceiveHeader
  <2>1. "CONSUME_TO_INVALID_QUEUE" \notin HeaderFlags(frame)
    BY <1>3, FewHeaderFlags
  <2>2. QED
    BY <2>1 DEF ReceiveHeader, Receive, Continue, End, Throw
<1>6. ~ReceivePayload
  <2>1. /\ "CONSUME_TO_INVALID_QUEUE" \notin PayloadFlags(frame)
        /\ \A raised \in ScrapFlags(frame) :
             "CONSUME_TO_INVALID_QUEUE" \notin raised
    BY <1>3, FewPayloadFlags, FewScrapFlags
  <2>2. QED
    BY <2>1 DEF ReceivePayload, Receive, Continue, End, Throw
<1>7. ~ReceiveEnd
  <2>1. "CONSUME_TO_INVALID_QUEUE" \notin EndFlags(frame)
    BY <1>3, FewEndFlags
  <2>2. QED
    BY <2>1 DEF ReceiveEnd, Receive, Continue, End, Throw
<1>8. ~ReceiveEmptyPayload /\ ~Close /\ ~Finish
  BY DEF ReceiveEmptyPayload, Close, Finish, End
<1>9. ~Write
  <2>1. /\ ~SendProtocolHeader /\ ~SendConnectionStart
        /\ \A label : ~WriteFails(label)
    BY <1>1 DEF SendProtocolHeader, SendConnectionStart, Welcomes, WriteFails,
                Throw
  <2>2. ~Reply
    BY DEF Reply, Proceed
  <2>3. QED
    BY <2>1, <2>2 DEF Write
<1>10. /\ ~ProcessConnection /\ ~ProcessChannel /\ ~ProcessBodyFrame
       /\ ~PublishTo /\ ~DeliverFails /\ ~ProcessDeclare
  BY DEF ProcessConnection, ProcessChannel, ProcessBodyFrame, PublishTo,
         DeliverFails, ProcessDeclare, Throw
<1>11. /\ ~ProcessTuneOk /\ ~ProcessAck /\ ~ProcessPublish /\ ~PublishNowhere
       /\ ~Deliver /\ ~ProcessHeartbeat
  <2>1. ~Proceed({}) /\ ~Proceed({"QUEUE_NOT_FOUND_OR_EMPTY"})
        /\ ~Proceed({"HEARTBEAT_IGNORED"})
    BY DEF Proceed
  <2>2. QED
    BY <2>1 DEF ProcessTuneOk, ProcessAck, ProcessPublish, PublishNowhere,
                Deliver, ProcessHeartbeat
<1>14. ~ProcessHeaderFrame /\ ~ProcessUnknownType
  BY DEF ProcessHeaderFrame, ProcessUnknownType, Proceed, End
<1>12. ~Peer /\ ~Quiescent /\ ~(UNCHANGED vars)
       /\ ~Elsewhere
  BY <1>1
     DEF Peer, PeerGreets, PeerSends, PeerCuts, PeerShuts, PeerResets,
         Quiescent, Elsewhere,
         DeclaredElsewhere, RepliedElsewhere, vars, thread
<1>13. QED
  BY <1>2, <1>4, <1>5, <1>6, <1>7, <1>8, <1>9, <1>10, <1>11, <1>12,
     <1>14
     DEF Next, Read, Process

\* What a step leaves alone: the frames sent, the names declared, and, unless
\* it is the writing of an answer, the answers.
LEMMA StepKeeps ==
  ASSUME TypeOK, CutInv, [Next]_vars
  PROVE  /\ Len(sent) <= Len(sent') /\ Len(sent') \in Nat
         /\ \A k \in 1 .. Len(sent) : k \in 1 .. Len(sent') /\ sent'[k] = sent[k]
         /\ declared \subseteq declared'
         /\ UNCHANGED replies \/ Reply
<1>1. Len(sent) <= Len(sent') /\ \A k \in 1 .. Len(sent) : sent'[k] = sent[k]
  <2>1. CASE Peer
    BY <2>1, PeerKeeps
  <2>2. CASE UNCHANGED fromPeer
    BY <2>2 DEF input, fromPeer, TypeOK
  <2>3. QED
    BY <2>1, <2>2, StepKinds
       DEF ReceiveHeader, ReceivePayload, ReceiveEnd, Receive, input, fromPeer
<1>2. Len(sent') \in Nat /\ Len(sent) \in Nat
  <2>1. CASE Peer
    BY <2>1
       DEF Peer, PeerGreets, PeerSends, PeerCuts, PeerShuts, PeerResets, TypeOK
  <2>2. CASE UNCHANGED fromPeer
    BY <2>2 DEF input, fromPeer, TypeOK
  <2>3. QED
    BY <2>1, <2>2, StepKinds
       DEF ReceiveHeader, ReceivePayload, ReceiveEnd, Receive
<1>3. declared \subseteq declared' /\ (UNCHANGED replies \/ Reply)
  <2> USE DEF vars, input, fromPeer, thread, output
  <2>1. CASE Peer \/ UNCHANGED vars \/ Quiescent
             \/ Elsewhere
    BY <2>1
       DEF Peer, PeerGreets, PeerSends, PeerCuts, PeerShuts, PeerResets,
           Quiescent, Elsewhere, DeclaredElsewhere, RepliedElsewhere
  <2>2. CASE Read
    BY <2>2
       DEF Read, ReceiveProtocolHeader, ReceiveProtocolHeaderAgain, Greet,
           ReceiveHeader, ReceiveEmptyPayload, ReceivePayload, ReceiveEnd,
           Receive
  <2>3. CASE \/ ProcessConnection \/ ProcessTuneOk \/ ProcessChannel
             \/ ProcessAck \/ ProcessDeclare \/ ProcessConsume
             \/ ProcessPublish \/ ProcessHeaderFrame \/ ProcessBodyFrame
    BY <2>3
       DEF ProcessConnection, ProcessTuneOk, ProcessChannel, ProcessAck,
           ProcessDeclare, ProcessConsume, ProcessPublish, ProcessHeaderFrame,
           ProcessBodyFrame
  <2>4. CASE \/ PublishNowhere \/ PublishTo \/ ProcessHeartbeat
             \/ ProcessUnknownType \/ Close \/ Finish \/ Deliver \/ DeliverFails
    BY <2>4
       DEF PublishNowhere, PublishTo, ProcessHeartbeat, ProcessUnknownType,
           Close, Finish, Deliver, DeliverFails
  <2>5. CASE Write
    BY <2>5
       DEF Write, SendProtocolHeader, SendConnectionStart, Welcomes, Reply,
           WriteFails
  <2>6. QED
    BY <2>1, <2>2, <2>3, <2>4, <2>5 DEF Next, Process
<1>4. QED
  BY <1>1, <1>2, <1>3

\* A connection that is over stays where it is.
LEMMA OverStays ==
  ASSUME TypeOK, CutInv, [Next]_vars, pc \in {"closing", "freed"}
  PROVE  pc' \in {"closing", "freed"} /\ UNCHANGED <<next, replies>>
<1>1. UNCHANGED <<pc, next>> \/ Finish
  <2> USE DEF vars, input, fromPeer, thread, output
  <2>1. CASE Peer \/ UNCHANGED vars \/ Quiescent
             \/ Elsewhere
    BY <2>1, PeerKeeps DEF Quiescent, Elsewhere,
       DeclaredElsewhere, RepliedElsewhere
  <2>2. ~Read
    BY DEF Read, ReceiveProtocolHeader, ReceiveProtocolHeaderAgain, Greet,
           ReceiveHeader, ReceiveEmptyPayload, ReceivePayload, ReceiveEnd,
           Receive, Piece
  <2>3. /\ ~ProcessConnection /\ ~ProcessTuneOk /\ ~ProcessChannel
        /\ ~ProcessAck /\ ~ProcessDeclare /\ ~ProcessConsume
        /\ ~ProcessPublish /\ ~ProcessHeaderFrame /\ ~ProcessBodyFrame
    BY DEF ProcessConnection, ProcessTuneOk, ProcessChannel, ProcessAck,
           ProcessDeclare, ProcessConsume, ProcessPublish, ProcessHeaderFrame,
           ProcessBodyFrame, Handles
  <2>4. /\ ~PublishNowhere /\ ~PublishTo /\ ~ProcessHeartbeat
        /\ ~ProcessUnknownType /\ ~Close /\ ~Deliver /\ ~DeliverFails
    BY DEF PublishNowhere, PublishTo, ProcessHeartbeat, ProcessUnknownType,
           Close, Deliver, DeliverFails
  <2>5. ~Write
    BY DEF Write, SendProtocolHeader, SendConnectionStart, Welcomes, Reply,
           WriteFails
  <2>6. QED
    BY <2>1, <2>2, <2>3, <2>4, <2>5 DEF Next, Process
<1>2. ~Reply
  BY DEF Reply
<1>3. QED
  BY <1>1, <1>2, StepKeeps DEF Finish

\* A thread that is about to write a declare-ok has seen the queue declared.
LEMMA DeclaredBeforeReply ==
  ASSUME TypeOK, CutInv, FrameInv, KnownInv, [Next]_vars,
         pc' = "reply", Is(frame, "queue", "declare")'
  PROVE  frame'.queue_name \in declared'
<1>1. CASE UNCHANGED <<pc, frame>>
  BY <1>1, StepKeeps DEF KnownInv, Is
<1>2. CASE Peer
  <2>1. UNCHANGED pc /\ next \in 1 .. Len(sent)
    BY <1>2, PeerKeeps DEF FrameInv, Whole, TypeOK
  <2>2. QED
    BY <1>1, <1>2, <2>1, PeerKeeps DEF frame
<1>3. CASE ProcessDeclare
  BY <1>3 DEF ProcessDeclare, frame, input, fromPeer
<1>4. CASE ProcessConnection \/ ProcessChannel \/ ProcessConsume
  <2>1. frame.class \in {"connection", "channel", "basic"}
    BY <1>4 DEF ProcessConnection, ProcessChannel, ProcessConsume, Handles, Is
  <2>2. frame' = frame
    BY <1>4
       DEF ProcessConnection, ProcessChannel, ProcessConsume, frame, input, fromPeer
  <2>3. QED
    BY <2>1, <2>2 DEF Is
<1>5. CASE UNCHANGED vars \/ Quiescent \/ Elsewhere
  BY <1>5, <1>1
     DEF vars, input, fromPeer, thread, Quiescent, Elsewhere,
         DeclaredElsewhere, RepliedElsewhere, frame
<1>6. ~Read
  BY DEF Read, ReceiveProtocolHeader, ReceiveProtocolHeaderAgain, Greet,
         ReceiveHeader, ReceiveEmptyPayload, ReceivePayload, ReceiveEnd,
         Receive, Continue, End, Throw
<1>7. /\ ~ProcessTuneOk /\ ~ProcessAck /\ ~ProcessPublish
      /\ ~ProcessHeaderFrame /\ ~ProcessBodyFrame
  BY DEF ProcessTuneOk, ProcessAck, ProcessPublish, ProcessHeaderFrame,
         ProcessBodyFrame, Proceed, End
<1>8. /\ ~PublishNowhere /\ ~PublishTo /\ ~ProcessHeartbeat
      /\ ~ProcessUnknownType /\ ~Close /\ ~Finish /\ ~Deliver /\ ~DeliverFails
  BY DEF PublishNowhere, PublishTo, ProcessHeartbeat, ProcessUnknownType,
         Close, Finish, Deliver, DeliverFails, Proceed, End, Throw
<1>9. ~Write
  BY DEF Write, SendProtocolHeader, SendConnectionStart, Welcomes, Reply,
         WriteFails, Proceed, Throw
<1>10. QED
  BY <1>2, <1>3, <1>4, <1>5, <1>6, <1>7, <1>8, <1>9 DEF Next, Process

LEMMA KnownStep ==
  ASSUME TypeOK, CutInv, FrameInv, KnownInv, [Next]_vars
  PROVE  KnownInv'
<1>1. ASSUME NEW k \in DOMAIN replies'
      PROVE  /\ replies'[k].frame \in 1 .. Len(sent')
             /\ replies'[k].what = "queue_declare_ok" =>
                  sent'[replies'[k].frame].queue_name \in declared'
  <2>1. CASE k \in DOMAIN replies /\ replies'[k] = replies[k]
    BY <2>1, StepKeeps DEF KnownInv
  <2>2. CASE Reply /\ ~(k \in DOMAIN replies /\ replies'[k] = replies[k])
    <3>1. replies'[k] = [frame |-> next, what |-> ReplyTo(frame)]
      <4>1. replies' = Append(replies, [frame |-> next, what |-> ReplyTo(frame)])
        BY <2>2 DEF Reply
      <4>2. replies \in Seq([frame : Nat, what : {ReplyTo(f) : f \in Frame}])
        BY DEF TypeOK
      <4>3. k \in 1 .. Len(replies) + 1 /\ DOMAIN replies = 1 .. Len(replies)
        BY <4>1, <4>2
      <4>4. k \in DOMAIN replies => replies'[k] = replies[k]
        BY <4>1, <4>2
      <4>5. k = Len(replies) + 1
        BY <2>2, <4>2, <4>3, <4>4
      <4>6. QED
        BY <4>1, <4>2, <4>5
    <3>2. next \in 1 .. Len(sent) /\ pc = "reply"
      BY <2>2 DEF Reply, FrameInv, Whole, TypeOK
    <3>3. ReplyTo(frame) = "queue_declare_ok" => Is(frame, "queue", "declare")
      BY DEF ReplyTo
    <3>4. ReplyTo(frame) = "queue_declare_ok" =>
            sent[next].queue_name \in declared
      BY <3>2, <3>3 DEF KnownInv, frame
    <3>5. QED
      BY <3>1, <3>2, <3>4, StepKeeps
  <2>3. QED
    BY <2>1, <2>2, StepKeeps
<1>2. pc' = "reply" /\ Is(frame, "queue", "declare")' =>
        frame'.queue_name \in declared'
  BY DeclaredBeforeReply
<1>3. RefusedConsume' => pc' \in {"closing", "freed"} /\ next' \in 1 .. Len(sent')
  <2>1. CASE RefusedConsume
    BY <2>1, OverStays, StepKeeps DEF KnownInv
  <2>2. CASE ~RefusedConsume /\ RefusedConsume'
    <3>1. Handles("basic", "consume") /\ pc' = "closing" /\ UNCHANGED next
      BY <2>2, RefusedByConsume
    <3>2. next \in 1 .. Len(sent)
      BY <3>1 DEF Handles, FrameInv, Whole, TypeOK
    <3>3. QED
      BY <3>1, <3>2, StepKeeps
  <2>3. QED
    BY <2>1, <2>2
<1>4. QED
  BY <1>1, <1>2, <1>3 DEF KnownInv

LEMMA DeclaredStep ==
  ASSUME TypeOK, CutInv, FrameInv, KnownInv, DeclaredQueueIsKnown, [Next]_vars
  PROVE  DeclaredQueueIsKnown'
<1> SUFFICES ASSUME RefusedConsume', NEW k \in DOMAIN replies',
                    replies'[k].what = "queue_declare_ok"
             PROVE  sent'[replies'[k].frame].queue_name # frame'.queue_name
  BY DEF DeclaredQueueIsKnown, RefusedConsume
<1>1. CASE RefusedConsume
  <2>1. next \in 1 .. Len(sent) /\ UNCHANGED <<next, replies>>
    BY <1>1, OverStays DEF KnownInv
  <2>2. replies[k].frame \in 1 .. Len(sent)
    BY <2>1 DEF KnownInv
  <2>3. sent[replies[k].frame].queue_name # frame.queue_name
    BY <1>1, <2>1 DEF DeclaredQueueIsKnown, RefusedConsume
  <2>4. QED
    BY <2>1, <2>2, <2>3, StepKeeps DEF frame
<1>2. CASE ~RefusedConsume
  <2>1. /\ frame.queue_name \notin declared
        /\ UNCHANGED <<sent, next, replies>>
    BY <1>2, RefusedByConsume DEF input, fromPeer
  <2>2. sent[replies[k].frame].queue_name \in declared
    BY <2>1 DEF KnownInv
  <2>3. QED
    BY <2>1, <2>2 DEF frame
<1>3. QED
  BY <1>1, <1>2

\* Queue.c:91-127.  A peer that was sent a declare-ok is never told that the
\* queue does not exist, whatever is declared around it.
THEOREM DeclareOkHolds == Spec => []DeclaredQueueIsKnown
<1>1. Init => KnownInv /\ DeclaredQueueIsKnown
  BY DEF Init, KnownInv, RefusedConsume, DeclaredQueueIsKnown
<1>2. IndInv /\ KnownInv /\ DeclaredQueueIsKnown /\ [Next]_vars
        => KnownInv' /\ DeclaredQueueIsKnown'
  BY KnownStep, DeclaredStep DEF IndInv
<1>3. QED
  BY <1>1, <1>2, Invariance, PTL DEF Spec

-----------------------------------------------------------------------------
(* What is published. *)

\* What connection->publication holds between two frames, and in a body frame.
PubInv ==
  /\ QueueBefore(next, pub.queue_name)
  /\ SizeBefore(next, pub.size)
  /\ pc \in {"lookup", "deliver"} => pub.body = next

Item(p, b) ==
  [queue_name |-> p.queue_name, size |-> p.size, body |-> p.body,
   delivered |-> b]

\* A step that leaves the thread at its frame, and what is published.
AtRest ==
  /\ UNCHANGED <<next, published>>
  /\ pub'.queue_name = pub.queue_name /\ pub'.size = pub.size
  /\ pc' \in {"lookup", "deliver"} =>
       \/ pc \in {"lookup", "deliver"} /\ UNCHANGED pub
       \/ pub'.body = next

\* The steps that pass to the next frame, by what they do with this one.
PassesOn == next' = next + 1 /\ UNCHANGED sent /\ pc' \notin {"lookup", "deliver"}

NamesQueue ==
  /\ PassesOn /\ UNCHANGED published
  /\ Is(frame, "basic", "publish")
  /\ pub'.queue_name = frame.queue_name /\ pub'.size = pub.size

NamesSize ==
  /\ PassesOn /\ UNCHANGED published
  /\ frame.type = HEADER_FRAME
  /\ pub'.queue_name = pub.queue_name /\ pub'.size = frame.body_size

PublishesBody ==
  /\ PassesOn /\ UNCHANGED pub
  /\ pc \in {"lookup", "deliver"} /\ frame.type = BODY_FRAME
  /\ \E b \in BOOLEAN : published' = Append(published, Item(pub, b))

OtherFrame ==
  /\ PassesOn /\ UNCHANGED <<pub, published>>
  /\ frame.type \notin {HEADER_FRAME, BODY_FRAME}
  /\ ~Is(frame, "basic", "publish")

LEMMA PublishingKinds ==
  ASSUME TypeOK, CutInv, FrameInv, HandlerInv, [Next]_vars
  PROVE  AtRest \/ NamesQueue \/ NamesSize \/ PublishesBody \/ OtherFrame
<1> USE DEF vars, input, fromPeer, thread, output, AtRest, PassesOn, Proceed, End, Throw
<1>1. CASE Peer \/ UNCHANGED vars \/ Quiescent
             \/ Elsewhere
  BY <1>1
     DEF Peer, PeerGreets, PeerSends, PeerCuts, PeerShuts, PeerResets,
         Quiescent, Elsewhere, DeclaredElsewhere, RepliedElsewhere
<1>2. CASE Read
  BY <1>2
     DEF Read, ReceiveProtocolHeader, ReceiveProtocolHeaderAgain, Greet,
         ReceiveHeader, ReceiveEmptyPayload, ReceivePayload, ReceiveEnd,
         Receive, Continue
<1>3. CASE SendProtocolHeader \/ SendConnectionStart
             \/ \E label \in {"send_protocol_header", "send_start", "reply"} :
                  WriteFails(label)
  BY <1>3 DEF SendProtocolHeader, SendConnectionStart, Welcomes, WriteFails
<1>4. CASE \/ ProcessConnection \/ ProcessChannel \/ ProcessDeclare
           \/ ProcessConsume \/ ProcessUnknownType \/ Close \/ Finish
           \/ DeliverFails \/ PublishTo
  BY <1>4
     DEF ProcessConnection, ProcessChannel, ProcessDeclare, ProcessConsume,
         ProcessUnknownType, Close, Finish, DeliverFails, PublishTo
<1>5. CASE ProcessBodyFrame
  BY <1>5 DEF ProcessBodyFrame, TypeOK
<1>6. CASE ProcessTuneOk \/ ProcessAck \/ ProcessHeartbeat
  <2>1. OtherFrame
    BY <1>6
       DEF ProcessTuneOk, ProcessAck, ProcessHeartbeat, Handles, OtherFrame,
           Is, METHOD_FRAME, HEADER_FRAME, BODY_FRAME, HEARTBEAT_FRAME
  <2> QED
    BY <2>1
<1>7. CASE ProcessPublish
  <2>1. NamesQueue
    BY <1>7 DEF ProcessPublish, Handles, NamesQueue, TypeOK
  <2> QED
    BY <2>1
<1>8. CASE ProcessHeaderFrame
  <2>1. NamesSize \/ AtRest
    BY <1>8 DEF ProcessHeaderFrame, NamesSize, TypeOK
  <2> QED
    BY <2>1
<1>9. CASE PublishNowhere \/ Deliver
  <2>1. PublishesBody
    BY <1>9
       DEF PublishNowhere, Deliver, Publication, PublishesBody, HandlerInv, Item
  <2> QED
    BY <2>1
<1>10. CASE Reply
  <2>1. ReplyTo(frame) # "none" /\ PassesOn /\ UNCHANGED <<pub, published>>
    BY <1>10 DEF Reply, HandlerInv
  <2>2. frame.type = METHOD_FRAME /\ ~Is(frame, "basic", "publish")
    BY <2>1 DEF ReplyTo, Is
  <2>3. OtherFrame
    BY <2>1, <2>2 DEF OtherFrame, METHOD_FRAME, HEADER_FRAME, BODY_FRAME
  <2> QED
    BY <2>3
<1> QED
  BY <1>1, <1>2, <1>3, <1>4, <1>5, <1>6, <1>7, <1>8, <1>9, <1>10
     DEF Next, Process, Write

Kept == \A k \in 1 .. Len(sent) : sent'[k] = sent[k]

\* More frames do not change what came before an earlier one.
LEMMA BeforeKeeps ==
  ASSUME TypeOK, Kept, NEW n \in Nat \ {0}, n - 1 <= Len(sent), NEW v
  PROVE  /\ QueueBefore(n, v) => QueueBefore(n, v)'
         /\ SizeBefore(n, v) => SizeBefore(n, v)'
<1>1. Len(sent) \in Nat
  BY DEF TypeOK
<1>2. \A k \in 1 .. n - 1 : sent'[k] = sent[k]
  BY <1>1 DEF Kept
<1>3. \A k \in 1 .. n - 1 : \A j \in k + 1 .. n - 1 : j \in 1 .. n - 1
  OBVIOUS
<1>4. QueueBefore(n, v) => QueueBefore(n, v)'
  BY <1>2, <1>3 DEF QueueBefore, Is
<1>5. SizeBefore(n, v) => SizeBefore(n, v)'
  BY <1>2, <1>3 DEF SizeBefore
<1> QED
  BY <1>4, <1>5

\* How the last publish and the last header move when frame n is passed.
LEMMA BeforeMoves ==
  ASSUME NEW n \in Nat \ {0}, NEW v
  PROVE  /\ Is(sent[n], "basic", "publish") /\ v = sent[n].queue_name
              => QueueBefore(n + 1, v)
         /\ ~Is(sent[n], "basic", "publish") /\ QueueBefore(n, v)
              => QueueBefore(n + 1, v)
         /\ sent[n].type = HEADER_FRAME /\ v = sent[n].body_size
              => SizeBefore(n + 1, v)
         /\ sent[n].type # HEADER_FRAME /\ SizeBefore(n, v)
              => SizeBefore(n + 1, v)
<1>1. /\ n \in 1 .. (n + 1) - 1
      /\ \A j \in n + 1 .. (n + 1) - 1 : FALSE
      /\ \A k \in 1 .. n - 1 : k \in 1 .. (n + 1) - 1
      /\ \A k \in 1 .. (n + 1) - 1 : k = n \/ k \in 1 .. n - 1
      /\ \A k \in 1 .. n - 1 : \A j \in k + 1 .. (n + 1) - 1 :
           j = n \/ j \in k + 1 .. n - 1
  OBVIOUS
<1>2. Is(sent[n], "basic", "publish") /\ v = sent[n].queue_name
        => QueueBefore(n + 1, v)
  BY <1>1 DEF QueueBefore
<1>3. ~Is(sent[n], "basic", "publish") /\ QueueBefore(n, v)
        => QueueBefore(n + 1, v)
  BY <1>1 DEF QueueBefore
<1>4. sent[n].type = HEADER_FRAME /\ v = sent[n].body_size
        => SizeBefore(n + 1, v)
  BY <1>1 DEF SizeBefore
<1>5. sent[n].type # HEADER_FRAME /\ SizeBefore(n, v) => SizeBefore(n + 1, v)
  BY <1>1 DEF SizeBefore
<1> QED
  BY <1>2, <1>3, <1>4, <1>5

\* The thread is at most one frame ahead of the peer.
LEMMA NextInSent ==
  ASSUME TypeOK, OnlyWholeFrames PROVE next - 1 <= Len(sent)
<1>1. CASE next = 1
  BY <1>1 DEF TypeOK
<1>2. CASE next # 1
  BY <1>2 DEF TypeOK, OnlyWholeFrames
<1> QED
  BY <1>1, <1>2

LEMMA PubStep ==
  ASSUME TypeOK, TypeOK', CutInv, FrameInv, HandlerInv, OnlyWholeFrames, PubInv,
         [Next]_vars
  PROVE  PubInv'
<1>1. Kept /\ next \in Nat \ {0} /\ next - 1 <= Len(sent)
  BY StepKeeps, NextInSent DEF Kept, TypeOK
<1>2. pc' \in {"lookup", "deliver"} => pub'.body = next'
  BY PublishingKinds
     DEF AtRest, NamesQueue, NamesSize, PublishesBody, OtherFrame, PassesOn,
         PubInv
<1>3. PICK n, q, z : n = next /\ q = pub.queue_name /\ z = pub.size
  OBVIOUS
<1>4. QueueBefore(n, q) /\ SizeBefore(n, z)
  BY <1>3 DEF PubInv
<1>5. CASE AtRest
  <2>1. QueueBefore(n, q)' /\ SizeBefore(n, z)'
    BY <1>1, <1>3, <1>4, BeforeKeeps
  <2>2. next' = n /\ pub'.queue_name = q /\ pub'.size = z
    BY <1>3, <1>5 DEF AtRest
  <2> QED
    BY <1>2, <2>1, <2>2 DEF PubInv, QueueBefore, SizeBefore
<1>6. CASE PassesOn
  <2>1. PICK q1, z1 : q1 = pub'.queue_name /\ z1 = pub'.size
    OBVIOUS
  <2>2. QueueBefore(n + 1, q1)
    <3>1. CASE NamesQueue
      <4>1. Is(sent[n], "basic", "publish") /\ q1 = sent[n].queue_name
        BY <1>3, <2>1, <3>1 DEF NamesQueue, frame
      <4> QED
        BY <1>1, <1>3, <4>1, BeforeMoves
    <3>2. CASE NamesSize \/ PublishesBody \/ OtherFrame
      <4>1. ~Is(sent[n], "basic", "publish") /\ q1 = q
        BY <1>3, <2>1, <3>2
           DEF NamesSize, PublishesBody, OtherFrame, frame, Is, METHOD_FRAME,
               HEADER_FRAME, BODY_FRAME
      <4> QED
        BY <1>1, <1>3, <1>4, <4>1, BeforeMoves
    <3>3. ~AtRest
      BY <1>1, <1>6 DEF AtRest, PassesOn
    <3> QED
      BY <3>1, <3>2, <3>3, PublishingKinds
  <2>3. SizeBefore(n + 1, z1)
    <3>1. CASE NamesSize
      <4>1. sent[n].type = HEADER_FRAME /\ z1 = sent[n].body_size
        BY <1>3, <2>1, <3>1 DEF NamesSize, frame
      <4> QED
        BY <1>1, <1>3, <4>1, BeforeMoves
    <3>2. CASE NamesQueue \/ PublishesBody \/ OtherFrame
      <4>1. sent[n].type # HEADER_FRAME /\ z1 = z
        BY <1>3, <2>1, <3>2
           DEF NamesQueue, PublishesBody, OtherFrame, frame, Is, METHOD_FRAME,
               HEADER_FRAME, BODY_FRAME
      <4> QED
        BY <1>1, <1>3, <1>4, <4>1, BeforeMoves
    <3>3. ~AtRest
      BY <1>1, <1>6 DEF AtRest, PassesOn
    <3> QED
      BY <3>1, <3>2, <3>3, PublishingKinds
  <2>4. UNCHANGED sent /\ next' = n + 1
    BY <1>3, <1>6 DEF PassesOn
  <2> QED
    BY <1>2, <2>1, <2>2, <2>3, <2>4 DEF PubInv, QueueBefore, SizeBefore
<1> QED
  BY <1>5, <1>6, PublishingKinds
     DEF NamesQueue, NamesSize, PublishesBody, OtherFrame

LEMMA PublishedStep ==
  ASSUME TypeOK, TypeOK', CutInv, FrameInv, HandlerInv, OnlyWholeFrames, PubInv,
         PublishedInOrder, [Next]_vars
  PROVE  PublishedInOrder'
<1>1. Kept /\ next \in Nat \ {0} /\ next - 1 <= Len(sent)
      /\ Len(sent) \in Nat
  BY StepKeeps, NextInSent, SMTT(30) DEF Kept, TypeOK
<1>2. \A k \in 1 .. next - 1 : sent'[k] = sent[k]
  BY <1>1 DEF Kept
<1>3. \A j \in DOMAIN published : published[j].body \in 1 .. next - 1
  BY DEF PublishedInOrder
\* What was published stays right.
<1>4. ASSUME NEW j \in DOMAIN published, NEW n, NEW q, NEW z,
             n = published[j].body, q = published[j].queue_name,
             z = published[j].size
      PROVE  QueueBefore(n, q)' /\ SizeBefore(n, z)'
  <2>1. n \in Nat \ {0} /\ n - 1 <= Len(sent)
    BY <1>1, <1>3, <1>4
  <2>2. QueueBefore(n, q) /\ SizeBefore(n, z)
    BY <1>4 DEF PublishedInOrder
  <2> QED
    BY <1>1, <2>1, <2>2, BeforeKeeps
<1>5. CASE UNCHANGED published
  <2>1. {k \in 1 .. next' - 1 : sent'[k].type = BODY_FRAME}
          = {k \in 1 .. next - 1 : sent[k].type = BODY_FRAME}
    <3>1. CASE AtRest
      BY <1>2, <3>1 DEF AtRest
    <3>2. CASE NamesQueue \/ NamesSize \/ OtherFrame
      <4>1. UNCHANGED sent /\ next' = next + 1 /\ sent[next].type # BODY_FRAME
        BY <3>2
           DEF NamesQueue, NamesSize, OtherFrame, PassesOn, frame, Is,
               METHOD_FRAME, HEADER_FRAME, BODY_FRAME
      <4>2. \A k \in 1 .. (next + 1) - 1 : k = next \/ k \in 1 .. next - 1
        BY <1>1
      <4>3. \A k \in 1 .. next - 1 : k \in 1 .. (next + 1) - 1
        BY <1>1
      <4> QED
        BY <4>1, <4>2, <4>3
    <3>3. ~PublishesBody
      <4>1. published \in Seq([queue_name : Name \cup {NoName}, size : Nat,
                               body : Nat, delivered : BOOLEAN])
        BY DEF TypeOK
      <4>2. \A b \in BOOLEAN : Append(published, Item(pub, b)) # published
        <5>1. \A b \in BOOLEAN : Len(Append(published, Item(pub, b)))
                                    = Len(published) + 1
          BY <4>1
        <5>2. Len(published) # Len(published) + 1
          BY <4>1
        <5> QED
          BY <5>1, <5>2
      <4> QED
        BY <1>5, <4>2 DEF PublishesBody
    <3> QED
      BY <3>1, <3>2, <3>3, PublishingKinds
  <2>2. ASSUME NEW j \in DOMAIN published
        PROVE  /\ QueueBefore(published[j].body, published[j].queue_name)'
               /\ SizeBefore(published[j].body, published[j].size)'
    <3>1. PICK n, q, z : /\ n = published[j].body
                         /\ q = published[j].queue_name
                         /\ z = published[j].size
      OBVIOUS
    <3>2. QueueBefore(n, q)' /\ SizeBefore(n, z)'
      BY <1>4, <3>1
    <3> QED
      BY <1>5, <3>1, <3>2 DEF QueueBefore, SizeBefore
  <2> QED
    BY <1>5, <2>1, <2>2 DEF PublishedInOrder
<1>6. CASE PublishesBody
  <2>1. PICK b \in BOOLEAN : published' = Append(published, Item(pub, b))
    BY <1>6 DEF PublishesBody
  <2>2. /\ pub.body = next /\ sent[next].type = BODY_FRAME
        /\ UNCHANGED sent /\ next' = next + 1
    BY <1>6 DEF PublishesBody, PubInv, PassesOn, frame
  <2>3. PICK last : last = Len(published) + 1
    OBVIOUS
  <2>4. /\ last \in Nat /\ DOMAIN published = 1 .. last - 1
        /\ DOMAIN published' = 1 .. last
        /\ \A j \in 1 .. last - 1 : published'[j] = published[j]
        /\ published'[last] = Item(pub, b)
    <3>1. PICK S : published \in Seq(S) /\ S = [queue_name : Name \cup {NoName},
                     size : Nat, body : Nat, delivered : BOOLEAN]
      BY DEF TypeOK
    <3>2. Len(published) \in Nat /\ DOMAIN published = 1 .. Len(published)
      BY <3>1
    <3>3. PICK it : it = Item(pub, b)
      OBVIOUS
    <3>4. published' = Append(published, it)
      BY <2>1, <3>3
    <3>5. /\ DOMAIN published' = 1 .. Len(published) + 1
          /\ published'[Len(published) + 1] = it
          /\ \A j \in 1 .. Len(published) : published'[j] = published[j]
      BY <3>1, <3>4
    <3> QED
      BY <2>3, <3>2, <3>3, <3>5
  <2>5. /\ published'[last].body = next
        /\ published'[last].queue_name = pub.queue_name
        /\ published'[last].size = pub.size
    BY <2>2, <2>4 DEF Item
  <2>6. \A j \in DOMAIN published' : j = last \/ j \in DOMAIN published
    BY <2>4
  <2>7. last \in DOMAIN published'
        /\ \A j \in DOMAIN published : j \in DOMAIN published'
    BY <2>4, <2>3
  <2>8. {published'[j].body : j \in DOMAIN published'} =
          {published[j].body : j \in DOMAIN published} \cup {next}
    BY <2>4, <2>5, <2>6, <2>7
  <2>9. {k \in 1 .. next' - 1 : sent'[k].type = BODY_FRAME}
          = {k \in 1 .. next - 1 : sent[k].type = BODY_FRAME} \cup {next}
    <3>1. \A k \in 1 .. (next + 1) - 1 : k = next \/ k \in 1 .. next - 1
      BY <1>1
    <3>2. next \in 1 .. (next + 1) - 1
          /\ \A k \in 1 .. next - 1 : k \in 1 .. (next + 1) - 1
      BY <1>1
    <3> QED
      BY <2>2, <3>1, <3>2
  <2>10. \A j, k \in DOMAIN published' :
           j < k => published'[j].body < published'[k].body
    <3>1. ASSUME NEW j \in DOMAIN published', NEW k \in DOMAIN published', j < k
          PROVE  published'[j].body < published'[k].body
      <4>1. j \in DOMAIN published
        BY <2>4, <3>1
      <4>2. CASE k = last
        BY <1>1, <1>3, <2>4, <2>5, <4>1, <4>2
      <4>3. CASE k \in DOMAIN published
        BY <2>4, <3>1, <4>1, <4>3 DEF PublishedInOrder
      <4> QED
        BY <2>6, <4>2, <4>3
    <3> QED
      BY <3>1
  <2>11. ASSUME NEW j \in DOMAIN published'
         PROVE  /\ QueueBefore(published[j].body, published[j].queue_name)'
                /\ SizeBefore(published[j].body, published[j].size)'
    <3>1. PICK n, q, z : /\ n = published'[j].body
                         /\ q = published'[j].queue_name
                         /\ z = published'[j].size
      OBVIOUS
    <3>2. QueueBefore(n, q)' /\ SizeBefore(n, z)'
      <4>1. CASE j \in DOMAIN published
        BY <1>4, <2>4, <3>1, <4>1
      <4>2. CASE j = last
        <5>1. n = next /\ q = pub.queue_name /\ z = pub.size
          BY <2>5, <3>1, <4>2
        <5>2. QueueBefore(n, q) /\ SizeBefore(n, z)
          BY <5>1 DEF PubInv
        <5> QED
          BY <1>1, <5>1, <5>2, BeforeKeeps
      <4> QED
        BY <2>6, <4>1, <4>2
    <3> QED
      BY <3>1, <3>2 DEF QueueBefore, SizeBefore
  <2> QED
    BY <2>8, <2>9, <2>10, <2>11 DEF PublishedInOrder
<1> QED
  BY <1>5, <1>6, PublishingKinds
     DEF AtRest, NamesQueue, NamesSize, OtherFrame

\* Frame.c:174-176,219,231, Basic.c:67.  Every body frame dealt with is
\* published once and in order, with the latest queue name and the latest size,
\* whatever other frames come between and wherever the peer stops.
THEOREM PublicationsInOrder == Spec => []PublishedInOrder
<1>1. Init => PubInv /\ PublishedInOrder
  BY DEF Init, PubInv, PublishedInOrder, QueueBefore, SizeBefore
<1>2. /\ IndInv /\ IndInv' /\ PubInv /\ PublishedInOrder /\ [Next]_vars
      => PubInv' /\ PublishedInOrder'
  BY PubStep, PublishedStep DEF IndInv
<1>3. QED
  BY <1>1, <1>2, Invariance, PTL DEF Spec

-----------------------------------------------------------------------------
(* Nothing is done twice. *)

LEMMA StagesListed ==
  /\ StagesAhead["freed"] = 0 /\ StagesAhead["exited"] = 0
  /\ StagesAhead["closing"] = 1 /\ StagesAhead["close"] = 2
  /\ StagesAhead["deliver"] = 3 /\ StagesAhead["reply"] = 4
  /\ StagesAhead["lookup"] = 4 /\ StagesAhead["process"] = 5
  /\ StagesAhead["recv_end"] = 6 /\ StagesAhead["recv_payload"] = 7
  /\ StagesAhead["recv_header"] = 8 /\ StagesAhead["send_start"] = 9
  /\ StagesAhead["greet_again"] = 10 /\ StagesAhead["send_protocol_header"] = 11
  /\ StagesAhead["greet"] = 12
BY DEF StagesAhead

\* The thread is never past the frame after the last one.
LEMMA FramesLeft ==
  ASSUME TypeOK, FrameInv, OnlyWholeFrames
  PROVE  /\ next \in Nat /\ Len(sent) \in Nat /\ next <= Len(sent) + 1
         /\ pc \in AtFrame => next <= Len(sent)
<1>1. next \in Nat \ {0} /\ Len(sent) \in Nat
  BY DEF TypeOK
<1>2. next <= Len(sent) + 1
  <2>1. CASE next = 1
    BY <1>1, <2>1
  <2>2. CASE next # 1
    <3>1. next - 1 \in 1 .. next - 1
      BY <1>1, <2>2
    <3>2. next - 1 < Len(sent) \/ next - 1 = Len(sent)
      BY <3>1 DEF OnlyWholeFrames
    <3>3. QED
      BY <1>1, <3>2
  <2>3. QED
    BY <2>1, <2>2
<1>3. pc \in AtFrame => next <= Len(sent)
  BY <1>1 DEF FrameInv, AtFrame, Whole
<1>4. QED
  BY <1>1, <1>2, <1>3

\* A step of the thread goes a stage on, or is done with a frame.
Later == next' = next /\ StagesAhead[pc'] < StagesAhead[pc]
Done == /\ next' = next + 1 /\ pc \in AtFrame
        /\ StagesAhead[pc'] <= 8 /\ StagesAhead[pc] >= 3

LEMMA ThreadKinds ==
  ASSUME TypeOK, [Next]_vars
  PROVE  \/ UNCHANGED <<thread, output>>
         \/ UNCHANGED sent /\ (Later \/ Done)
<1> USE StagesListed
    DEF vars, input, fromPeer, thread, output, AtFrame, Later, Done, Proceed, End, Throw
<1>0. CASE UNCHANGED vars \/ Quiescent \/ Elsewhere
  BY <1>0 DEF Quiescent, Elsewhere, DeclaredElsewhere, RepliedElsewhere
<1>1. CASE Peer
  BY <1>1 DEF Peer, PeerGreets, PeerSends, PeerCuts, PeerShuts, PeerResets
<1>2. CASE ReceiveProtocolHeader \/ ReceiveProtocolHeaderAgain
  BY <1>2
     DEF ReceiveProtocolHeader, ReceiveProtocolHeaderAgain, Greet, Continue
<1>3. CASE SendProtocolHeader \/ SendConnectionStart
  BY <1>3 DEF SendProtocolHeader, SendConnectionStart, Welcomes
<1>4. CASE ReceiveHeader \/ ReceiveEmptyPayload \/ ReceivePayload \/ ReceiveEnd
  BY <1>4
     DEF ReceiveHeader, ReceiveEmptyPayload, ReceivePayload, ReceiveEnd,
         Receive, Continue, Piece
<1>5. CASE ProcessConnection \/ ProcessTuneOk \/ ProcessChannel \/ ProcessAck
  BY <1>5
     DEF ProcessConnection, ProcessTuneOk, ProcessChannel, ProcessAck, Handles
<1>6. CASE ProcessDeclare \/ ProcessConsume \/ ProcessPublish
  BY <1>6 DEF ProcessDeclare, ProcessConsume, ProcessPublish, Handles
<1>7. CASE ProcessHeaderFrame \/ ProcessBodyFrame \/ ProcessHeartbeat
             \/ ProcessUnknownType
  BY <1>7 DEF ProcessHeaderFrame, ProcessBodyFrame, ProcessHeartbeat,
              ProcessUnknownType
<1>8. CASE PublishNowhere \/ Deliver
  <2>1. /\ pc \in {"lookup", "deliver"} /\ pc' = "recv_header"
        /\ next' = next + 1 /\ UNCHANGED sent
    BY <1>8 DEF PublishNowhere, Deliver
  <2>2. Done
    BY <2>1
  <2>3. QED
    BY <2>1, <2>2
<1>9. CASE PublishTo \/ DeliverFails
  BY <1>9 DEF PublishTo, DeliverFails
<1>10. CASE Reply \/ Close \/ Finish
  BY <1>10 DEF Reply, Close, Finish
<1>11. CASE \E label \in {"send_protocol_header", "send_start", "reply"} :
              WriteFails(label)
  BY <1>11 DEF WriteFails
<1>12. QED
  BY <1>0, <1>1, <1>2, <1>3, <1>4, <1>5, <1>6, <1>7, <1>8, <1>9, <1>10, <1>11
     DEF Next, Read, Process, Write

\* Connection.c:32-48, Frame.c:142-159.  Every step of the thread brings it
\* nearer to the end of what the peer has sent, whatever that is and wherever it
\* stops.
THEOREM ThreadOnlyAdvances == Spec => ThreadAdvances
<1>1. /\ IndInv /\ IndInv' /\ [Next]_vars
      => (<<thread, output>>' # <<thread, output>> =>
            StepsAhead' \in 0 .. StepsAhead - 1)
  <2> SUFFICES ASSUME IndInv, IndInv', [Next]_vars,
                      <<thread, output>>' # <<thread, output>>
               PROVE  StepsAhead' \in 0 .. StepsAhead - 1
    OBVIOUS
  <2>1. /\ next \in Nat /\ Len(sent) \in Nat /\ next <= Len(sent) + 1
        /\ pc \in AtFrame => next <= Len(sent)
    BY FramesLeft DEF IndInv
  <2>2. UNCHANGED sent /\ (Later \/ Done)
    BY ThreadKinds DEF IndInv
  <2>3. StagesAhead[pc] \in Nat /\ StagesAhead[pc'] \in Nat
    <3>1. pc \in Labels /\ pc' \in Labels
      BY DEF IndInv, TypeOK
    <3>2. \A label \in Labels : StagesAhead[label] \in Nat
      BY StagesListed, LabelsListed
    <3>3. QED
      BY <3>1, <3>2
  <2>4. Len(sent)' = Len(sent)
    BY <2>2
  <2>5. CASE Later
    BY <2>1, <2>3, <2>4, <2>5 DEF StepsAhead, Later
  <2>6. CASE Done
    BY <2>1, <2>3, <2>4, <2>6, SMTT(30) DEF StepsAhead, Done
  <2>7. QED
    BY <2>2, <2>5, <2>6
<1>2. QED
  BY <1>1, Invariance, PTL DEF Spec, ThreadAdvances
=============================================================================
