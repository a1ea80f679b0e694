---------------------------- MODULE ServerProofs ----------------------------
(***************************************************************************)
(* Theorems about Server: for every number of connections, of descriptors  *)
(* and of calls a stack holds, and whatever each peer may do.              *)
(***************************************************************************)
EXTENDS Server, TLAPS

-----------------------------------------------------------------------------
(* The thread and the ring. *)

\* What a thread's place says of its record.
ThreadInv ==
  \A c \in Conn :
    /\ pc[c] # "absent" => socket[c] \in Fd
    /\ closed[c] => pc[c] \in {"close", "release", "gone"}
    /\ pc[c] \in {"release", "gone"} => closed[c]
    /\ pc[c] = "blocked" => stream[c] \in Conn

\* There is somebody whose turn it is.
RingInv == (ring = <<>> /\ turn = 1) \/ turn \in DOMAIN ring

Base == TypeOK /\ ThreadInv /\ RingInv

LEMMA InitBase == Init => Base
<1> SUFFICES ASSUME Init PROVE Base
  OBVIOUS
<1>1. /\ ring = <<>> /\ turn = 1 /\ handed = <<>>
  BY DEF Init, Q!Init
<1>2. /\ ring \in Seq(Conn) /\ handed \in Seq(Conn) /\ turn \in Nat \ {0}
  BY <1>1
<1>3. NoDelivery \in Items
  BY DEF NoDelivery, Item, Items
<1>4. /\ down \in {"no"} \cup Causes
      /\ table \in [Fd -> Conn \cup {Null}]
      /\ peer \in [Conn -> {"absent", "up", "shut", "reset"}]
      /\ pc \in [Conn -> Labels]
      /\ socket \in [Conn -> Fd \cup {Null}]
      /\ closed \in [Conn -> BOOLEAN]
      /\ stream \in [Conn -> Conn \cup {Null}]
      /\ reused \in BOOLEAN
  BY DEF Init, Labels
<1>5. /\ depth \in [Conn -> Nat]
      /\ tag \in [Conn -> Nat]
      /\ seen \in [Conn -> Nat]
  BY DEF Init
<1>6. draft \in [Conn -> Items] /\ wire \in [Conn -> Seq(Items)]
  BY <1>3 DEF Init
<1>7. TypeOK
  BY <1>2, <1>4, <1>5, <1>6 DEF TypeOK
<1>8. ThreadInv
  BY DEF Init, ThreadInv
<1> QED
  BY <1>1, <1>7, <1>8 DEF Base, RingInv

-----------------------------------------------------------------------------
(* The steps, action by action. *)

LEMMA AcceptBase ==
  ASSUME Base, NEW c \in Conn, Accept(c)
  PROVE  Base'
<1>1. PICK f \in Free :
        /\ table' = [table EXCEPT ![f] = c]
        /\ socket' = [socket EXCEPT ![c] = f]
        /\ reused' = (reused \/ \E d \in Conn : ClosesAgain(d) /\ socket[d] = f)
  BY DEF Accept
<1>2. f \in Fd
  BY DEF Free
<1>3. PICK l \in {"recv", "unserved"} : pc' = [pc EXCEPT ![c] = l]
  BY DEF Accept, Goto
<1>4. /\ pc[c] = "absent"
      /\ peer' = [peer EXCEPT ![c] = "up"]
      /\ UNCHANGED <<down, closed, stream, depth, ring, turn, handed, tag, seen,
                     draft, wire>>
  BY DEF Accept, At, queue, registers
<1>5. TypeOK'
  <2>1. pc' \in [Conn -> Labels]
    BY <1>3 DEF Base, TypeOK, Labels, Working
  <2>2. /\ table' \in [Fd -> Conn \cup {Null}]
        /\ socket' \in [Conn -> Fd \cup {Null}]
        /\ peer' \in [Conn -> {"absent", "up", "shut", "reset"}]
    BY <1>1, <1>2, <1>4 DEF Base, TypeOK
  <2>3. reused' \in BOOLEAN
    BY <1>1 DEF Base, TypeOK
  <2> QED
    BY <1>4, <2>1, <2>2, <2>3 DEF Base, TypeOK
<1>6. ThreadInv'
  BY <1>1, <1>2, <1>3, <1>4 DEF Base, TypeOK, ThreadInv
<1> QED
  BY <1>4, <1>5, <1>6 DEF Base, RingInv

LEMMA PeerBase ==
  ASSUME Base, NEW c \in Conn, PeerShuts(c) \/ PeerResets(c)
  PROVE  Base'
<1>1. PICK p \in {"shut", "reset"} : peer' = [peer EXCEPT ![c] = p]
  BY DEF PeerShuts, PeerResets
<1>2. UNCHANGED <<down, table, pc, socket, closed, stream, depth, ring, turn, handed,
                  tag, seen, draft, wire, reused>>
  BY DEF PeerShuts, PeerResets, queue, registers
<1>3. peer' \in [Conn -> {"absent", "up", "shut", "reset"}]
  BY <1>1 DEF Base, TypeOK
<1> QED
  BY <1>2, <1>3 DEF Base, TypeOK, ThreadInv, RingInv

LEMMA DownBase ==
  ASSUME Base, NEW cause \in Causes, Down(cause)
  PROVE  Base'
BY DEF Base, TypeOK, ThreadInv, RingInv, Down, queue, registers

\* A step of a thread at which nothing happens to the records' control.
Inner == Working \ {"close_method", "close", "release"}

LEMMA InnerBase ==
  ASSUME Base, NEW c \in Conn, NEW l \in Working \ {"release"},
         pc[c] \in Inner,
         pc' = [pc EXCEPT ![c] = l],
         UNCHANGED <<table, peer, socket, closed, reused>>,
         down' = down,
         \/ stream' = stream
         \/ \E s \in Conn \cup {Null} :
              stream' = [stream EXCEPT ![c] = s],
         l = "blocked" => stream'[c] \in Conn,
         depth' \in [Conn -> Nat], tag' \in [Conn -> Nat], seen' \in [Conn -> Nat],
         draft' \in [Conn -> Items], wire' \in [Conn -> Seq(Items)],
         ring' \in Seq(Conn), turn' \in Nat \ {0}, handed' \in Seq(Conn), RingInv'
  PROVE  Base'
<1>1. pc' \in [Conn -> Labels]
  BY DEF Base, TypeOK, Labels
<1>2. stream' \in [Conn -> Conn \cup {Null}]
  BY DEF Base, TypeOK
<1>3. TypeOK'
  BY <1>1, <1>2 DEF Base, TypeOK
<1>4. \A d \in Conn : d # c => pc'[d] = pc[d] /\ stream'[d] = stream[d]
  BY DEF Base, TypeOK
<1>5. pc'[c] = l
  BY DEF Base, TypeOK
<1>6. pc[c] # "absent" /\ pc[c] \notin {"close", "release", "gone"}
      /\ l # "absent" /\ l \notin {"release", "gone"}
  BY DEF Inner, Working, Consuming, Delivering
<1>7. ThreadInv'
  BY <1>4, <1>5, <1>6 DEF Base, ThreadInv
<1> QED
  BY <1>3, <1>7 DEF Base

LEMMA BeginRecvBase ==
  ASSUME Base, NEW c \in Conn, BeginRecv(c)
  PROVE  Base'
<1>1. /\ pc[c] = "recv" /\ pc' = [pc EXCEPT ![c] = "blocked"]
      /\ stream' = [stream EXCEPT ![c] = table[socket[c]]]
      /\ depth' = [depth EXCEPT ![c] = @ + 1]
      /\ table[socket[c]] # Null
      /\ UNCHANGED <<down, table, peer, socket, closed, ring, turn, handed, tag,
                     seen, draft, wire, reused>>
  BY DEF BeginRecv, At, Goto, queue, registers
<1>2. table[socket[c]] \in Conn
  BY <1>1 DEF Base, TypeOK, ThreadInv
<1>3. stream'[c] \in Conn /\ depth' \in [Conn -> Nat]
  BY <1>1, <1>2 DEF Base, TypeOK
<1>4. pc[c] \in Inner /\ "blocked" \in Working \ {"release"}
  BY <1>1 DEF Inner, Working
<1> QED
  BY <1>1, <1>2, <1>3, <1>4, InnerBase DEF Base, TypeOK, RingInv

\* A frame, whatever becomes of the queue.
LEMMA GetFrameBase ==
  ASSUME Base, NEW c \in Conn, NEW from,
         NEW label \in {"answer", "recv", "declare", "dispatch", "close_ok",
                       "define_tag"},
         GetFrame(c, from, label), UNCHANGED queue \/ Q!Register(c)
  PROVE  Base'
<1>1. /\ pc[c] = "blocked" /\ pc' = [pc EXCEPT ![c] = label]
      /\ stream' = [stream EXCEPT ![c] = Null]
      /\ UNCHANGED <<down, table, peer, socket, closed, depth, tag, seen, draft,
                     wire, reused>>
  BY DEF GetFrame, At, Goto, registers
<1>2. pc[c] \in Inner /\ label \in Working \ {"release"} /\ label # "blocked"
  BY <1>1 DEF Inner, Working, Consuming, Delivering
<1>3. /\ ring' \in Seq(Conn) /\ turn' \in Nat \ {0} /\ handed' \in Seq(Conn)
      /\ RingInv'
  <2>1. CASE UNCHANGED queue
    BY <2>1 DEF queue, Base, TypeOK, RingInv
  <2>2. CASE Q!Register(c)
    <3>1. ring' = Append(ring, c) /\ handed' = <<>> /\ turn' = turn
      BY <2>2 DEF Q!Register
    <3>2. ring' \in Seq(Conn) /\ handed' \in Seq(Conn)
      BY <3>1 DEF Base, TypeOK
    <3>3. turn \in 1 .. Len(ring) + 1 /\ DOMAIN ring' = 1 .. Len(ring) + 1
      BY <3>1 DEF Base, TypeOK, RingInv
    <3> QED
      BY <3>1, <3>2, <3>3 DEF Base, TypeOK, RingInv
  <2> QED
    BY <2>1, <2>2
<1> QED
  BY <1>1, <1>2, <1>3, InnerBase DEF Base, TypeOK

LEMMA GetEndBase ==
  ASSUME Base, NEW c \in Conn, GetEnd(c)
  PROVE  Base'
<1>1. /\ pc[c] = "blocked" /\ pc' = [pc EXCEPT ![c] = "close"]
      /\ stream' = [stream EXCEPT ![c] = Null]
      /\ depth' = [depth EXCEPT ![c] = 0]
      /\ UNCHANGED <<down, table, peer, socket, closed, ring, turn, handed, tag,
                     seen, draft, wire, reused>>
  BY DEF GetEnd, At, Goto, queue, registers
<1>2. pc[c] \in Inner /\ "close" \in Working \ {"release"}
  BY <1>1 DEF Inner, Working
<1>3. depth' \in [Conn -> Nat]
  BY <1>1 DEF Base, TypeOK
<1> QED
  BY <1>1, <1>2, <1>3, InnerBase DEF Base, TypeOK, RingInv

\* The Write that succeeds.
Written(c, f, x, label) ==
  /\ f \in Fd /\ table[f] # Null /\ peer[table[f]] \in {"up", "shut"}
  /\ wire' = [wire EXCEPT ![table[f]] = Append(@, x)]
  /\ draft' = [draft EXCEPT ![c] = NoDelivery]
  /\ seen' = [seen EXCEPT ![c] = 0]
  /\ Goto(c, label)
  /\ UNCHANGED <<down, table, peer, socket, closed, stream, depth, queue, tag,
                 reused>>

LEMMA WriteCases ==
  ASSUME NEW c, NEW f, NEW x, NEW label, Write(c, f, x, label)
  PROVE  \/ Written(c, f, x, label)
         \/ /\ f \in Fd /\ table[f] # Null /\ peer[table[f]] \in {"shut", "reset"}
            /\ Down("peer_gone")
         \/ (f \in Fd => table[f] = Null) /\ Down("bad_descriptor")
BY DEF Write, Written

LEMMA WriteBase ==
  ASSUME Base, NEW c \in Conn, NEW f, NEW x \in Items,
         NEW label \in {"recv", "close_method"}, pc[c] \in Inner,
         Write(c, f, x, label)
  PROVE  Base'
<1>1. ASSUME Written(c, f, x, label) PROVE Base'
  <2>1. /\ f \in Fd /\ table[f] \in Conn
        /\ wire' = [wire EXCEPT ![table[f]] = Append(@, x)]
        /\ draft' = [draft EXCEPT ![c] = NoDelivery]
        /\ seen' = [seen EXCEPT ![c] = 0]
        /\ pc' = [pc EXCEPT ![c] = label]
        /\ UNCHANGED <<down, table, peer, socket, closed, stream, depth, ring,
                       turn, handed, tag, reused>>
    BY <1>1 DEF Written, Goto, queue, Base, TypeOK
  <2>2. NoDelivery \in Items
    BY DEF NoDelivery, Item, Items
  <2>3. wire' \in [Conn -> Seq(Items)]
    <3>1. \A d \in Conn : Append(wire[d], x) \in Seq(Items)
      BY DEF Base, TypeOK
    <3> QED
      BY <2>1, <3>1 DEF Base, TypeOK
  <2>4. draft' \in [Conn -> Items] /\ seen' \in [Conn -> Nat]
    BY <2>1, <2>2 DEF Base, TypeOK
  <2>5. label \in Working \ {"release"} /\ label # "blocked"
    BY DEF Working
  <2> QED
    BY <2>1, <2>3, <2>4, <2>5, InnerBase DEF Base, TypeOK, RingInv
<1>2. CASE Down("peer_gone") \/ Down("bad_descriptor")
  BY <1>2, DownBase DEF Causes
<1> QED
  BY <1>1, <1>2, WriteCases

LEMMA TouchTagBase ==
  ASSUME Base, NEW c \in Conn, DefineTag(c) \/ FinishTag(c)
  PROVE  Base'
<1>1. PICK l \in {"finish_tag", "consume_ok"} : pc' = [pc EXCEPT ![c] = l]
  BY DEF DefineTag, FinishTag, TouchTag, Goto
<1>2. /\ pc[c] \in {"define_tag", "finish_tag"}
      /\ tag' = [tag EXCEPT ![c] = @ + 1]
      /\ UNCHANGED <<down, table, peer, socket, closed, stream, depth, ring, turn,
                     handed, seen, draft, wire, reused>>
  BY DEF DefineTag, FinishTag, TouchTag, At, queue, registers
<1>3. pc[c] \in Inner /\ l \in Working \ {"release"} /\ l # "blocked"
  BY <1>2 DEF Inner, Working, Consuming
<1>4. tag' \in [Conn -> Nat]
  BY <1>2 DEF Base, TypeOK
<1> QED
  BY <1>1, <1>2, <1>3, <1>4, InnerBase DEF Base, TypeOK, RingInv

\* Who is handed the delivery.
LEMMA HandedOut ==
  ASSUME Base, NEW c \in Conn, HandOut(c)
  PROVE  /\ pc[c] = "dispatch" /\ pc' = [pc EXCEPT ![c] = "announce"]
         /\ turn \in DOMAIN ring /\ ring[turn] \in Conn /\ ~closed[ring[turn]]
         /\ draft' = [draft EXCEPT ![c].to = ring[turn],
                                   ![c].early = ~Announced(ring[turn])]
         /\ ring' = ring /\ turn' \in DOMAIN ring
         /\ handed' = Append(handed, ring[turn])
         /\ UNCHANGED <<down, table, peer, socket, closed, stream, depth, tag, seen,
                        wire, reused>>
<1>1. /\ pc[c] = "dispatch" /\ pc' = [pc EXCEPT ![c] = "announce"]
      /\ ring # <<>> /\ ~closed[ring[turn]] /\ Q!Dispatch
      /\ draft' = [draft EXCEPT ![c].to = ring[turn],
                                ![c].early = ~Announced(ring[turn])]
      /\ UNCHANGED <<down, table, peer, socket, closed, stream, depth, tag, seen,
                     wire, reused>>
  BY DEF HandOut, At, Goto
<1>2. turn \in DOMAIN ring /\ ring[turn] \in Conn
  BY <1>1 DEF Base, TypeOK, RingInv
<1>3. /\ ring' = ring /\ handed' = Append(handed, ring[turn])
      /\ turn' = IF turn = Len(ring) THEN 1 ELSE turn + 1
  BY <1>1 DEF Q!Dispatch
<1>4. turn' \in DOMAIN ring
  BY <1>2, <1>3 DEF Base, TypeOK
<1> QED
  BY <1>1, <1>2, <1>3, <1>4

LEMMA DraftOf ==
  ASSUME Base, NEW c \in Conn
  PROVE  /\ draft[c].what \in {"reply", "consume_ok", "deliver"}
         /\ draft[c].to \in Conn \cup {Null} /\ draft[c].tag \in Int
         /\ draft[c].framed \in BOOLEAN /\ draft[c].early \in BOOLEAN
BY DEF Base, TypeOK, Items

\* An item with other fields.
LEMMA ItemExcept ==
  ASSUME NEW x \in Items, NEW to \in Conn, NEW t \in Int, NEW b \in BOOLEAN
  PROVE  /\ [x EXCEPT !.to = to, !.early = b] \in Items
         /\ [x EXCEPT !.tag = t, !.framed = b] \in Items
BY DEF Items

LEMMA HandOutBase ==
  ASSUME Base, NEW c \in Conn, HandOut(c)
  PROVE  Base'
<1>1. draft' \in [Conn -> Items]
  <2>1. /\ ring[turn] \in Conn
        /\ draft' = [draft EXCEPT ![c].to = ring[turn],
                                  ![c].early = ~Announced(ring[turn])]
    BY HandedOut
  <2>2. PICK early \in BOOLEAN : early = ~Announced(ring[turn])
    OBVIOUS
  <2>3. [draft[c] EXCEPT !.to = ring[turn], !.early = early] \in Items
    <3>1. draft[c] \in Items /\ 0 \in Int
      BY DEF Base, TypeOK
    <3> QED
      BY <2>1, <3>1, ItemExcept
  <2>4. draft' = [draft EXCEPT ![c] =
                    [draft[c] EXCEPT !.to = ring[turn], !.early = early]]
    BY <2>1, <2>2 DEF Base, TypeOK
  <2> QED
    BY <2>3, <2>4 DEF Base, TypeOK
<1>2. pc[c] \in Inner /\ "announce" \in Working \ {"release"}
  <2>1. pc[c] = "dispatch"
    BY HandedOut
  <2> QED
    BY <2>1 DEF Inner, Working, Delivering
<1>3. ring' \in Seq(Conn) /\ turn' \in Nat \ {0} /\ handed' \in Seq(Conn) /\ RingInv'
  <2>1. /\ ring' = ring /\ turn' \in DOMAIN ring /\ ring[turn] \in Conn
        /\ handed' = Append(handed, ring[turn])
    BY HandedOut
  <2>2. handed' \in Seq(Conn)
    BY <2>1 DEF Base, TypeOK
  <2>4. DOMAIN ring = 1 .. Len(ring) /\ Len(ring) \in Nat
    BY DEF Base, TypeOK
  <2>3. turn' \in Nat \ {0}
    BY <2>1, <2>4
  <2> QED
    BY <2>1, <2>2, <2>3 DEF Base, TypeOK, RingInv
<1>4. /\ pc' = [pc EXCEPT ![c] = "announce"]
      /\ UNCHANGED <<down, table, peer, socket, closed, stream, depth, tag, seen,
                     wire, reused>>
  BY HandedOut
<1> QED
  BY <1>1, <1>2, <1>3, <1>4, InnerBase DEF Base, TypeOK

LEMMA NowhereBase ==
  ASSUME Base, NEW c \in Conn, DispatchNowhere(c)
  PROVE  Base'
<1>1. /\ pc[c] = "dispatch" /\ pc' = [pc EXCEPT ![c] = "recv"]
      /\ UNCHANGED <<down, table, peer, socket, closed, stream, depth, ring, turn,
                     handed, tag, seen, draft, wire, reused>>
  BY DEF DispatchNowhere, At, Goto, queue, registers
<1>2. pc[c] \in Inner /\ "recv" \in Working \ {"release"}
  BY <1>1 DEF Inner, Working
<1> QED
  BY <1>1, <1>2, InnerBase DEF Base, TypeOK, RingInv

LEMMA AnnounceBase ==
  ASSUME Base, NEW c \in Conn, AnnounceDelivery(c), draft[c].to \in Conn
  PROVE  Base'
<1>1. /\ pc[c] = "announce" /\ pc' = [pc EXCEPT ![c] = "copy"]
      /\ seen' = [seen EXCEPT ![c] = tag[draft[c].to]]
      /\ UNCHANGED <<down, table, peer, socket, closed, stream, depth, ring, turn,
                     handed, tag, draft, wire, reused>>
  BY DEF AnnounceDelivery, At, Goto, queue
<1>2. pc[c] \in Inner /\ "copy" \in Working \ {"release"}
  BY <1>1 DEF Inner, Working, Delivering
<1>3. seen' \in [Conn -> Nat]
  BY <1>1 DEF Base, TypeOK
<1> QED
  BY <1>1, <1>2, <1>3, InnerBase DEF Base, TypeOK, RingInv

LEMMA CopyBase ==
  ASSUME Base, NEW c \in Conn, CopyTag(c), draft[c].to \in Conn
  PROVE  Base'
<1> DEFINE now == tag[draft[c].to]
           t == IF now = seen[c] /\ now % 2 = 0 THEN now ELSE Garbled
           fr == (now = 0 <=> seen[c] = 0)
<1>1. /\ pc[c] = "copy" /\ pc' = [pc EXCEPT ![c] = "write"]
      /\ draft' = [draft EXCEPT ![c].tag = t, ![c].framed = fr]
      /\ UNCHANGED <<down, table, peer, socket, closed, stream, depth, ring, turn,
                     handed, tag, seen, wire, reused>>
  BY DEF CopyTag, At, Goto, queue
<1>2. pc[c] \in Inner /\ "write" \in Working \ {"release"}
  BY <1>1 DEF Inner, Working, Delivering
<1>3. t \in Int /\ fr \in BOOLEAN
  BY DEF Base, TypeOK, Garbled
<1>4. draft' \in [Conn -> Items]
  <2> HIDE DEF t, fr
  <2>1. [draft[c] EXCEPT !.tag = t, !.framed = fr] \in Items
    <3>1. draft[c] \in Items
      BY DEF Base, TypeOK
    <3> QED
      BY <1>3, <3>1, ItemExcept
  <2>2. draft' = [draft EXCEPT ![c] = [draft[c] EXCEPT !.tag = t, !.framed = fr]]
    BY <1>1 DEF Base, TypeOK
  <2> QED
    BY <2>1, <2>2 DEF Base, TypeOK
<1> QED
  BY <1>1, <1>2, <1>4, InnerBase DEF Base, TypeOK, RingInv

LEMMA LockDeclareBase ==
  ASSUME Base, NEW c \in Conn, LockDeclare(c)
  PROVE  Base'
<1>1. /\ pc[c] = "declare" /\ pc' = [pc EXCEPT ![c] = "declare_ok"]
      /\ UNCHANGED <<down, table, peer, socket, closed, stream, depth, ring, turn,
                     handed, tag, seen, draft, wire, reused>>
  BY DEF LockDeclare, At, Goto, queue, registers
<1>2. pc[c] \in Inner /\ "declare_ok" \in Working \ {"release"}
  BY <1>1 DEF Inner, Working
<1> QED
  BY <1>1, <1>2, InnerBase DEF Base, TypeOK, RingInv

LEMMA CloseBase ==
  ASSUME Base, NEW c \in Conn, CloseMethod(c) \/ Close(c)
  PROVE  Base'
<1>1. PICK l \in {"close", "release"} : pc' = [pc EXCEPT ![c] = l]
  BY DEF CloseMethod, Close, CloseConnection, Goto
<1>2. /\ pc[c] \in {"close_method", "close"}
      /\ table' = [table EXCEPT ![socket[c]] = Null]
      /\ closed' = [closed EXCEPT ![c] = TRUE]
      /\ depth' = [depth EXCEPT ![c] = 0]
      /\ UNCHANGED <<down, peer, socket, stream, ring, turn, handed, tag, seen,
                     draft, wire, reused>>
  BY DEF CloseMethod, Close, CloseConnection, At, queue, registers
<1>3. /\ pc' \in [Conn -> Labels]
      /\ table' \in [Fd -> Conn \cup {Null}]
      /\ depth' \in [Conn -> Nat]
  BY <1>1, <1>2 DEF Base, TypeOK, Labels, Working
<1>4. closed' \in [Conn -> BOOLEAN]
  BY <1>2 DEF Base, TypeOK
<1>5. TypeOK'
  BY <1>2, <1>3, <1>4 DEF Base, TypeOK
<1>6. ThreadInv'
  BY <1>1, <1>2 DEF Base, TypeOK, ThreadInv
<1> QED
  BY <1>2, <1>5, <1>6 DEF Base, RingInv

LEMMA ReleaseBase ==
  ASSUME Base, NEW c \in Conn, Release(c)
  PROVE  Base'
<1>1. /\ pc[c] = "release" /\ pc' = [pc EXCEPT ![c] = "gone"]
      /\ UNCHANGED <<down, table, peer, socket, closed, stream, depth, ring, turn,
                     handed, tag, seen, draft, wire, reused>>
  BY DEF Release, At, Goto, queue, registers
<1>2. pc' \in [Conn -> Labels]
  BY <1>1 DEF Base, TypeOK, Labels
<1>3. ThreadInv'
  BY <1>1 DEF Base, TypeOK, ThreadInv
<1> QED
  BY <1>1, <1>2, <1>3 DEF Base, TypeOK, RingInv

-----------------------------------------------------------------------------
(* What a step does to the descriptors and the queue. *)

\* A thread goes on, perhaps into the queue.
Moves(c) ==
  /\ pc[c] \in Inner
  /\ \E l \in Working \ {"release"} : pc' = [pc EXCEPT ![c] = l]
  /\ UNCHANGED <<table, socket, closed, reused>>
  /\ ring' = ring \/ ring' = Append(ring, c)

Stays == UNCHANGED <<table, pc, socket, closed, stream, depth, ring, turn, tag, seen,
                     draft, wire, reused>>

Ends(c) == CloseMethod(c) \/ Close(c)

LEMMA WriteKind ==
  ASSUME NEW c \in Conn, NEW f, NEW x, NEW label \in {"recv", "close_method"},
         pc[c] \in Inner, Write(c, f, x, label)
  PROVE  Stays \/ Moves(c)
<1>1. label \in Working \ {"release"}
  BY DEF Working
<1>2. CASE Written(c, f, x, label)
  BY <1>1, <1>2 DEF Written, Moves, Goto, queue
<1>3. CASE Down("peer_gone") \/ Down("bad_descriptor")
  BY <1>3 DEF Down, Stays, queue, registers
<1> QED
  BY <1>2, <1>3, WriteCases

LEMMA SendKind ==
  ASSUME NEW c \in Conn, Send(c)
  PROVE  Stays \/ Moves(c)
<1>1. CASE Answer(c)
  BY <1>1, WriteKind DEF Answer, At, Inner, Working
<1>2. CASE SendCloseOk(c)
  BY <1>2, WriteKind DEF SendCloseOk, At, Inner, Working
<1>3. CASE SendConsumeOk(c)
  BY <1>3, WriteKind DEF SendConsumeOk, At, Inner, Working, Consuming
<1>4. CASE WriteDelivery(c)
  BY <1>4, WriteKind DEF WriteDelivery, At, Inner, Working, Delivering
<1>5. CASE SendDeclareOk(c)
  BY <1>5, WriteKind DEF SendDeclareOk, At, Inner, Working
<1> QED
  BY <1>1, <1>2, <1>3, <1>4, <1>5 DEF Send

LEMMA GetKind ==
  ASSUME NEW c \in Conn, Get(c)
  PROVE  Stays \/ Moves(c)
<1>1. "blocked" \in Inner
  BY DEF Inner, Working
<1>2. {"answer", "recv", "declare", "dispatch", "close_ok", "define_tag", "close"}
        \subseteq Working \ {"release"}
  BY DEF Working, Consuming
<1>3. CASE \/ GetRequest(c) \/ GetSilent(c) \/ GetBody(c) \/ GetDeclare(c)
           \/ GetClose(c)
  BY <1>1, <1>2, <1>3 DEF GetRequest, GetSilent, GetBody, GetDeclare, GetClose,
     GetFrame, At, Goto, Moves, queue
<1>4. CASE GetConsume(c)
  BY <1>1, <1>2, <1>4 DEF GetConsume, GetFrame, At, Goto, Moves, Q!Register
<1>5. CASE GetEnd(c)
  BY <1>1, <1>2, <1>5 DEF GetEnd, At, Goto, Moves, queue
<1>6. CASE GetHugeFrame(c) \/ GetLongBody(c)
  BY <1>6 DEF GetHugeFrame, GetLongBody, Down, Stays, queue, registers
<1> QED
  BY <1>3, <1>4, <1>5, <1>6 DEF Get

LEMMA ComputeKind ==
  ASSUME Base, NEW c \in Conn, Compute(c)
  PROVE  Stays \/ Ends(c) \/ Release(c) \/ Moves(c)
<1>1. {"recv", "define_tag", "finish_tag", "declare", "dispatch", "announce", "copy"}
        \subseteq Inner
  BY DEF Inner, Working, Consuming, Delivering
<1>2. {"blocked", "finish_tag", "consume_ok", "declare_ok", "recv", "announce",
       "copy", "write"} \subseteq Working \ {"release"}
  BY DEF Working, Consuming, Delivering
<1>3. CASE RecvFails(c) \/ StackOverflows(c) \/ DispatchEnded(c)
  BY <1>3 DEF RecvFails, StackOverflows, DispatchEnded, Down, Stays, queue, registers
<1>4. CASE BeginRecv(c)
  BY <1>1, <1>2, <1>4 DEF BeginRecv, At, Goto, Moves, queue
<1>5. CASE DefineTag(c) \/ FinishTag(c)
  BY <1>1, <1>2, <1>5 DEF DefineTag, FinishTag, TouchTag, At, Goto, Moves, queue
<1>6. CASE Dispatch(c)
  BY <1>1, <1>2, <1>6, HandedOut DEF Dispatch, Moves
<1>7. CASE DispatchNowhere(c)
  BY <1>1, <1>2, <1>7 DEF DispatchNowhere, At, Goto, Moves, queue
<1>8. CASE AnnounceDelivery(c)
  BY <1>1, <1>2, <1>8 DEF AnnounceDelivery, At, Goto, Moves, queue
<1>9. CASE CopyTag(c)
  BY <1>1, <1>2, <1>9 DEF CopyTag, At, Goto, Moves, queue
<1>10. CASE LockDeclare(c)
  BY <1>1, <1>2, <1>10 DEF LockDeclare, At, Goto, Moves, queue
<1> QED
  BY <1>3, <1>4, <1>5, <1>6, <1>7, <1>8, <1>9, <1>10 DEF Compute, Ends

\* Every step but accept's is of one of four kinds.
LEMMA Kinds ==
  ASSUME Base, [Next]_vars
  PROVE  Stays \/ \E c \in Conn : Accept(c) \/ Ends(c) \/ Release(c) \/ Moves(c)
<1>1. CASE UNCHANGED vars
  BY <1>1 DEF vars, Stays, queue, registers
<1>2. ASSUME NEW c \in Conn, AcceptFails(c) \/ PeerShuts(c) \/ PeerResets(c)
      PROVE  Stays
  BY <1>2 DEF AcceptFails, PeerShuts, PeerResets, Down, Stays, queue, registers
<1> QED
  BY <1>1, <1>2, SendKind, GetKind, ComputeKind DEF Next, Quiescent

-----------------------------------------------------------------------------
(* The queue: who is in it stays in it, and was served when it came. *)

MemberInv ==
  \A c \in Conn : Registered(c) => pc[c] \in Working \cup {"gone"}

\* A delivery is to somebody in the queue.
Drafted(c) ==
  /\ draft[c].what = "deliver"
  /\ pc[c] \in Delivering =>
       draft[c].to \in Conn /\ \E i \in DOMAIN ring : ring[i] = draft[c].to

DraftInv == \A c \in Conn : Drafted(c)

\* The ring only grows.
LEMMA RingGrows ==
  ASSUME Base, [Next]_vars
  PROVE  /\ \A d \in Conn : Registered(d) => Registered(d)'
         /\ \A i \in DOMAIN ring : i \in DOMAIN ring' /\ ring'[i] = ring[i]
         /\ \A d \in Conn :
              Registered(d)' => Registered(d) \/ (Moves(d) /\ ring' = Append(ring, d))
<1>1. ring' = ring \/ \E c \in Conn : Moves(c) /\ ring' = Append(ring, c)
  <2>1. ASSUME NEW c \in Conn, Accept(c) \/ Ends(c) \/ Release(c)
        PROVE  ring' = ring
    BY <2>1 DEF Accept, Ends, CloseMethod, Close, CloseConnection, Release, queue
  <2> QED
    BY <2>1, Kinds DEF Stays, Moves
<1>2. CASE ring' = ring
  BY <1>2 DEF Registered
<1>3. ASSUME NEW c \in Conn, Moves(c), ring' = Append(ring, c)
      PROVE  /\ \A i \in DOMAIN ring : i \in DOMAIN ring' /\ ring'[i] = ring[i]
             /\ \A d \in Conn : Registered(d) => Registered(d)'
             /\ \A d \in Conn : Registered(d)' =>
                  Registered(d) \/ (Moves(d) /\ ring' = Append(ring, d))
  <2>1. /\ \A i \in DOMAIN ring : i \in DOMAIN ring' /\ ring'[i] = ring[i]
        /\ \A i \in DOMAIN ring' : i \in DOMAIN ring \/ ring'[i] = c
    <3>1. ring \in Seq(Conn)
      BY DEF Base, TypeOK
    <3>2. /\ DOMAIN ring = 1 .. Len(ring) /\ Len(ring) \in Nat
          /\ DOMAIN ring' = 1 .. Len(ring) + 1
          /\ \A i \in 1 .. Len(ring) : ring'[i] = ring[i]
          /\ ring'[Len(ring) + 1] = c
      BY <1>3, <3>1
    <3> QED
      BY <3>2
  <2>2. \A d \in Conn : Registered(d)' => Registered(d) \/ d = c
    BY ONLY <2>1 DEF Registered
  <2>3. \A d \in Conn : d = c => Moves(d) /\ ring' = Append(ring, d)
    BY <1>3 DEF Moves
  <2>4. \A d \in Conn : Registered(d) => Registered(d)'
    BY ONLY <2>1 DEF Registered
  <2> QED
    BY <2>1, <2>2, <2>3, <2>4
<1> QED
  BY <1>1, <1>2, <1>3

LEMMA MemberNext ==
  ASSUME Base, MemberInv, [Next]_vars
  PROVE  MemberInv'
<1> SUFFICES ASSUME NEW d \in Conn, Registered(d)'
             PROVE  pc'[d] \in Working \cup {"gone"}
  BY DEF MemberInv
<1>1. \A c \in Conn : Moves(c) => pc'[c] \in Working
  BY DEF Moves, Base, TypeOK
<1>2. CASE ~Registered(d)
  BY <1>1, <1>2, RingGrows
<1>3. CASE Registered(d)
  <2>1. pc[d] \in Working \cup {"gone"}
    BY <1>3 DEF MemberInv
  <2>2. CASE pc'[d] = pc[d]
    BY <2>1, <2>2
  <2>3. CASE Accept(d)
    BY <2>1, <2>3 DEF Accept, At, Working, Consuming, Delivering
  <2>4. CASE Ends(d) \/ Release(d)
    BY <2>4 DEF Ends, CloseMethod, Close, CloseConnection, Release, Goto, Working,
       Base, TypeOK
  <2>5. ASSUME NEW c \in Conn, c # d, Accept(c) \/ Ends(c) \/ Release(c) \/ Moves(c)
        PROVE  pc'[d] = pc[d]
    BY <2>5 DEF Accept, Ends, CloseMethod, Close, CloseConnection, Release, Moves,
       Goto, Base, TypeOK
  <2> QED
    BY <1>1, <2>2, <2>3, <2>4, <2>5, Kinds DEF Stays
<1> QED
  BY <1>2, <1>3

\* A thread whose delivery is the same, if it is at one.
LEMMA SameDraft ==
  ASSUME Base, DraftInv, [Next]_vars, NEW d \in Conn,
         draft'[d].what = draft[d].what, draft'[d].to = draft[d].to,
         pc'[d] \in Delivering => pc[d] \in Delivering
  PROVE  Drafted(d)'
<1>1. \A i \in DOMAIN ring : i \in DOMAIN ring' /\ ring'[i] = ring[i]
  BY RingGrows
<1>2. Drafted(d)
  BY DEF DraftInv
<1> QED
  BY <1>1, <1>2 DEF Drafted

\* No step but that of its own thread touches a draft.
LEMMA DraftNext ==
  ASSUME Base, DraftInv, [Next]_vars
  PROVE  DraftInv'
<1> SUFFICES ASSUME NEW d \in Conn PROVE Drafted(d)'
  BY DEF DraftInv
<1>1. CASE UNCHANGED vars
  BY <1>1, SameDraft DEF vars, registers
<1>2. ASSUME NEW c \in Conn,
             \/ Accept(c) \/ AcceptFails(c) \/ PeerShuts(c) \/ PeerResets(c)
             \/ Get(c) \/ Ends(c) \/ Release(c)
             \/ BeginRecv(c) \/ RecvFails(c) \/ StackOverflows(c)
             \/ DefineTag(c) \/ FinishTag(c) \/ LockDeclare(c)
             \/ DispatchNowhere(c) \/ DispatchEnded(c)
      PROVE  Drafted(d)'
  <2>1. draft' = draft
    BY <1>2 DEF Accept, AcceptFails, PeerShuts, PeerResets, Get, GetRequest,
       GetSilent, GetConsume, GetBody, GetDeclare, GetClose, GetFrame, GetEnd,
       GetHugeFrame, GetLongBody, Ends, CloseMethod, Close, CloseConnection, Release,
       BeginRecv, RecvFails, StackOverflows, DefineTag, FinishTag, TouchTag,
       LockDeclare, DispatchNowhere, DispatchEnded, Down, registers
  <2>2. \/ pc' = pc
        \/ \E l \in Labels \ Delivering : pc' = [pc EXCEPT ![c] = l]
    <3>1. {"recv", "unserved", "answer", "declare", "declare_ok", "dispatch",
           "close_ok", "define_tag", "close", "release", "gone", "blocked",
           "finish_tag", "consume_ok"}
             \subseteq Labels \ Delivering
      BY DEF Labels, Working, Consuming, Delivering
    <3>2. CASE Accept(c) \/ AcceptFails(c) \/ PeerShuts(c) \/ PeerResets(c)
      BY <3>1, <3>2 DEF Accept, AcceptFails, PeerShuts, PeerResets, Down, Goto
    <3>3. CASE Get(c)
      BY <3>1, <3>3 DEF Get, GetRequest, GetSilent, GetConsume, GetBody, GetDeclare,
         GetClose, GetFrame, GetEnd, GetHugeFrame, GetLongBody, Down, Goto
    <3>4. CASE Ends(c) \/ Release(c)
      BY <3>1, <3>4 DEF Ends, CloseMethod, Close, CloseConnection, Release, Goto
    <3>5. CASE \/ BeginRecv(c) \/ RecvFails(c) \/ StackOverflows(c)
               \/ DefineTag(c) \/ FinishTag(c) \/ LockDeclare(c)
               \/ DispatchNowhere(c) \/ DispatchEnded(c)
      BY <3>1, <3>5 DEF BeginRecv, RecvFails, StackOverflows, DefineTag, FinishTag,
         TouchTag, LockDeclare, DispatchNowhere, DispatchEnded, Down, Goto
    <3> QED
      BY <1>2, <3>2, <3>3, <3>4, <3>5
  <2>3. pc'[d] \in Delivering => pc[d] \in Delivering
    BY <2>2 DEF Base, TypeOK
  <2> QED
    BY <2>1, <2>3, SameDraft
<1>3. ASSUME NEW c \in Conn, Send(c) PROVE Drafted(d)'
  <2>1. ASSUME NEW f, NEW x, NEW label \in {"recv", "close_method"},
               Write(c, f, x, label)
        PROVE  Drafted(d)'
    <3>1. CASE Down("peer_gone") \/ Down("bad_descriptor")
      BY <3>1, SameDraft DEF Down, registers
    <3>2. CASE Written(c, f, x, label)
      <4>1. /\ draft' = [draft EXCEPT ![c] = NoDelivery]
            /\ pc' = [pc EXCEPT ![c] = label] /\ label \notin Delivering
        BY <3>2 DEF Written, Goto, Delivering
      <4>2. CASE d = c
        BY <4>1, <4>2 DEF Base, TypeOK, Drafted, NoDelivery, Item
      <4>3. CASE d # c
        BY <4>1, <4>3, SameDraft DEF Base, TypeOK
      <4> QED
        BY <4>2, <4>3
    <3> QED
      BY <2>1, <3>1, <3>2, WriteCases
  <2> QED
    BY <1>3, <2>1 DEF Send, Answer, SendDeclareOk, SendCloseOk, SendConsumeOk,
       WriteDelivery
<1>4. ASSUME NEW c \in Conn, Dispatch(c) PROVE Drafted(d)'
  <2>1. /\ turn \in DOMAIN ring /\ ring[turn] \in Conn /\ ring' = ring
        /\ draft' = [draft EXCEPT ![c].to = ring[turn],
                                  ![c].early = ~Announced(ring[turn])]
        /\ pc' = [pc EXCEPT ![c] = "announce"]
    BY <1>4, HandedOut DEF Dispatch
  <2>2. CASE d = c
    <3>1. draft'[d].what = draft[d].what /\ draft'[d].to = ring[turn]
      BY <2>1, <2>2, DraftOf DEF Base, TypeOK, Items
    <3> QED
      BY <2>1, <3>1 DEF Drafted, DraftInv
  <2>3. CASE d # c
    BY <2>1, <2>3, SameDraft DEF Base, TypeOK
  <2> QED
    BY <2>2, <2>3
<1>5. ASSUME NEW c \in Conn, AnnounceDelivery(c) PROVE Drafted(d)'
  <2>1. pc[c] = "announce" /\ pc' = [pc EXCEPT ![c] = "copy"] /\ draft' = draft
    BY <1>5 DEF AnnounceDelivery, At, Goto
  <2>2. pc'[d] \in Delivering => pc[d] \in Delivering
    BY <2>1 DEF Base, TypeOK, Delivering
  <2> QED
    BY <2>1, <2>2, SameDraft
<1>6. ASSUME NEW c \in Conn, CopyTag(c) PROVE Drafted(d)'
  <2>1. pc[c] = "copy" /\ pc' = [pc EXCEPT ![c] = "write"]
    BY <1>6 DEF CopyTag, At, Goto
  <2>2. pc'[d] \in Delivering => pc[d] \in Delivering
    BY <2>1 DEF Base, TypeOK, Delivering
  <2>3. draft'[d].what = draft[d].what /\ draft'[d].to = draft[d].to
    <3>1. PICK t, fr : draft' = [draft EXCEPT ![c].tag = t, ![c].framed = fr]
      BY <1>6 DEF CopyTag
    <3> QED
      BY <3>1, DraftOf DEF Base, TypeOK, Items
  <2> QED
    BY <2>2, <2>3, SameDraft
<1> QED
  BY <1>1, <1>2, <1>3, <1>4, <1>5, <1>6 DEF Next, Quiescent, Compute, Ends

-----------------------------------------------------------------------------
(* The descriptors. *)

\* The number that a thread closes for the second time refers to nothing.
ClosedTwice == ~reused => \A c \in Conn : ClosesAgain(c) => table[socket[c]] = Null

\* Who is at a descriptor.
Kept ==
  \A f \in Fd, d \in Conn :
    table[f] = d => pc[d] = "unserved" \/ (Open(d) /\ socket[d] = f)

Owned == Kept /\ OwnDescriptor /\ ClosedTwice

LEMMA AcceptOwned ==
  ASSUME Base, Owned, NEW c \in Conn, Accept(c)
  PROVE  Owned'
<1>1. PICK f \in Fd :
        /\ table[f] = Null
        /\ table' = [table EXCEPT ![f] = c]
        /\ socket' = [socket EXCEPT ![c] = f]
        /\ reused' = (reused \/ \E d \in Conn : ClosesAgain(d) /\ socket[d] = f)
  BY DEF Accept, Free
<1>2. /\ pc[c] = "absent" /\ closed' = closed /\ ~closed[c]
      /\ pc' = [pc EXCEPT ![c] = "recv"] \/ pc' = [pc EXCEPT ![c] = "unserved"]
  BY DEF Accept, At, Goto, Base, ThreadInv
<1>3. \A d \in Conn : d # c =>
        /\ pc'[d] = pc[d] /\ socket'[d] = socket[d]
        /\ Open(d)' = Open(d) /\ ClosesAgain(d)' = ClosesAgain(d)
  BY <1>1, <1>2 DEF Base, TypeOK, Open, ClosesAgain
<1>4. /\ socket'[c] = f /\ table'[f] = c /\ \A g \in Fd : g # f => table'[g] = table[g]
      /\ ~Open(c) /\ ~ClosesAgain(c)' /\ pc'[c] \in {"recv", "unserved"}
  BY <1>1, <1>2 DEF Base, TypeOK, Open, ClosesAgain, Working, Consuming, Delivering
<1>5. Null \notin Conn
  BY RoleAssumption
<1>6. Kept'
  <2> SUFFICES ASSUME NEW g \in Fd, NEW d \in Conn, table'[g] = d
               PROVE  pc'[d] = "unserved" \/ (Open(d)' /\ socket'[d] = g)
    BY DEF Kept
  <2>1. CASE g = f
    <3>1. d = c /\ ~closed'[c]
      BY <1>2, <1>4, <2>1
    <3> QED
      BY <1>4, <2>1, <3>1 DEF Open, Working
  <2>2. CASE g # f
    <3>1. table[g] = d
      BY <1>4, <2>2
    <3>2. pc[d] = "unserved" \/ (Open(d) /\ socket[d] = g)
      BY <3>1 DEF Owned, Kept
    <3>3. d # c
      BY <1>2, <1>4, <3>2 DEF Open
    <3> QED
      BY <1>3, <3>2, <3>3
  <2> QED
    BY <2>1, <2>2
<1>7. OwnDescriptor'
  <2> SUFFICES ASSUME ~reused', NEW d \in Conn, Open(d)'
               PROVE  table'[socket'[d]] = d
    BY DEF OwnDescriptor
  <2>1. CASE d = c
    BY <1>4, <2>1
  <2>2. CASE d # c
    <3>1. Open(d) /\ socket'[d] = socket[d] /\ ~reused
      BY <1>1, <1>3, <2>2
    <3>2. table[socket[d]] = d /\ socket[d] \in Fd
      BY <3>1 DEF Owned, OwnDescriptor, Open, Base, ThreadInv, Working, Consuming,
         Delivering
    <3> QED
      BY <1>1, <1>4, <1>5, <3>1, <3>2
  <2> QED
    BY <2>1, <2>2
<1>8. ClosedTwice'
  <2> SUFFICES ASSUME ~reused', NEW d \in Conn, ClosesAgain(d)'
               PROVE  table'[socket'[d]] = Null
    BY DEF ClosedTwice
  <2>1. d # c /\ ~reused
    BY <1>1, <1>4
  <2>2. ClosesAgain(d) /\ socket'[d] = socket[d] /\ socket[d] \in Fd
    BY <1>3, <2>1 DEF ClosesAgain, Base, ThreadInv
  <2>3. socket[d] # f /\ table[socket[d]] = Null
    BY <1>1, <2>1, <2>2 DEF Owned, ClosedTwice
  <2> QED
    BY <1>4, <2>2, <2>3
<1> QED
  BY <1>6, <1>7, <1>8 DEF Owned

LEMMA EndsOwned ==
  ASSUME Base, Owned, NEW c \in Conn, Ends(c)
  PROVE  Owned'
<1>1. /\ (pc[c] = "close_method" /\ ~closed[c]) \/ pc[c] = "close"
      /\ \E l \in {"close", "release"} : pc' = [pc EXCEPT ![c] = l]
      /\ table' = [table EXCEPT ![socket[c]] = Null]
      /\ closed' = [closed EXCEPT ![c] = TRUE]
      /\ UNCHANGED <<socket, reused>>
  BY DEF Ends, CloseMethod, Close, CloseConnection, At, Goto, Base, ThreadInv
<1>2. socket[c] \in Fd
  BY <1>1 DEF Base, ThreadInv
<1>3. \A d \in Conn : d # c =>
        pc'[d] = pc[d] /\ Open(d)' = Open(d) /\ ClosesAgain(d)' = ClosesAgain(d)
  BY <1>1 DEF Base, TypeOK, Open, ClosesAgain
<1>4. /\ table'[socket[c]] = Null
      /\ \A g \in Fd : g # socket[c] => table'[g] = table[g]
      /\ ~Open(c)' /\ pc[c] # "unserved"
  BY <1>1, <1>2 DEF Base, TypeOK, Open
<1>5. Null \notin Conn
  BY RoleAssumption
<1>6. Kept'
  <2> SUFFICES ASSUME NEW g \in Fd, NEW d \in Conn, table'[g] = d
               PROVE  pc'[d] = "unserved" \/ (Open(d)' /\ socket'[d] = g)
    BY DEF Kept
  <2>1. g # socket[c] /\ table[g] = d
    BY <1>4, <1>5
  <2>2. pc[d] = "unserved" \/ (Open(d) /\ socket[d] = g)
    BY <2>1 DEF Owned, Kept
  <2>3. d # c
    BY <1>4, <2>1, <2>2
  <2> QED
    BY <1>1, <1>3, <2>2, <2>3
<1>7. OwnDescriptor'
  <2> SUFFICES ASSUME ~reused, NEW d \in Conn, Open(d)'
               PROVE  table'[socket[d]] = d
    BY <1>1 DEF OwnDescriptor
  <2>1. d # c /\ Open(d) /\ socket[d] \in Fd
    BY <1>3, <1>4 DEF Open, Base, ThreadInv, Working, Consuming, Delivering
  <2>2. table[socket[d]] = d
    BY <2>1 DEF Owned, OwnDescriptor
  <2>3. socket[d] # socket[c]
    <3>1. CASE Open(c)
      BY <2>1, <2>2, <3>1 DEF Owned, OwnDescriptor
    <3>2. CASE ~Open(c)
      <4>1. ClosesAgain(c)
        BY <1>1, <3>2 DEF Open, ClosesAgain, Working
      <4> QED
        BY <1>5, <2>2, <4>1 DEF Owned, ClosedTwice
    <3> QED
      BY <3>1, <3>2
  <2> QED
    BY <1>4, <2>1, <2>2, <2>3
<1>8. ClosedTwice'
  <2> SUFFICES ASSUME ~reused, NEW d \in Conn, ClosesAgain(d)'
               PROVE  table'[socket[d]] = Null
    BY <1>1 DEF ClosedTwice
  <2>1. CASE socket[d] = socket[c]
    BY <1>4, <2>1
  <2>2. CASE socket[d] # socket[c]
    <3>1. ClosesAgain(d) /\ socket[d] \in Fd
      BY <1>3, <2>2 DEF ClosesAgain, Base, ThreadInv
    <3> QED
      BY <1>4, <2>2, <3>1 DEF Owned, ClosedTwice
  <2> QED
    BY <2>1, <2>2
<1> QED
  BY <1>6, <1>7, <1>8 DEF Owned

\* The other steps of a thread leave its number alone.
LEMMA OtherOwned ==
  ASSUME Base, Owned, NEW c \in Conn, Release(c) \/ Moves(c)
  PROVE  Owned'
<1>1. /\ UNCHANGED <<table, socket, closed, reused>>
      /\ \E l \in {"gone"} \cup (Working \ {"release"}) : pc' = [pc EXCEPT ![c] = l]
      /\ closed[c] => pc[c] = "release" /\ pc'[c] = "gone"
      /\ pc[c] \in Working
  <2>1. CASE Release(c)
    BY <2>1 DEF Release, At, Goto, Base, TypeOK, Working
  <2>2. CASE Moves(c)
    <3>1. ~closed[c] /\ pc[c] \in Working
      BY <2>2 DEF Moves, Base, ThreadInv, Inner, Working, Consuming, Delivering
    <3> QED
      BY <2>2, <3>1 DEF Moves
  <2> QED
    BY <2>1, <2>2
<1>2. \A d \in Conn : d # c =>
        pc'[d] = pc[d] /\ Open(d)' = Open(d) /\ ClosesAgain(d)' = ClosesAgain(d)
  BY <1>1 DEF Base, TypeOK, Open, ClosesAgain
<1>3. /\ Open(c)' = Open(c) /\ pc[c] # "unserved"
      /\ ~ClosesAgain(c)'
  BY <1>1 DEF Base, TypeOK, ThreadInv, Open, ClosesAgain, Working, Consuming,
     Delivering, Release, Moves, At, Goto, Inner
<1>4. \A d \in Conn : Open(d)' = Open(d) /\ (ClosesAgain(d)' => ClosesAgain(d))
                      /\ (pc[d] = "unserved" => pc'[d] = "unserved")
  BY <1>2, <1>3
<1>5. Kept'
  BY <1>1, <1>4 DEF Owned, Kept
<1>6. OwnDescriptor' /\ ClosedTwice'
  BY <1>1, <1>4 DEF Owned, OwnDescriptor, ClosedTwice
<1> QED
  BY <1>5, <1>6 DEF Owned

LEMMA OwnedNext ==
  ASSUME Base, Owned, [Next]_vars
  PROVE  Owned'
<1>1. CASE Stays
  BY <1>1 DEF Stays, Owned, Kept, OwnDescriptor, ClosedTwice, Open, ClosesAgain
<1> QED
  BY <1>1, Kinds, AcceptOwned, EndsOwned, OtherOwned
-----------------------------------------------------------------------------
(* The two together. *)

LEMMA BaseNext ==
  ASSUME Base, DraftInv, [Next]_vars
  PROVE  Base'
<1>1. CASE UNCHANGED vars
  BY <1>1 DEF vars, queue, registers, Base, TypeOK, ThreadInv, RingInv
<1>2. ASSUME NEW c \in Conn,
             \/ AcceptFails(c) \/ StackOverflows(c) \/ RecvFails(c)
             \/ GetHugeFrame(c) \/ GetLongBody(c) \/ DispatchEnded(c)
      PROVE  Base'
  BY <1>2, DownBase DEF AcceptFails, StackOverflows, RecvFails, GetHugeFrame,
     GetLongBody, DispatchEnded, Causes
<1>3. ASSUME NEW c \in Conn, Get(c) PROVE Base'
  <2>1. CASE \/ GetRequest(c) \/ GetSilent(c) \/ GetBody(c) \/ GetDeclare(c)
             \/ GetClose(c)
    BY <2>1, GetFrameBase DEF GetRequest, GetSilent, GetBody, GetDeclare, GetClose
  <2>2. CASE GetConsume(c)
    BY <2>2, GetFrameBase DEF GetConsume
  <2> QED
    BY <1>2, <1>3, <2>1, <2>2, GetEndBase DEF Get
<1>4. ASSUME NEW c \in Conn, Send(c) PROVE Base'
  <2>1. ASSUME NEW what \in {"reply", "consume_ok"}, NEW n \in Nat
        PROVE  Item(what, c, n) \in Items
    BY DEF Item, Items
  <2>2. {"answer", "declare_ok", "close_ok", "consume_ok", "write"} \subseteq Inner
    BY DEF Inner, Working, Consuming, Delivering
  <2>3. CASE Answer(c)
    BY <2>1, <2>2, <2>3, WriteBase DEF Answer, At
  <2>4. CASE SendCloseOk(c)
    BY <2>1, <2>2, <2>4, WriteBase DEF SendCloseOk, At
  <2>5. CASE SendConsumeOk(c)
    <3>1. tag[c] \in Nat
      BY DEF Base, TypeOK
    <3> QED
      BY <2>1, <2>2, <2>5, <3>1, WriteBase DEF SendConsumeOk, At
  <2>6. CASE WriteDelivery(c)
    <3>1. draft[c] \in Items
      BY DEF Base, TypeOK
    <3> QED
      BY <2>2, <2>6, <3>1, WriteBase DEF WriteDelivery, At
  <2>7. CASE SendDeclareOk(c)
    BY <2>1, <2>2, <2>7, WriteBase DEF SendDeclareOk, At
  <2> QED
    BY <1>4, <2>3, <2>4, <2>5, <2>6, <2>7 DEF Send
<1>5. ASSUME NEW c \in Conn, AnnounceDelivery(c) \/ CopyTag(c) PROVE Base'
  <2>1. draft[c].to \in Conn
    BY <1>5 DEF AnnounceDelivery, CopyTag, At, DraftInv, Drafted, Delivering
  <2> QED
    BY <1>5, <2>1, AnnounceBase, CopyBase
<1> QED
  BY <1>1, <1>2, <1>3, <1>4, <1>5, AcceptBase, PeerBase, BeginRecvBase, TouchTagBase,
     LockDeclareBase, HandOutBase, NowhereBase, CloseBase, ReleaseBase
     DEF Next, Quiescent, Compute, Dispatch

\* Control and descriptors, of which the rest is a consequence.
Control == Base /\ MemberInv /\ DraftInv /\ Owned

LEMMA InitControl == Init => Control
<1> SUFFICES ASSUME Init PROVE Control
  OBVIOUS
<1>1. Base
  BY InitBase
<1>2. ring = <<>> /\ \A c \in Conn : pc[c] = "absent" /\ draft[c] = NoDelivery
  BY DEF Init, Q!Init
<1>3. MemberInv
  <2>1. DOMAIN ring = {}
    BY <1>2
  <2> QED
    BY <2>1 DEF MemberInv, Registered
<1>4. DraftInv
  <2>1. NoDelivery.what = "deliver" /\ "absent" \notin Delivering
    BY DEF NoDelivery, Item, Delivering
  <2> QED
    BY <1>2, <2>1 DEF DraftInv, Drafted
<1>5. (\A f \in Fd : table[f] = Null) /\ Null \notin Conn
  BY RoleAssumption DEF Init
<1>6. \A c \in Conn : ~Open(c) /\ ~ClosesAgain(c)
  BY <1>2 DEF Open, ClosesAgain, Working, Consuming, Delivering
<1>7. Owned
  BY <1>5, <1>6 DEF Owned, Kept, OwnDescriptor, ClosedTwice
<1> QED
  BY <1>1, <1>3, <1>4, <1>7 DEF Control

LEMMA ControlNext == Control /\ [Next]_vars => Control'
BY BaseNext, MemberNext, DraftNext, OwnedNext DEF Control

-----------------------------------------------------------------------------
(* What is written, and to whom, while no consumer has left. *)

Calm == ~reused /\ ~ConsumerLeft

\* A connection that was served and is open no more is never open again.
LEMMA EndedStays ==
  ASSUME Base, [Next]_vars, NEW d \in Conn, pc[d] \in Working \cup {"gone"}, ~Open(d)
  PROVE  ~Open(d)'
<1>1. pc[d] = "gone" \/ closed[d]
  BY DEF Open
<1>2. pc[d] \in {"close", "release", "gone"}
  BY <1>1 DEF Base, ThreadInv
<1>3. CASE Stays
  BY <1>3 DEF Stays, Open
<1>4. ASSUME NEW c \in Conn, Accept(c) \/ Moves(c) PROVE ~Open(d)'
  <2>1. c # d /\ \E l : pc' = [pc EXCEPT ![c] = l]
    BY <1>2, <1>4 DEF Accept, Moves, At, Goto, Inner, Working, Consuming, Delivering
  <2>2. closed' = closed
    BY <1>4 DEF Accept, Moves
  <2> QED
    BY <2>1, <2>2 DEF Base, TypeOK, Open
<1>5. ASSUME NEW c \in Conn, Ends(c) \/ Release(c) PROVE ~Open(d)'
  <2>1. closed[d] => closed'[d]
    BY <1>5 DEF Ends, CloseMethod, Close, CloseConnection, Release, Base, TypeOK
  <2>2. pc[d] = "gone" => pc'[d] = "gone"
    BY <1>5 DEF Ends, CloseMethod, Close, CloseConnection, Release, At, Goto, Base,
       TypeOK
  <2> QED
    BY <1>1, <2>1, <2>2 DEF Open, Working, Consuming, Delivering
<1> QED
  BY <1>3, <1>4, <1>5, Kinds

\* Once a consumer has left, or a number was reused, it stays so.
LEMMA CalmBefore ==
  ASSUME Control, [Next]_vars, Calm'
  PROVE  Calm
<1>1. reused => reused'
  BY Kinds DEF Control, Stays, Accept, Ends, CloseMethod, Close, CloseConnection,
     Release, Moves
<1>2. ASSUME NEW d \in Conn, Registered(d), ~Open(d)
      PROVE  Registered(d)' /\ ~Open(d)'
  BY <1>2, RingGrows, EndedStays DEF Control, MemberInv
<1> QED
  BY <1>1, <1>2 DEF Calm, ConsumerLeft

\* Every thread that writes has its own socket ...
LEMMA OwnSocket ==
  ASSUME Control, ~reused, NEW c \in Conn, pc[c] \in Inner
  PROVE  socket[c] \in Fd /\ table[socket[c]] = c
<1>1. pc[c] # "absent" /\ pc[c] \notin {"close", "release", "gone"} /\ pc[c] \in Working
  BY DEF Inner, Working, Consuming, Delivering
<1>2. Open(c)
  BY <1>1 DEF Control, Base, ThreadInv, Open
<1> QED
  BY <1>1, <1>2 DEF Control, Owned, OwnDescriptor, Base, ThreadInv

\* ... and a delivery goes to the socket of the one it is for.
LEMMA DeliverySocket ==
  ASSUME Control, Calm, NEW c \in Conn, pc[c] = "write", NEW f \in SocketRead(draft[c].to)
  PROVE  draft[c].to \in Conn /\ f \in Fd /\ table[f] = draft[c].to
<1>1. PICK d \in Conn : d = draft[c].to /\ Registered(d)
  BY DEF Control, DraftInv, Drafted, Delivering, Registered
<1>2. Open(d) /\ pc[d] # "absent" /\ pc[d] # "gone"
  BY <1>1 DEF Calm, ConsumerLeft, Open, Working, Consuming, Delivering
<1>3. f = socket[d]
  BY <1>1, <1>2 DEF SocketRead
<1> QED
  BY <1>1, <1>2, <1>3 DEF Control, Owned, OwnDescriptor, Base, ThreadInv, Calm

\* What thread c writes when it goes on.
Sent(c, x) ==
  \/ pc[c] \in {"answer", "declare_ok", "close_ok"} /\ x = Item("reply", c, 0)
  \/ pc[c] = "consume_ok" /\ x = Item("consume_ok", c, tag[c])
  \/ pc[c] = "write" /\ x = draft[c]

\* A write of x by thread c reaches the one x is for.
Reaches(c, x) ==
  /\ Sent(c, x) /\ x \in Items /\ x.to \in Conn
  /\ wire' = [wire EXCEPT ![x.to] = Append(@, x)]
  /\ pc' = [pc EXCEPT ![c] = IF pc[c] = "close_ok" THEN "close_method" ELSE "recv"]
  /\ draft' = [draft EXCEPT ![c] = NoDelivery]
  /\ seen' = [seen EXCEPT ![c] = 0]
  /\ UNCHANGED <<ring, tag>>

LEMMA SendReaches ==
  ASSUME Control, Calm, NEW c \in Conn, Send(c)
  PROVE  (wire' = wire /\ Stays) \/ \E x : Reaches(c, x)
<1>1. ASSUME NEW f, NEW x \in Items, NEW label, Write(c, f, x, label), Sent(c, x),
             x.to \in Conn, f \in Fd, table[f] = x.to,
             label = IF pc[c] = "close_ok" THEN "close_method" ELSE "recv"
      PROVE  (wire' = wire /\ Stays) \/ Reaches(c, x)
  <2>1. CASE Down("peer_gone") \/ Down("bad_descriptor")
    BY <2>1 DEF Down, Stays, queue, registers
  <2>2. CASE Written(c, f, x, label)
    BY <1>1, <2>2 DEF Written, Reaches, Goto, queue
  <2> QED
    BY <1>1, <2>1, <2>2, WriteCases
<1>2. ASSUME NEW what \in {"reply", "consume_ok"}, NEW n \in Nat
      PROVE  Item(what, c, n) \in Items /\ Item(what, c, n).to = c
  BY DEF Item, Items
<1>3. {"answer", "declare_ok", "close_ok", "consume_ok"} \subseteq Inner
  BY DEF Inner, Working, Consuming
<1>4. CASE Answer(c)
  <2>1. pc[c] = "answer" /\ Write(c, socket[c], Item("reply", c, 0), "recv")
    BY <1>4 DEF Answer, At
  <2> QED
    BY <1>1, <1>2, <1>3, <2>1, OwnSocket DEF Sent, Calm
<1>5. CASE SendCloseOk(c)
  <2>1. pc[c] = "close_ok" /\ Write(c, socket[c], Item("reply", c, 0), "close_method")
    BY <1>5 DEF SendCloseOk, At
  <2> QED
    BY <1>1, <1>2, <1>3, <2>1, OwnSocket DEF Sent, Calm
<1>6. CASE SendConsumeOk(c)
  <2>1. /\ pc[c] = "consume_ok"
        /\ Write(c, socket[c], Item("consume_ok", c, tag[c]), "recv")
    BY <1>6 DEF SendConsumeOk, At
  <2>2. tag[c] \in Nat
    BY DEF Control, Base, TypeOK
  <2> QED
    BY <1>1, <1>2, <1>3, <2>1, <2>2, OwnSocket DEF Sent, Calm
<1>7. CASE WriteDelivery(c)
  <2>1. PICK f \in SocketRead(draft[c].to) :
          pc[c] = "write" /\ Write(c, f, draft[c], "recv")
    BY <1>7 DEF WriteDelivery, At
  <2>2. draft[c] \in Items
    BY DEF Control, Base, TypeOK
  <2>3. draft[c].to \in Conn /\ f \in Fd /\ table[f] = draft[c].to
    BY <2>1, DeliverySocket
  <2>4. Sent(c, draft[c])
    BY <2>1 DEF Sent
  <2> QED
    BY <1>1, <2>1, <2>2, <2>3, <2>4
<1>8. CASE SendDeclareOk(c)
  <2>1. pc[c] = "declare_ok" /\ Write(c, socket[c], Item("reply", c, 0), "recv")
    BY <1>8 DEF SendDeclareOk, At
  <2> QED
    BY <1>1, <1>2, <1>3, <2>1, OwnSocket DEF Sent, Calm
<1> QED
  BY <1>4, <1>5, <1>6, <1>7, <1>8 DEF Send

\* Nothing else is written.
LEMMA OtherWrites ==
  ASSUME [Next]_vars
  PROVE  wire' = wire \/ \E c \in Conn : Send(c)
<1>1. CASE UNCHANGED vars
  BY <1>1 DEF vars
<1>2. ASSUME NEW c \in Conn, Accept(c) \/ AcceptFails(c) \/ PeerShuts(c) \/ PeerResets(c)
      PROVE  wire' = wire
  BY <1>2 DEF Accept, AcceptFails, PeerShuts, PeerResets, Down
<1>3. ASSUME NEW c \in Conn, Get(c) PROVE wire' = wire
  BY <1>3 DEF Get, GetRequest, GetSilent, GetConsume, GetBody, GetDeclare, GetClose,
     GetFrame, GetEnd, GetHugeFrame, GetLongBody, Down
<1>4. ASSUME NEW c \in Conn, Compute(c) PROVE wire' = wire
  BY <1>4 DEF Compute, BeginRecv, RecvFails, StackOverflows, DefineTag, FinishTag,
     TouchTag, LockDeclare, Dispatch, HandOut, DispatchNowhere, DispatchEnded,
     AnnounceDelivery, CopyTag, CloseMethod, Close, CloseConnection, Release, Down
<1> QED
  BY <1>1, <1>2, <1>3, <1>4 DEF Next, Quiescent

LEMMA ReachNext ==
  ASSUME Control, BytesReachTheirPeer, [Next]_vars
  PROVE  BytesReachTheirPeer'
<1> SUFFICES ASSUME Calm', NEW d \in Conn, NEW i \in DOMAIN wire'[d]
             PROVE  wire'[d][i].to = d
  BY DEF BytesReachTheirPeer, Calm
<1>1. Calm
  BY CalmBefore
<1>2. \A j \in DOMAIN wire[d] : wire[d][j].to = d
  BY <1>1 DEF BytesReachTheirPeer, Calm
<1>3. CASE wire' = wire
  BY <1>2, <1>3
<1>4. ASSUME NEW c \in Conn, NEW x, Reaches(c, x)
      PROVE  wire'[d][i].to = d
  <2>1. /\ wire' = [wire EXCEPT ![x.to] = Append(@, x)] /\ x \in Items /\ x.to \in Conn
        /\ wire \in [Conn -> Seq(Items)]
    BY <1>4 DEF Reaches, Control, Base, TypeOK
  <2>2. CASE d # x.to
    BY <1>2, <2>1, <2>2
  <2>3. CASE d = x.to
    <3>1. wire'[d] = Append(wire[d], x) /\ wire[d] \in Seq(Items)
      BY <2>1, <2>3
    <3>2. (i \in DOMAIN wire[d] /\ wire'[d][i] = wire[d][i]) \/ wire'[d][i] = x
      BY <2>1, <3>1
    <3> QED
      BY <1>2, <2>3, <3>2
  <2> QED
    BY <2>2, <2>3
<1> QED
  BY <1>1, <1>3, <1>4, OtherWrites, SendReaches DEF Stays

-----------------------------------------------------------------------------
(* Why the process ends. *)

\* A reason, as of now.
Reason(cause) ==
  \/ ~Calm
  \/ cause = "peer_gone" /\ \E c \in Conn : peer[c] \in {"shut", "reset"}
  \/ cause = "stack" /\ \E c \in Conn : depth[c] = MaxDepth
  \/ cause = "huge_frame" /\ \E c \in Conn : pc[c] = "blocked" /\ stream[c] \in Huge
  \/ cause = "overrun" /\ \E c \in Conn : pc[c] = "blocked" /\ stream[c] \in Long
  \/ /\ cause = "no_descriptors"
     /\ \A f \in Fd : \E c \in Conn :
          table[f] = c /\ (Open(c) \/ pc[c] = "unserved")

LEMMA WriteReason ==
  ASSUME Control, NEW c \in Conn, NEW cause, Send(c), Down(cause)
  PROVE  Reason(cause) \/ down' = down
<1> SUFFICES ASSUME Calm PROVE Reason(cause) \/ down' = down
  BY DEF Reason
<1>1. ASSUME NEW f, NEW x, NEW label, Write(c, f, x, label), f \in Fd, table[f] \in Conn
      PROVE  Reason(cause) \/ down' = down
  <2>1. table[f] # Null
    BY <1>1, RoleAssumption
  <2>2. CASE Written(c, f, x, label)
    BY <2>2 DEF Written
  <2>3. CASE peer[table[f]] \in {"shut", "reset"} /\ Down("peer_gone")
    <3>1. cause = "peer_gone"
      BY <2>3 DEF Down
    <3> QED
      BY <1>1, <2>3, <3>1 DEF Reason
  <2> QED
    BY <1>1, <2>1, <2>2, <2>3, WriteCases
<1>2. {"answer", "declare_ok", "close_ok", "consume_ok"} \subseteq Inner
  BY DEF Inner, Working, Consuming
<1>3. CASE Answer(c) \/ SendDeclareOk(c) \/ SendCloseOk(c) \/ SendConsumeOk(c)
  <2>1. pc[c] \in Inner
    BY <1>2, <1>3 DEF Answer, SendDeclareOk, SendCloseOk, SendConsumeOk, At
  <2>2. socket[c] \in Fd /\ table[socket[c]] \in Conn
    BY <2>1, OwnSocket DEF Calm
  <2> QED
    BY <1>1, <1>3, <2>2 DEF Answer, SendDeclareOk, SendCloseOk, SendConsumeOk
<1>4. CASE WriteDelivery(c)
  <2>1. PICK f \in SocketRead(draft[c].to) :
          pc[c] = "write" /\ Write(c, f, draft[c], "recv")
    BY <1>4 DEF WriteDelivery, At
  <2>2. f \in Fd /\ table[f] \in Conn
    BY <2>1, DeliverySocket
  <2> QED
    BY <1>1, <2>1, <2>2
<1> QED
  BY <1>3, <1>4 DEF Send

\* A step that ends the process changes nothing else.
LEMMA DownStep ==
  ASSUME Control, [Next]_vars
  PROVE  \/ down' = down /\ (down # "no" => UNCHANGED vars)
         \/ \E cause : down = "no" /\ Down(cause) /\ Reason(cause)
<1>1. CASE UNCHANGED vars
  BY <1>1 DEF vars
<1>2. ASSUME NEW c \in Conn,
             \/ Accept(c) \/ PeerShuts(c) \/ PeerResets(c)
             \/ GetRequest(c) \/ GetSilent(c) \/ GetConsume(c) \/ GetBody(c)
             \/ GetDeclare(c) \/ GetClose(c) \/ GetEnd(c)
      PROVE  down = "no" /\ down' = down
  BY <1>2 DEF Accept, PeerShuts, PeerResets, GetRequest, GetSilent, GetConsume,
     GetBody, GetDeclare, GetClose, GetFrame, GetEnd, At
<1>3. ASSUME NEW c \in Conn,
             \/ BeginRecv(c) \/ DefineTag(c) \/ FinishTag(c) \/ LockDeclare(c)
             \/ Dispatch(c) \/ DispatchNowhere(c) \/ AnnounceDelivery(c) \/ CopyTag(c)
             \/ CloseMethod(c) \/ Close(c) \/ Release(c)
      PROVE  down = "no" /\ down' = down
  BY <1>3 DEF BeginRecv, DefineTag, FinishTag, TouchTag, LockDeclare, Dispatch,
     HandOut, DispatchNowhere, AnnounceDelivery, CopyTag, CloseMethod, Close, CloseConnection,
     Release, At
<1>4. ASSUME NEW c \in Conn, AcceptFails(c)
      PROVE  down = "no" /\ Down("no_descriptors") /\ Reason("no_descriptors")
  <2>1. down = "no" /\ Free = {} /\ Down("no_descriptors")
    BY <1>4 DEF AcceptFails, At
  <2>2. ASSUME NEW f \in Fd
        PROVE  \E d \in Conn : table[f] = d /\ (Open(d) \/ pc[d] = "unserved")
    <3>1. table[f] # Null
      BY <2>1 DEF Free
    <3>2. PICK d \in Conn : table[f] = d
      BY <3>1 DEF Control, Base, TypeOK
    <3> QED
      BY <3>2 DEF Control, Owned, Kept
  <2> QED
    BY <2>1, <2>2 DEF Reason
<1>5. ASSUME NEW c \in Conn, StackOverflows(c)
      PROVE  down = "no" /\ Down("stack") /\ Reason("stack")
  BY <1>5 DEF StackOverflows, At, Reason
<1>6. ASSUME NEW c \in Conn, RecvFails(c)
      PROVE  down = "no" /\ \E cause : Down(cause) /\ Reason(cause)
  <2>1. CASE At(c, "recv") /\ table[socket[c]] = Null /\ Down("bad_descriptor")
    <3>1. pc[c] \in Inner
      BY <2>1 DEF At, Inner, Working
    <3>2. reused
      BY <2>1, <3>1, OwnSocket, RoleAssumption
    <3> QED
      BY <2>1, <3>2 DEF At, Reason, Calm
  <2>2. CASE At(c, "blocked") /\ peer[stream[c]] = "reset" /\ Down("peer_gone")
    <3>1. stream[c] \in Conn
      BY <2>2 DEF At, Control, Base, ThreadInv
    <3> QED
      BY <2>2, <3>1 DEF At, Reason
  <2> QED
    BY <1>6, <2>1, <2>2 DEF RecvFails
<1>7. ASSUME NEW c \in Conn, DispatchEnded(c)
      PROVE  down = "no" /\ Down("undefined") /\ Reason("undefined")
  <2>1. down = "no" /\ ring # <<>> /\ closed[ring[turn]] /\ Down("undefined")
    BY <1>7 DEF DispatchEnded, At
  <2>2. turn \in DOMAIN ring /\ ring[turn] \in Conn
    BY <2>1 DEF Control, Base, TypeOK, RingInv
  <2>3. PICK d \in Conn : d = ring[turn]
    BY <2>2
  <2>4. Registered(d) /\ ~Open(d)
    BY <2>1, <2>2, <2>3 DEF Registered, Open
  <2>5. ~Calm
    BY <2>4 DEF Calm, ConsumerLeft
  <2> QED
    BY <2>1, <2>5 DEF Reason
<1>8. ASSUME NEW c \in Conn, Send(c)
      PROVE  /\ down = "no"
             /\ down' = down \/ \E cause : Down(cause) /\ Reason(cause)
  <2>1. down = "no"
    BY <1>8 DEF Send, Answer, SendDeclareOk, SendCloseOk, SendConsumeOk,
       WriteDelivery, At
  <2>2. down' = down \/ \E cause : Down(cause)
    <3>1. ASSUME NEW f, NEW x, NEW label, Write(c, f, x, label)
          PROVE  down' = down \/ \E cause : Down(cause)
      BY <3>1 DEF Write
    <3> QED
      BY <1>8, <3>1 DEF Send, Answer, SendDeclareOk, SendCloseOk, SendConsumeOk,
         WriteDelivery
  <2> QED
    BY <1>8, <2>1, <2>2, WriteReason
<1>9. ASSUME NEW c \in Conn, GetHugeFrame(c)
      PROVE  down = "no" /\ Down("huge_frame") /\ Reason("huge_frame")
  BY <1>9 DEF GetHugeFrame, At, Reason
<1>10. ASSUME NEW c \in Conn, GetLongBody(c)
       PROVE  down = "no" /\ Down("overrun") /\ Reason("overrun")
  BY <1>10 DEF GetLongBody, At, Reason
<1> QED
  BY <1>1, <1>2, <1>3, <1>4, <1>5, <1>6, <1>7, <1>8, <1>9, <1>10
  DEF Next, Quiescent, Get, Compute

LEMMA DownNext ==
  ASSUME Control, DownForAReason, [Next]_vars
  PROVE  DownForAReason'
<1>1. CASE down' = down /\ (down # "no" => UNCHANGED vars)
  <2>1. CASE down = "no"
    BY <1>1, <2>1 DEF DownForAReason
  <2>2. CASE UNCHANGED vars
    BY <2>2 DEF vars, queue, registers, DownForAReason, ConsumerLeft, Registered, Open
  <2> QED
    BY <1>1, <2>1, <2>2
<1>2. ASSUME NEW cause, Down(cause), Reason(cause)
      PROVE  DownForAReason'
  BY <1>2 DEF Down, Reason, Calm, queue, registers, DownForAReason, ConsumerLeft,
     Registered, Open
<1> QED
  BY <1>1, <1>2, DownStep

-----------------------------------------------------------------------------
(* The tag that deliveries name. *)

\* How far the tag of a connection is that consumes no more than once.
Stage(c) ==
  /\ pc[c] = "define_tag" => tag[c] = 0
  /\ pc[c] = "finish_tag" => tag[c] = 1
  /\ pc[c] = "consume_ok" => tag[c] = 2
  /\ pc[c] \in Consuming => Registered(c)
  /\ Registered(c) /\ pc[c] \notin Consuming => tag[c] = 2
  /\ ~Registered(c) => tag[c] = 0
  /\ \A i \in DOMAIN wire[c] : wire[c][i].what = "consume_ok" =>
       wire[c][i].tag = 2 /\ Registered(c) /\ pc[c] \notin Consuming

\* A delivery under way, dispatched after the consume-ok to d.
UnderWay(c, d) ==
  pc[c] \in Delivering /\ draft[c].to = d /\ ~draft[c].early =>
    /\ Announced(d)
    /\ pc[c] = "copy" => seen[c] = 2
    /\ pc[c] = "write" => draft[c].tag = 2 /\ draft[c].framed

\* A delivery written.
Named(c) ==
  \A i \in DOMAIN wire[c] :
    wire[c][i].what = "deliver" /\ ~wire[c][i].early =>
      /\ wire[c][i].framed
      /\ \E j \in 1 .. i - 1 : /\ wire[c][j].what = "consume_ok"
                               /\ wire[c][j].tag = wire[c][i].tag

TagOf(d) == Stage(d) /\ Named(d) /\ \A c \in Conn : UnderWay(c, d)

TagInv == Calm => \A d \in Conn : ConsumesOnce(d) => TagOf(d)

\* A connection that is in the queue once was there no more than once before,
\* and if it has just come, it was not there.
LEMMA OnceBefore ==
  ASSUME Control, [Next]_vars, NEW d \in Conn, ConsumesOnce(d)'
  PROVE  /\ ConsumesOnce(d)
         /\ ring' = Append(ring, d) => ~Registered(d)
<1>1. \A i \in DOMAIN ring : i \in DOMAIN ring' /\ ring'[i] = ring[i]
  BY RingGrows DEF Control
<1>2. ConsumesOnce(d)
  BY <1>1 DEF ConsumesOnce
<1>3. ASSUME ring' = Append(ring, d), Registered(d) PROVE FALSE
  <2>1. ring \in Seq(Conn)
    BY DEF Control, Base, TypeOK
  <2>2. /\ DOMAIN ring = 1 .. Len(ring) /\ Len(ring) \in Nat
        /\ DOMAIN ring' = 1 .. Len(ring) + 1 /\ ring'[Len(ring) + 1] = d
    BY <1>3, <2>1
  <2>3. PICK i \in DOMAIN ring : ring[i] = d
    BY <1>3 DEF Registered
  <2> QED
    BY <1>1, <2>2, <2>3 DEF ConsumesOnce
<1> QED
  BY <1>2, <1>3

\* A step that has nothing to do with tags and deliveries.
Plain(c) ==
  /\ pc[c] \notin Consuming \cup Delivering
  /\ \E l \in Labels \ (Consuming \cup Delivering) : pc' = [pc EXCEPT ![c] = l]
  /\ UNCHANGED <<ring, tag, seen, draft, wire>>

LEMMA TagKinds ==
  ASSUME [Next]_vars
  PROVE  \/ UNCHANGED <<pc, ring, tag, seen, draft, wire>>
         \/ \E c \in Conn : \/ Plain(c) \/ Send(c) \/ GetConsume(c) \/ DefineTag(c)
                           \/ FinishTag(c) \/ Dispatch(c) \/ AnnounceDelivery(c)
                           \/ CopyTag(c)
<1>1. CASE UNCHANGED vars
  BY <1>1 DEF vars, queue, registers
<1>2. ASSUME NEW c \in Conn,
             \/ AcceptFails(c) \/ PeerShuts(c) \/ PeerResets(c) \/ RecvFails(c)
             \/ StackOverflows(c) \/ GetHugeFrame(c) \/ GetLongBody(c)
             \/ DispatchEnded(c)
      PROVE  UNCHANGED <<pc, ring, tag, seen, draft, wire>>
  BY <1>2 DEF AcceptFails, PeerShuts, PeerResets, RecvFails, StackOverflows,
     GetHugeFrame, GetLongBody, DispatchEnded, Down, queue, registers
<1>3. {"recv", "unserved", "answer", "declare", "declare_ok", "dispatch", "close_ok",
       "blocked", "close", "release", "gone"} \subseteq Labels \ (Consuming \cup Delivering)
  BY DEF Labels, Working, Consuming, Delivering
<1>4. {"absent", "recv", "blocked", "declare", "dispatch", "close_method", "close",
       "release"} \cap (Consuming \cup Delivering) = {}
  BY DEF Consuming, Delivering
<1>5. ASSUME NEW c \in Conn, Accept(c) PROVE Plain(c)
  BY <1>3, <1>4, <1>5 DEF Accept, At, Goto, Plain, queue, registers
<1>6. ASSUME NEW c \in Conn,
             \/ GetRequest(c) \/ GetSilent(c) \/ GetBody(c) \/ GetDeclare(c)
             \/ GetClose(c) \/ GetEnd(c)
      PROVE  Plain(c)
  BY <1>3, <1>4, <1>6 DEF GetRequest, GetSilent, GetBody, GetDeclare, GetClose,
     GetFrame, GetEnd, At, Goto, Plain, queue, registers
<1>7. ASSUME NEW c \in Conn, BeginRecv(c) \/ LockDeclare(c) \/ DispatchNowhere(c)
      PROVE  Plain(c)
  BY <1>3, <1>4, <1>7 DEF BeginRecv, LockDeclare, DispatchNowhere, At, Goto, Plain,
     queue, registers
<1>8. ASSUME NEW c \in Conn, CloseMethod(c) \/ Close(c) \/ Release(c) PROVE Plain(c)
  BY <1>3, <1>4, <1>8 DEF CloseMethod, Close, CloseConnection, Release, At, Goto,
     Plain, queue, registers
<1> QED
  BY <1>1, <1>2, <1>5, <1>6, <1>7, <1>8 DEF Next, Quiescent, Get, Compute

LEMMA PlainTag ==
  ASSUME Control, NEW d \in Conn, TagOf(d),
         \/ UNCHANGED <<pc, ring, tag, seen, draft, wire>>
         \/ \E c \in Conn : Plain(c)
  PROVE  TagOf(d)'
<1>1. /\ UNCHANGED <<ring, tag, seen, draft, wire>>
      /\ \A e \in Conn : \/ pc'[e] = pc[e]
                        \/ /\ pc[e] \notin Consuming \cup Delivering
                           /\ pc'[e] \notin Consuming \cup Delivering
  BY DEF Plain, Control, Base, TypeOK
<1>2. Stage(d)'
  BY <1>1 DEF TagOf, Stage, Registered, Consuming
<1>3. Named(d)'
  BY <1>1 DEF TagOf, Named
<1>4. \A e \in Conn : UnderWay(e, d)'
  BY <1>1 DEF TagOf, UnderWay, Announced, Delivering
<1> QED
  BY <1>2, <1>3, <1>4 DEF TagOf

LEMMA ConsumeTag ==
  ASSUME Control, [Next]_vars, NEW d \in Conn, TagOf(d), ConsumesOnce(d)',
         NEW c \in Conn, GetConsume(c)
  PROVE  TagOf(d)'
<1>1. /\ pc[c] = "blocked" /\ pc' = [pc EXCEPT ![c] = "define_tag"]
      /\ ring' = Append(ring, c)
      /\ UNCHANGED <<tag, seen, draft, wire>>
  BY DEF GetConsume, GetFrame, At, Goto, registers, Q!Register
<1>2. /\ Registered(d) => Registered(d)'
      /\ c # d => (Registered(d)' => Registered(d))
      /\ Registered(c)'
  <2>1. /\ DOMAIN ring = 1 .. Len(ring) /\ Len(ring) \in Nat
        /\ DOMAIN ring' = 1 .. Len(ring) + 1 /\ ring'[Len(ring) + 1] = c
        /\ \A i \in 1 .. Len(ring) : ring'[i] = ring[i]
    <3>1. ring \in Seq(Conn)
      BY DEF Control, Base, TypeOK
    <3> QED
      BY <1>1, <3>1
  <2> QED
    BY <2>1 DEF Registered
<1>3. Stage(d)'
  <2>1. CASE c = d
    <3>1. ~Registered(d)
      BY <1>1, <2>1, OnceBefore
    <3>2. tag[d] = 0 /\ \A i \in DOMAIN wire[d] : wire[d][i].what # "consume_ok"
      BY <3>1 DEF TagOf, Stage
    <3>3. pc'[d] = "define_tag" /\ Registered(d)'
      BY <1>1, <1>2, <2>1 DEF Control, Base, TypeOK, Registered
    <3> QED
      BY <1>1, <3>2, <3>3 DEF Stage, Consuming
  <2>2. CASE c # d
    <3>1. pc'[d] = pc[d] /\ (Registered(d)' <=> Registered(d))
      <4>1. pc'[d] = pc[d]
        BY <1>1, <2>2 DEF Control, Base, TypeOK
      <4> QED
        BY <1>2, <2>2, <4>1
    <3> QED
      BY <1>1, <3>1 DEF TagOf, Stage
  <2> QED
    BY <2>1, <2>2
<1>4. Named(d)'
  BY <1>1 DEF TagOf, Named
<1>5. \A e \in Conn : UnderWay(e, d)'
  <2>1. \A e \in Conn : pc'[e] = pc[e] \/ pc'[e] = "define_tag"
    BY <1>1 DEF Control, Base, TypeOK
  <2> QED
    BY <1>1, <2>1 DEF TagOf, UnderWay, Announced, Delivering
<1> QED
  BY <1>3, <1>4, <1>5 DEF TagOf

LEMMA DefinedTag ==
  ASSUME Control, NEW d \in Conn, TagOf(d), NEW c \in Conn, DefineTag(c) \/ FinishTag(c)
  PROVE  TagOf(d)'
<1>1. /\ \/ pc[c] = "define_tag" /\ pc' = [pc EXCEPT ![c] = "finish_tag"]
         \/ pc[c] = "finish_tag" /\ pc' = [pc EXCEPT ![c] = "consume_ok"]
      /\ tag' = [tag EXCEPT ![c] = @ + 1]
      /\ UNCHANGED <<ring, seen, draft, wire>>
  BY DEF DefineTag, FinishTag, TouchTag, At, Goto, queue, registers
<1>2. Stage(d)'
  <2>1. CASE c = d
    <3>1. \/ pc[d] = "define_tag" /\ pc'[d] = "finish_tag"
          \/ pc[d] = "finish_tag" /\ pc'[d] = "consume_ok"
      BY <1>1, <2>1 DEF Control, Base, TypeOK
    <3>2. tag'[d] = tag[d] + 1
      BY <1>1, <2>1 DEF Control, Base, TypeOK
    <3>3. Registered(d)' /\ Registered(d)
      BY <1>1, <3>1 DEF TagOf, Stage, Consuming, Registered
    <3>4. \A i \in DOMAIN wire[d] : wire[d][i].what # "consume_ok"
      BY <3>1 DEF TagOf, Stage, Consuming
    <3> QED
      BY <1>1, <3>1, <3>2, <3>3, <3>4 DEF TagOf, Stage, Consuming
  <2>2. CASE c # d
    <3>1. pc'[d] = pc[d] /\ tag'[d] = tag[d] /\ Registered(d)' = Registered(d)
      BY <1>1, <2>2 DEF Control, Base, TypeOK, Registered
    <3> QED
      BY <1>1, <3>1 DEF TagOf, Stage
  <2> QED
    BY <2>1, <2>2
<1>3. Named(d)'
  BY <1>1 DEF TagOf, Named
<1>4. \A e \in Conn : UnderWay(e, d)'
  <2>1. \A e \in Conn : pc'[e] = pc[e] \/ pc'[e] \notin Delivering
    BY <1>1 DEF Control, Base, TypeOK, Delivering
  <2> QED
    BY <1>1, <2>1 DEF TagOf, UnderWay, Announced
<1> QED
  BY <1>2, <1>3, <1>4 DEF TagOf

\* The steps of a dispatch: only the draft of c changes.
LEMMA DispatchTag ==
  ASSUME Control, NEW d \in Conn, TagOf(d), NEW c \in Conn,
         Dispatch(c) \/ AnnounceDelivery(c) \/ CopyTag(c)
  PROVE  TagOf(d)'
<1>1. /\ UNCHANGED <<ring, tag, wire>>
      /\ \/ pc[c] = "dispatch" /\ pc' = [pc EXCEPT ![c] = "announce"]
         \/ pc[c] = "announce" /\ pc' = [pc EXCEPT ![c] = "copy"]
         \/ pc[c] = "copy" /\ pc' = [pc EXCEPT ![c] = "write"]
  <2>1. CASE Dispatch(c)
    BY <2>1, HandedOut DEF Dispatch, Control
  <2>2. CASE AnnounceDelivery(c) \/ CopyTag(c)
    BY <2>2 DEF AnnounceDelivery, CopyTag, At, Goto, queue
  <2> QED
    BY <2>1, <2>2
<1>2. Stage(d)'
  <2>1. pc'[d] = pc[d] \/ (pc[d] \notin Consuming /\ pc'[d] \notin Consuming)
    BY <1>1 DEF Control, Base, TypeOK, Consuming
  <2> QED
    BY <1>1, <2>1 DEF TagOf, Stage, Registered, Consuming
<1>3. Named(d)'
  BY <1>1 DEF TagOf, Named
<1>4. ASSUME NEW e \in Conn PROVE UnderWay(e, d)'
  <2>1. UnderWay(e, d) /\ Announced(d)' = Announced(d)
    BY <1>1 DEF TagOf, Announced
  <2>2. CASE e # c
    <3>1. pc'[e] = pc[e]
      BY <1>1, <2>2 DEF Control, Base, TypeOK
    <3>2. draft'[e] = draft[e] /\ seen'[e] = seen[e]
      <4>1. CASE Dispatch(c)
        <5>1. /\ seen' = seen
              /\ draft' = [draft EXCEPT ![c].to = ring[turn],
                                        ![c].early = ~Announced(ring[turn])]
          BY <4>1, HandedOut DEF Dispatch, Control
        <5> QED
          BY <2>2, <5>1 DEF Control, Base, TypeOK
      <4>2. CASE AnnounceDelivery(c)
        BY <2>2, <4>2 DEF AnnounceDelivery, Control, Base, TypeOK
      <4>3. CASE CopyTag(c)
        BY <2>2, <4>3 DEF CopyTag, Control, Base, TypeOK
      <4> QED
        BY <4>1, <4>2, <4>3
    <3> QED
      BY <2>1, <3>1, <3>2 DEF UnderWay
  <2>3. CASE e = c /\ Dispatch(c)
    <3>1. /\ ring[turn] \in Conn /\ pc' = [pc EXCEPT ![c] = "announce"]
          /\ draft' = [draft EXCEPT ![c].to = ring[turn],
                                    ![c].early = ~Announced(ring[turn])]
      BY <2>3, HandedOut DEF Dispatch, Control
    <3>2. PICK r \in Conn : r = ring[turn]
      BY <3>1
    <3>3. /\ draft'[e].to = r /\ draft'[e].early = ~Announced(r)
          /\ pc'[e] = "announce"
      BY <2>3, <3>1, <3>2, DraftOf DEF Control, Base, TypeOK, Items
    <3> QED
      BY <2>1, <3>3 DEF UnderWay, Announced
  <2>4. CASE e = c /\ AnnounceDelivery(c)
    <3>1. /\ pc[e] = "announce" /\ pc'[e] = "copy" /\ draft' = draft
          /\ seen'[e] = tag[draft[e].to]
      BY <2>4 DEF AnnounceDelivery, At, Goto, Control, Base, TypeOK
    <3>2. ASSUME draft[e].to = d, ~draft[e].early PROVE Announced(d) /\ tag[d] = 2
      <4>1. Announced(d)
        BY <2>1, <3>1, <3>2 DEF UnderWay, Delivering
      <4>2. Registered(d) /\ pc[d] \notin Consuming
        BY <4>1 DEF TagOf, Stage, Announced
      <4> QED
        BY <4>1, <4>2 DEF TagOf, Stage
    <3> QED
      BY <2>1, <3>1, <3>2 DEF UnderWay, Delivering
  <2>5. CASE e = c /\ CopyTag(c)
    <3>1. /\ pc[e] = "copy" /\ pc'[e] = "write"
          /\ draft' = [draft EXCEPT
                ![c].tag = IF tag[draft[c].to] = seen[c] /\ tag[draft[c].to] % 2 = 0
                           THEN tag[draft[c].to] ELSE Garbled,
                ![c].framed = (tag[draft[c].to] = 0 <=> seen[c] = 0)]
      BY <2>5 DEF CopyTag, At, Goto, Control, Base, TypeOK
    <3>2. draft'[e].to = draft[e].to /\ draft'[e].early = draft[e].early
      BY <2>5, <3>1, DraftOf DEF Control, Base, TypeOK, Items
    <3>3. ASSUME draft[e].to = d, ~draft[e].early
          PROVE  Announced(d) /\ draft'[e].tag = 2 /\ draft'[e].framed
      <4>1. Announced(d) /\ seen[e] = 2
        BY <2>1, <3>1, <3>3 DEF UnderWay, Delivering
      <4>2. Registered(d) /\ pc[d] \notin Consuming
        BY <4>1 DEF TagOf, Stage, Announced
      <4>3. tag[d] = 2
        BY <4>2 DEF TagOf, Stage
      <4>4. tag[draft[c].to] = 2 /\ seen[c] = 2 /\ 2 % 2 = 0 /\ 2 # 0
        BY <2>5, <3>3, <4>1, <4>3
      <4>5. draft' = [draft EXCEPT ![c].tag = 2, ![c].framed = TRUE]
        BY <3>1, <4>4
      <4>6. draft'[e].tag = 2 /\ draft'[e].framed = TRUE
        BY <2>5, <4>5, DraftOf DEF Control, Base, TypeOK, Items
      <4> QED
        BY <4>1, <4>6
    <3> QED
      BY <2>1, <3>1, <3>2, <3>3 DEF UnderWay
  <2> QED
    BY <2>2, <2>3, <2>4, <2>5
<1> QED
  BY <1>2, <1>3, <1>4 DEF TagOf

\* A write that reaches the one it is for.
LEMMA SentTag ==
  ASSUME Control, NEW d \in Conn, TagOf(d), NEW c \in Conn, NEW x, Reaches(c, x)
  PROVE  TagOf(d)'
<1>1. /\ Sent(c, x) /\ x \in Items /\ x.to \in Conn
      /\ wire' = [wire EXCEPT ![x.to] = Append(@, x)]
      /\ draft' = [draft EXCEPT ![c] = NoDelivery]
      /\ seen' = [seen EXCEPT ![c] = 0]
      /\ UNCHANGED <<ring, tag>>
      /\ wire \in [Conn -> Seq(Items)]
  BY DEF Reaches, Control, Base, TypeOK
<1>2. PICK l \in {"recv", "close_method"} : pc' = [pc EXCEPT ![c] = l]
  BY DEF Reaches
<1>3. /\ \A e \in Conn : e # c => pc'[e] = pc[e] /\ draft'[e] = draft[e] /\ seen'[e] = seen[e]
      /\ pc'[c] \notin Consuming \cup Delivering
  BY <1>1, <1>2 DEF Control, Base, TypeOK, Consuming, Delivering
<1>4. /\ x.what = "consume_ok" => pc[c] = "consume_ok" /\ x.to = c /\ x.tag = tag[c]
      /\ x.what = "deliver" => pc[c] = "write" /\ x = draft[c]
  <2>1. CASE /\ pc[c] \in {"answer", "declare_ok", "close_ok"}
             /\ x = Item("reply", c, 0)
    BY <2>1 DEF Item
  <2>2. CASE pc[c] = "consume_ok" /\ x = Item("consume_ok", c, tag[c])
    BY <2>2 DEF Item
  <2>3. CASE pc[c] = "write" /\ x = draft[c]
    BY <2>3 DEF Control, DraftInv, Drafted
  <2> QED
    BY <1>1, <2>1, <2>2, <2>3 DEF Sent
<1>5. PICK w \in Seq(Items) : w = wire[d]
  BY <1>1
<1>6. /\ \A i \in DOMAIN w : i \in DOMAIN wire'[d] /\ wire'[d][i] = w[i]
      /\ \A i \in DOMAIN wire'[d] :
           i \in DOMAIN w \/ (i = Len(w) + 1 /\ wire'[d][i] = x /\ x.to = d)
      /\ DOMAIN w = 1 .. Len(w) /\ Len(w) \in Nat
  <2>1. DOMAIN w = 1 .. Len(w) /\ Len(w) \in Nat
    OBVIOUS
  <2>2. CASE x.to = d
    <3>1. wire'[d] = Append(w, x)
      BY <1>1, <1>5, <2>2
    <3> QED
      BY <2>1, <2>2, <3>1
  <2>3. CASE x.to # d
    <3>1. wire'[d] = w
      BY <1>1, <1>5, <2>3
    <3> QED
      BY <2>1, <3>1
  <2> QED
    BY <2>2, <2>3
<1>7. Announced(d) => Announced(d)'
  BY <1>5, <1>6 DEF Announced
<1>8. Registered(d)' = Registered(d)
  BY <1>1 DEF Registered
<1>9. Stage(d)'
  <2>1. CASE c = d
    <3>1. pc'[d] \notin Consuming
      BY <1>3, <2>1
    <3>2. Registered(d) => tag[d] = 2 \/ pc[d] \in Consuming \ {"consume_ok"}
      BY DEF TagOf, Stage, Consuming
    <3>3. pc[d] \notin {"define_tag", "finish_tag"}
      BY <1>1, <2>1 DEF Sent
    <3>4. /\ Registered(d) => tag[d] = 2
          /\ ~Registered(d) => tag[d] = 0
          /\ pc[d] = "consume_ok" => Registered(d) /\ tag[d] = 2
      BY <3>2, <3>3 DEF TagOf, Stage, Consuming
    <3>5. ASSUME NEW i \in DOMAIN wire'[d], wire'[d][i].what = "consume_ok"
          PROVE  wire'[d][i].tag = 2 /\ Registered(d)
      BY <1>4, <1>5, <1>6, <2>1, <3>4, <3>5 DEF TagOf, Stage
    <3> QED
      BY <1>1, <1>8, <3>1, <3>4, <3>5 DEF Stage, Consuming
  <2>2. CASE c # d
    <3>1. pc'[d] = pc[d] /\ tag' = tag
      BY <1>1, <1>3, <2>2
    <3>2. ASSUME NEW i \in DOMAIN wire'[d], wire'[d][i].what = "consume_ok"
          PROVE  i \in DOMAIN wire[d] /\ wire'[d][i] = wire[d][i]
      BY <1>4, <1>5, <1>6, <2>2, <3>2
    <3> QED
      BY <1>8, <3>1, <3>2 DEF TagOf, Stage
  <2> QED
    BY <2>1, <2>2
<1>10. Named(d)'
  <2> SUFFICES ASSUME NEW i \in DOMAIN wire'[d], wire'[d][i].what = "deliver",
                      ~wire'[d][i].early
               PROVE  /\ wire'[d][i].framed
                      /\ \E j \in 1 .. i - 1 : /\ wire'[d][j].what = "consume_ok"
                                               /\ wire'[d][j].tag = wire'[d][i].tag
    BY DEF Named
  <2>1. CASE i \in DOMAIN w
    <3>1. /\ w[i].framed
          /\ \E j \in 1 .. i - 1 : w[j].what = "consume_ok" /\ w[j].tag = w[i].tag
      BY <1>5, <1>6, <2>1 DEF TagOf, Named
    <3>2. \A j \in 1 .. i - 1 : j \in DOMAIN w
      BY <1>6, <2>1
    <3> QED
      BY <1>6, <2>1, <3>1, <3>2
  <2>2. CASE i = Len(w) + 1 /\ wire'[d][i] = x /\ x.to = d
    <3>1. pc[c] = "write" /\ x = draft[c] /\ ~draft[c].early /\ draft[c].to = d
      BY <1>4, <2>2
    <3>2. Announced(d) /\ x.tag = 2 /\ x.framed
      BY <3>1 DEF TagOf, UnderWay, Delivering
    <3>3. PICK j \in DOMAIN w : w[j].what = "consume_ok" /\ w[j].tag = 2
      BY <1>5, <3>2 DEF Announced, TagOf, Stage
    <3>4. j \in 1 .. i - 1 /\ wire'[d][j] = w[j]
      BY <1>6, <2>2, <3>3
    <3> QED
      BY <2>2, <3>2, <3>3, <3>4
  <2> QED
    BY <1>6, <2>1, <2>2
<1>11. \A e \in Conn : UnderWay(e, d)'
  BY <1>3, <1>7 DEF TagOf, UnderWay
<1> QED
  BY <1>9, <1>10, <1>11 DEF TagOf

LEMMA TagNext ==
  ASSUME Control, TagInv, [Next]_vars
  PROVE  TagInv'
<1> SUFFICES ASSUME Calm', NEW d \in Conn, ConsumesOnce(d)'
             PROVE  TagOf(d)'
  BY DEF TagInv
<1>1. Calm /\ ConsumesOnce(d)
  BY CalmBefore, OnceBefore
<1>2. TagOf(d)
  BY <1>1 DEF TagInv
<1>3. ASSUME NEW c \in Conn, Send(c) PROVE TagOf(d)'
  <2>1. CASE Stays
    BY <1>2, <2>1, PlainTag DEF Stays
  <2>2. ASSUME NEW x, Reaches(c, x) PROVE TagOf(d)'
    BY <1>2, <2>2, SentTag
  <2> QED
    BY <1>1, <1>3, <2>1, <2>2, SendReaches
<1> QED
  BY <1>2, <1>3, TagKinds, PlainTag, ConsumeTag, DefinedTag, DispatchTag

-----------------------------------------------------------------------------
(* The theorems. *)

\* Where each thread stands, who is in the queue and who is at which
\* descriptor agree in every state: the invariant the others rest on.
THEOREM ControlInvariant == Spec => []Control
BY InitControl, ControlNext, PTL DEF Spec

\* Every variable of the process has its type.
THEOREM TypeCorrect == Spec => []TypeOK
<1>1. Control => TypeOK
  BY DEF Control, Base
<1> QED
  BY <1>1, ControlInvariant, PTL

\* Connection.c:66,42, ep1_main.c:72.  Until a number is given out between the
\* two closes of a connection, every open connection has its own descriptor.
THEOREM SocketIsOwn == Spec => []OwnDescriptor
<1>1. Control => OwnDescriptor
  BY DEF Control, Owned
<1> QED
  BY <1>1, ControlInvariant, PTL

\* Connection.c:42,75-78.  Whatever the connections do, a descriptor is in use
\* only while the connection it was accepted for is open, or has no thread.
THEOREM NoLeak == Spec => []NoDescriptorLeak
<1>1. Control => NoDescriptorLeak
  <2> SUFFICES ASSUME Control, NEW f \in Fd, table[f] # Null
               PROVE  \/ pc[table[f]] = "unserved"
                      \/ Open(table[f]) /\ socket[table[f]] = f
    BY DEF NoDescriptorLeak
  <2>1. table[f] \in Conn
    BY DEF Control, Base, TypeOK
  <2> QED
    BY <2>1 DEF Control, Owned, Kept
<1> QED
  BY <1>1, ControlInvariant, PTL

\* Queue.c:81, Frame.c:590-685.  Until a consumer leaves or a number is reused,
\* whatever any thread writes reaches the peer it is for.
THEOREM Reached == Spec => []BytesReachTheirPeer
<1>1. Init => BytesReachTheirPeer
  BY DEF Init, BytesReachTheirPeer
<1>2. Control /\ BytesReachTheirPeer /\ [Next]_vars => BytesReachTheirPeer'
  BY ReachNext
<1> QED
  BY <1>1, <1>2, ControlInvariant, PTL DEF Spec

\* super_functions.c:20-49, ep1_main.c:72-75, Frame.c:158,269,1032-1033.  Until a
\* consumer leaves or a number is reused, what ends the process, of what Server
\* models, is a peer that goes away, a full stack, a frame that does not fit it, a
\* body that does not fit its record or a full table of descriptors: never the
\* second close of a connection, nor a write to a descriptor that is not open.
THEOREM EndsForAReason == Spec => []DownForAReason
<1>1. Init => DownForAReason
  BY DEF Init, DownForAReason
<1>2. Control /\ DownForAReason /\ [Next]_vars => DownForAReason'
  BY DownNext
<1> QED
  BY <1>1, <1>2, ControlInvariant, PTL DEF Spec

\* Basic.c:57-59, Frame.c:654-663,900-934.  Until then, too, a delivery that was
\* dispatched after the consume-ok is framed rightly and names its tag, if its
\* consumer consumes once; whoever writes to it, and in whatever order.
THEOREM TagAnnounced == Spec => []AnnouncedTag
<1>1. Init => TagInv
  <2> SUFFICES ASSUME Init, NEW d \in Conn PROVE TagOf(d)
    BY DEF TagInv
  <2>1. /\ ring = <<>> /\ \A c \in Conn : pc[c] = "absent" /\ wire[c] = <<>> /\ tag[c] = 0
    BY DEF Init, Q!Init
  <2>2. DOMAIN ring = {} /\ DOMAIN wire[d] = {}
    BY <2>1
  <2>3. Stage(d)
    BY <2>1, <2>2 DEF Stage, Registered, Consuming
  <2>4. Named(d)
    BY <2>2 DEF Named
  <2>5. \A c \in Conn : UnderWay(c, d)
    BY <2>1 DEF UnderWay, Delivering
  <2> QED
    BY <2>3, <2>4, <2>5 DEF TagOf
<1>2. Control /\ TagInv /\ [Next]_vars => TagInv'
  BY TagNext
<1>3. TagInv => AnnouncedTag
  BY DEF TagInv, Calm, TagOf, Named, AnnouncedTag
<1> QED
  BY <1>1, <1>2, <1>3, ControlInvariant, PTL DEF Spec
=============================================================================
