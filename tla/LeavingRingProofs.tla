------------------------- MODULE LeavingRingProofs -------------------------
(***************************************************************************)
(* The two promises about a queue agree: as long as no connection has      *)
(* ended, the ring of LeavingRing is that of RoundRobin.                   *)
(***************************************************************************)
EXTENDS LeavingRing, TLAPS

Plain == INSTANCE RoundRobin

\* The turn is somebody's, and what the dispatch is about to do is right.
TurnInv ==
  /\ ring \in Seq(Connection)
  /\ turn \in 1 .. Len(ring) \/ (ring = <<>> /\ turn = 1)
  /\ verdict # "none" => ring # <<>>

LEMMA AppendedRing ==
  ASSUME NEW s \in Seq(Connection), NEW c \in Connection
  PROVE  /\ Append(s, c) \in Seq(Connection) /\ Append(s, c) # <<>>
         /\ Len(Append(s, c)) = Len(s) + 1
<1>1. PICK q : q = Append(s, c)
  OBVIOUS
<1>2. q \in Seq(Connection) /\ Len(q) = Len(s) + 1 /\ Len(s) \in Nat
  BY <1>1
<1>3. q # <<>>
  BY <1>2
<1>4. QED
  BY <1>1, <1>2, <1>3

LEMMA ClosedUp ==
  ASSUME NEW s \in Seq(Connection), s # <<>>, NEW n \in Nat
  PROVE  LET r == [k \in 1 .. Len(s) - 1 |-> IF k < n THEN s[k] ELSE s[k + 1]]
         IN r \in Seq(Connection) /\ Len(r) = Len(s) - 1 /\ Len(s) > 0
<1> DEFINE r == [k \in 1 .. Len(s) - 1 |-> IF k < n THEN s[k] ELSE s[k + 1]]
<1>1. Len(s) \in Nat /\ Len(s) > 0
  OBVIOUS
<1>2. \A k \in 1 .. Len(s) - 1 : (IF k < n THEN s[k] ELSE s[k + 1]) \in Connection
  BY <1>1
<1>3. r \in [1 .. Len(s) - 1 -> Connection]
  BY <1>2
<1> HIDE DEF r
<1>4. r \in Seq(Connection) /\ Len(r) = Len(s) - 1
  BY <1>1, <1>3
<1>5. QED
  BY <1>1, <1>4 DEF r

LEMMA TurnStep ==
  ASSUME TurnInv, [Next]_vars
  PROVE  TurnInv'
<1> USE DEF TurnInv
<1>1. CASE UNCHANGED vars
  BY <1>1 DEF vars
<1>2. CASE \E c \in Connection : Begin(c) \/ End(c)
  BY <1>2 DEF Begin, End
<1>3. CASE \E c \in Connection : Register(c)
  <2>1. PICK c \in Connection : Register(c)
    BY <1>3
  <2>2. PICK q : q = Append(ring, c)
    OBVIOUS
  <2>3. q \in Seq(Connection) /\ q # <<>> /\ Len(q) = Len(ring) + 1
    BY <2>2, AppendedRing
  <2>4. ring' = q /\ turn' = turn /\ Len(ring) \in Nat
    BY <2>1, <2>2 DEF Register
  <2>5. turn \in 1 .. Len(ring) \/ (Len(ring) = 0 /\ turn = 1)
    OBVIOUS
  <2>6. QED
    BY <2>3, <2>4, <2>5
<1>4. CASE Look
  BY <1>4 DEF Look
<1>5. CASE Serve
  BY <1>5 DEF Serve
<1>6. CASE Drop
  <2>1. ring # <<>> /\ turn \in 1 .. Len(ring)
    BY <1>6 DEF Drop
  <2>2. PICK q : q = ring'
    OBVIOUS
  <2>3. q \in Seq(Connection) /\ Len(q) = Len(ring) - 1 /\ Len(ring) > 0
    BY <1>6, <2>1, <2>2, ClosedUp DEF Drop
  <2>4. turn' = (IF turn = Len(ring) THEN 1 ELSE turn) /\ verdict' = "none"
    BY <1>6 DEF Drop
  <2>5. turn' \in 1 .. Len(q) \/ (q = <<>> /\ turn' = 1)
    BY <2>1, <2>3, <2>4
  <2>6. QED
    BY <2>2, <2>3, <2>4, <2>5
<1>7. QED
  BY <1>1, <1>2, <1>3, <1>4, <1>5, <1>6 DEF Next

\* However connections come, go and are taken out, the turn is somebody's as
\* long as there is anybody (Queue.c:200,222-224).
THEOREM TurnIsSomebodys == Spec => []TurnInv
<1>1. Init => TurnInv
  BY DEF Init, TurnInv
<1>2. QED
  BY <1>1, TurnStep, PTL DEF Spec

\* While no connection ends, a queue promises what RoundRobin says.
THEOREM PlainWhileNobodyLeaves == Spec /\ [](ended = {}) => Plain!Spec
<1> DEFINE Kept == verdict # "drop"
<1>1. Init => Plain!Init /\ Kept
  BY DEF Init, Plain!Init
<1>2. ended = {} /\ Kept /\ [Next]_vars => Kept'
  BY DEF Next, vars, Begin, End, Register, Look, Serve, Drop
<1>3. TurnInv /\ ended = {} /\ Kept /\ [Next]_vars => [Plain!Next]_(Plain!vars)
  <2> USE DEF Plain!vars
  <2>1. CASE \E c \in Connection : Register(c)
    BY <2>1 DEF Register, Plain!Next, Plain!Register
  <2>2. CASE TurnInv /\ Serve
    BY <2>2 DEF TurnInv, Serve, Plain!Next, Plain!Dispatch
  <2>3. CASE Kept /\ Drop
    BY <2>3 DEF Drop
  <2>4. CASE UNCHANGED vars \/ Look \/ \E c \in Connection : Begin(c) \/ End(c)
    BY <2>4 DEF vars, Look, Begin, End
  <2>5. QED
    BY <2>1, <2>2, <2>3, <2>4 DEF Next
<1>4. QED
  BY <1>1, <1>2, <1>3, TurnIsSomebodys, PTL DEF Spec, Plain!Spec
=============================================================================
