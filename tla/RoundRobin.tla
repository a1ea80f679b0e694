----------------------------- MODULE RoundRobin -----------------------------
(***************************************************************************)
(* What a queue promises about dispatching while its consumers stay: the   *)
(* consumers form a ring in the order of their registration, each          *)
(* publication goes to the one whose turn it is, and a newcomer joins at   *)
(* the end of the ring without changing whose turn it is.                  *)
(***************************************************************************)
EXTENDS Integers, Sequences

CONSTANT Connection

VARIABLES
  ring,    \* the consumers, in order of registration
  turn,    \* position of the one served next
  handed   \* whom the publications went to since the last registration

vars == <<ring, turn, handed>>

Init == ring = <<>> /\ turn = 1 /\ handed = <<>>

Register(c) ==
  /\ ring' = Append(ring, c)
  /\ handed' = <<>>
  /\ UNCHANGED turn

Dispatch ==
  /\ ring # <<>>
  /\ handed' = Append(handed, ring[turn])
  /\ turn' = IF turn = Len(ring) THEN 1 ELSE turn + 1
  /\ UNCHANGED ring

Next == Dispatch \/ \E c \in Connection : Register(c)

Spec == Init /\ [][Next]_vars
=============================================================================
