---------------------------- MODULE LeavingRing ----------------------------
(***************************************************************************)
(* What a queue promises when its consumers may leave: the ring of         *)
(* RoundRobin, where the dispatch looks at the consumer whose turn it is   *)
(* and then serves it, or, when its connection has ended, takes it out of  *)
(* the ring and passes the turn to the next one.  Registrations may come   *)
(* in between; the others keep their places.                               *)
(***************************************************************************)
EXTENDS Integers, Sequences

CONSTANT Connection

VARIABLES
  ring,    \* the consumers, in order of registration
  turn,    \* position of the one served next
  handed,  \* whom the publications went to since the last registration
  ended,   \* the connections that have ended
  verdict  \* "none", or what the dispatch under way is about to do

vars == <<ring, turn, handed, ended, verdict>>

Init ==
  /\ ring = <<>> /\ turn = 1 /\ handed = <<>>
  /\ ended = {} /\ verdict = "none"

\* A connection begins, perhaps at the address of one that has ended.
Begin(c) == ended' = ended \ {c} /\ UNCHANGED <<ring, turn, handed, verdict>>

End(c) == ended' = ended \cup {c} /\ UNCHANGED <<ring, turn, handed, verdict>>

Register(c) ==
  /\ ring' = Append(ring, c)
  /\ handed' = <<>>
  /\ UNCHANGED <<turn, ended, verdict>>

Look ==
  /\ verdict = "none" /\ ring # <<>>
  /\ verdict' = IF ring[turn] \in ended THEN "drop" ELSE "serve"
  /\ UNCHANGED <<ring, turn, handed, ended>>

Serve ==
  /\ verdict = "serve"
  /\ handed' = Append(handed, ring[turn])
  /\ turn' = IF turn = Len(ring) THEN 1 ELSE turn + 1
  /\ verdict' = "none"
  /\ UNCHANGED <<ring, ended>>

Drop ==
  /\ verdict = "drop"
  /\ ring' = [k \in 1 .. Len(ring) - 1 |-> IF k < turn THEN ring[k]
                                                       ELSE ring[k + 1]]
  /\ turn' = IF turn = Len(ring) THEN 1 ELSE turn
  /\ verdict' = "none"
  /\ UNCHANGED <<handed, ended>>

Next ==
  \/ \E c \in Connection : Begin(c) \/ End(c) \/ Register(c)
  \/ Look \/ Serve \/ Drop

Spec == Init /\ [][Next]_vars
=============================================================================
