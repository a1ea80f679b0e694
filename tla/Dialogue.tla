------------------------------ MODULE Dialogue ------------------------------
(***************************************************************************)
(* What a connection promises its peer: requests are dealt with one after  *)
(* the other in the order they were asked, each that calls for an answer   *)
(* gets exactly that answer, and when the dialogue is over nothing more is *)
(* dealt with or answered.                                                 *)
(***************************************************************************)
EXTENDS Integers, Sequences

CONSTANTS
  Request,
  ReplyTo(_)   \* the answer a request calls for, or "none"

VARIABLES
  asked,     \* the requests
  done,      \* how many of them were dealt with
  answers,   \* the answers, each with the request it belongs to
  over

vars == <<asked, done, answers, over>>

Init == asked = <<>> /\ done = 0 /\ answers = <<>> /\ over = FALSE

Ask(r) == asked' = Append(asked, r) /\ UNCHANGED <<done, answers, over>>

\* The dialogue may end with an answer.
Answer ==
  /\ ~over /\ done < Len(asked)
  /\ done' = done + 1
  /\ LET what == ReplyTo(asked[done']) IN
       answers' = IF what = "none" THEN answers
                  ELSE Append(answers, [frame |-> done', what |-> what])
  /\ over' \in BOOLEAN
  /\ UNCHANGED asked

Stop == over' = TRUE /\ UNCHANGED <<asked, done, answers>>

Next == Answer \/ Stop \/ \E r \in Request : Ask(r)

Spec == Init /\ [][Next]_vars
=============================================================================
