------------------------------ MODULE Registry ------------------------------
(***************************************************************************)
(* What the broker promises about the names of its queues: one declaration *)
(* at a time, which leaves one queue of its name, and lookups that see the *)
(* names as they are at one moment between their begin and their answer.   *)
(***************************************************************************)
CONSTANTS Client, Name, Null

VARIABLES
  queues,  \* the names that are declared
  phase,   \* client -> what it is doing, or the answer it got last
  name     \* client -> the name it declares or looks up

vars == <<queues, phase, name>>

Init ==
  /\ queues = {}
  /\ phase = [t \in Client |-> "idle"]
  /\ name = [t \in Client |-> Null]

Begin(t, n, what) ==
  /\ phase[t] \in {"idle", "found", "missing"}
  /\ phase' = [phase EXCEPT ![t] = what]
  /\ name' = [name EXCEPT ![t] = n]
  /\ UNCHANGED queues

\* Declarations take turns.
Declare(t, n) ==
  /\ \A u \in Client : phase[u] # "declaring"
  /\ Begin(t, n, "declaring")

LookUp(t, n) == Begin(t, n, "looking")

Create(t) ==
  /\ phase[t] = "declaring" /\ name[t] \notin queues
  /\ queues' = queues \cup {name[t]}
  /\ UNCHANGED <<phase, name>>

\* declare-ok, for a new queue and for one that was there.
Confirm(t) ==
  /\ phase[t] = "declaring" /\ name[t] \in queues
  /\ phase' = [phase EXCEPT ![t] = "idle"]
  /\ UNCHANGED <<queues, name>>

\* The answer is right at this moment.
Answer(t) ==
  /\ phase[t] = "looking"
  /\ phase' = [phase EXCEPT ![t] = IF name[t] \in queues THEN "found"
                                                         ELSE "missing"]
  /\ UNCHANGED <<queues, name>>

Next ==
  \E t \in Client :
    \/ \E n \in Name : Declare(t, n) \/ LookUp(t, n)
    \/ Create(t) \/ Confirm(t) \/ Answer(t)

Spec == Init /\ [][Next]_vars
=============================================================================
