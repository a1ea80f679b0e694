----------------------------- MODULE QueueList -----------------------------
(***************************************************************************)
(* queue_list of Queue.c: the table of the declared queues.  A declaration *)
(* (process_queue_declare) runs from its first test to the end of its      *)
(* reply under mutex_queue_declare; the lookups of basic.consume and of a  *)
(* publication (put_into_queue, get_connection_from_queue) walk the same   *)
(* table with no lock at all.                                              *)
(*                                                                         *)
(* A step of a lookup is one load of what a declaration may be writing; a  *)
(* declaration's own loads, which nobody disturbs, go with its next store. *)
(* The table maps to the names of the queues: a queue's record is filled   *)
(* in before its pointer is stored and its name never changes.             *)
(***************************************************************************)
EXTENDS Integers, FiniteSets

CONSTANTS
  Client,     \* connection threads
  Slow,       \* those whose peer may stop reading its socket
  Name,       \* queue names
  Null,       \* no queue: NULL, an uninitialised entry, a free mutex
  INITIAL_MAX_CONNECTIONS_QUEUES,
  POINTER_SIZE,  \* sizeof(IMQP_Queue *) in bytes
  MaxCalls       \* bound: declarations and lookups of one client

ASSUME ClientAssumption == Slow \subseteq Client /\ Null \notin Client \cup Name

ASSUME SizeAssumption ==
  /\ INITIAL_MAX_CONNECTIONS_QUEUES \in Nat \ {0}
  /\ POINTER_SIZE \in Nat \ {0}

ASSUME BoundAssumption == MaxCalls \in Nat

VARIABLES
  list,          \* queue_list.list: 0..capacity-1 to Name or Null
  capacity,      \* entries its allocation holds
  block,         \* which allocation it is: changes when realloc moves it
  max_queues,    \* 0 while queue_list.list is NULL
  total_queues,
  declareMutex,  \* holder of mutex_queue_declare, or Null
  pc,            \* client -> where its thread stands
  queue_name,    \* client -> the name it declares or looks up
  i,             \* client -> loop counter of its lookup
  base,          \* client -> register: queue_list.list as loaded
  fault,         \* "none", or what ended the process
  calls,         \* client -> calls begun
  acked,         \* history: names some client got a declare-ok for
  known          \* history: client -> acked when its lookup began

table == <<list, capacity, block, max_queues>>
walk == <<i, base, known>>
vars == <<table, total_queues, declareMutex, pc, queue_name, walk, fault,
          calls, acked>>

Declaring == {"grow", "store_entry", "store_total", "reply"}
Walking == {"load_total", "load_list", "load_entry"}
Answers == {"found", "missing"}
Labels == {"idle"} \cup Declaring \cup Walking \cup Answers

At(t, label) == fault = "none" /\ pc[t] = label
Goto(t, label) == pc' = [pc EXCEPT ![t] = label]

Listed(n) == \E m \in 0 .. capacity - 1 : m < total_queues /\ list[m] = n

Init ==
  /\ list = [n \in {} |-> Null]
  /\ capacity = 0
  /\ block = 0
  /\ max_queues = 0
  /\ total_queues = 0
  /\ declareMutex = Null
  /\ pc = [t \in Client |-> "idle"]
  /\ queue_name = [t \in Client |-> Null]
  /\ i = [t \in Client |-> 0]
  /\ base = [t \in Client |-> 0]
  /\ fault = "none"
  /\ calls = [t \in Client |-> 0]
  /\ acked = {}
  /\ known = [t \in Client |-> {}]

\* A client with nothing under way sends the next frame.
Call(t, n) ==
  /\ fault = "none" /\ pc[t] \in {"idle"} \cup Answers
  /\ calls[t] < MaxCalls
  /\ calls' = [calls EXCEPT ![t] = @ + 1]
  /\ queue_name' = [queue_name EXCEPT ![t] = n]

-----------------------------------------------------------------------------
(* process_queue_declare, init_IMQP_Queue_List, add_to_queue_list. *)

InitList ==
  /\ capacity' = INITIAL_MAX_CONNECTIONS_QUEUES
  /\ max_queues' = INITIAL_MAX_CONNECTIONS_QUEUES
  /\ list' = [n \in 0 .. capacity' - 1 |-> Null]
  /\ UNCHANGED block

\* Where a declaration of n goes once it holds the mutex.  (The search never
\* leaves the list: a list that grew too short for its entries has already
\* ended the process, at the store that made it grow.)
AfterScan(n) ==
  IF Listed(n) THEN "reply"
  ELSE IF total_queues = max_queues' THEN "grow" ELSE "store_entry"

Enter(t, n, next) ==
  /\ Call(t, n)
  /\ declareMutex' = t
  /\ IF max_queues = 0 THEN InitList ELSE UNCHANGED table
  /\ Goto(t, next)
  /\ UNCHANGED <<total_queues, walk, fault, acked>>

\* Faulty variant: the mutex is not waited for.
DeclareUnlocked(t, n) == Enter(t, n, AfterScan(n))

\* The mutex is free; the list is allocated if need be, and searched.
Declare(t, n) == declareMutex = Null /\ Enter(t, n, AfterScan(n))

\* Faulty variant: the list realloc returns is not assigned.
GrowUnassigned(t) ==
  /\ At(t, "grow")
  /\ max_queues' = 2 * max_queues
  /\ capacity' = (2 * max_queues) \div POINTER_SIZE
  /\ Goto(t, "store_entry")
  /\ UNCHANGED <<list, block, total_queues, declareMutex, queue_name, walk,
                 fault, calls, acked>>

\* max_queues doubles, and realloc is asked for that many BYTES; it may
\* leave the list in place or move it and free the old block.
Grow(t) ==
  /\ At(t, "grow")
  /\ max_queues' = 2 * max_queues
  /\ capacity' = (2 * max_queues) \div POINTER_SIZE
  /\ list' = [n \in 0 .. capacity' - 1 |->
                IF n < capacity THEN list[n] ELSE Null]
  /\ block' \in {block, block + 1}
  /\ Goto(t, "store_entry")
  /\ UNCHANGED <<total_queues, declareMutex, queue_name, walk, fault, calls,
                 acked>>

\* Faulty variant: an entry is replaced.
StoreEntryBelow(t) ==
  /\ At(t, "store_entry") /\ total_queues < capacity
  /\ list' = [list EXCEPT ![IF total_queues = 0 THEN 0 ELSE total_queues - 1]
                            = queue_name[t]]
  /\ Goto(t, "store_total")
  /\ UNCHANGED <<capacity, block, max_queues, total_queues, declareMutex,
                 queue_name, walk, fault, calls, acked>>

StoreEntry(t) ==
  /\ At(t, "store_entry") /\ total_queues < capacity
  /\ list' = [list EXCEPT ![total_queues] = queue_name[t]]
  /\ Goto(t, "store_total")
  /\ UNCHANGED <<capacity, block, max_queues, total_queues, declareMutex,
                 queue_name, walk, fault, calls, acked>>

\* Faulty variant: the counter runs ahead of the entries.
StoreTotalTwice(t) ==
  /\ At(t, "store_total")
  /\ total_queues' = total_queues + 2
  /\ Goto(t, "reply")
  /\ UNCHANGED <<table, declareMutex, queue_name, walk, fault, calls, acked>>

StoreTotal(t) ==
  /\ At(t, "store_total")
  /\ total_queues' = total_queues + 1
  /\ Goto(t, "reply")
  /\ UNCHANGED <<table, declareMutex, queue_name, walk, fault, calls, acked>>

\* send_queue_declare_ok, for a new name and for a known one, and unlock.
Reply(t) ==
  /\ At(t, "reply")
  /\ acked' = acked \cup {queue_name[t]}
  /\ declareMutex' = Null
  /\ Goto(t, "idle")
  /\ UNCHANGED <<table, total_queues, queue_name, walk, fault, calls>>

-----------------------------------------------------------------------------
(* The loop of put_into_queue and of get_connection_from_queue. *)

LookUp(t, n) ==
  /\ Call(t, n)
  /\ i' = [i EXCEPT ![t] = 0]
  /\ known' = [known EXCEPT ![t] = acked]
  /\ Goto(t, "load_total")
  /\ UNCHANGED <<table, total_queues, declareMutex, base, fault, acked>>

LoadTotal(t) ==
  /\ At(t, "load_total")
  /\ Goto(t, IF i[t] < total_queues THEN "load_list" ELSE "missing")
  /\ UNCHANGED <<table, total_queues, declareMutex, queue_name, walk, fault,
                 calls, acked>>

LoadList(t) ==
  /\ At(t, "load_list")
  /\ base' = [base EXCEPT ![t] = block]
  /\ Goto(t, "load_entry")
  /\ UNCHANGED <<table, total_queues, declareMutex, queue_name, i, known,
                 fault, calls, acked>>

\* The entry this lookup is about to load is in the current allocation and
\* has been written.
Readable(t) == /\ base[t] = block /\ i[t] < capacity
               /\ list[i[t]] # Null

Compare(t, skip) ==
  /\ At(t, "load_entry") /\ Readable(t)
  /\ IF list[i[t]] = queue_name[t]
     THEN Goto(t, "found") /\ UNCHANGED i
     ELSE Goto(t, "load_total") /\ i' = [i EXCEPT ![t] = @ + skip]
  /\ UNCHANGED <<table, total_queues, declareMutex, queue_name, base, known,
                 fault, calls, acked>>

\* Faulty variants: the loop skips an entry, or does not move on.
LoadEntrySkipping(t) == Compare(t, 2)
LoadEntryInPlace(t) == Compare(t, 0)

LoadEntry(t) == Compare(t, 1)

\* Accesses that have no defined outcome end the behaviour.
Outside(t) ==
  /\ \/ At(t, "store_entry") /\ total_queues >= capacity
     \/ At(t, "load_entry") /\ ~Readable(t)
  /\ fault' = "out_of_bounds"
  /\ UNCHANGED <<table, total_queues, declareMutex, pc, queue_name, walk,
                 calls, acked>>

-----------------------------------------------------------------------------

Add(t) == Grow(t) \/ StoreEntry(t) \/ StoreTotal(t)
Walk(t) == LoadTotal(t) \/ LoadList(t) \/ LoadEntry(t)

\* Nobody has anything left to do, or the process is gone.
Quiescent ==
  /\ fault # "none" \/ \A t \in Client : pc[t] \in {"idle"} \cup Answers
  /\ UNCHANGED vars

Next ==
  \/ \E t \in Client :
       \/ \E n \in Name : Declare(t, n) \/ LookUp(t, n)
       \/ Add(t) \/ Reply(t) \/ Walk(t) \/ Outside(t)
  \/ Quiescent

Spec == Init /\ [][Next]_vars

\* A thread inside an operation is scheduled again.  The write of a reply
\* ends only if the peer reads; nobody has to send another frame.
FairSpec ==
  /\ Spec
  /\ \A t \in Client : WF_vars(Add(t) \/ Walk(t) \/ Outside(t))
  /\ \A t \in Client \ Slow : WF_vars(Reply(t))

-----------------------------------------------------------------------------
(* Properties. *)

\* Every variable has its type.
TypeOK ==
  /\ capacity \in Nat
  /\ list \in [0 .. capacity - 1 -> Name \cup {Null}]
  /\ block \in Nat
  /\ max_queues \in Nat
  /\ total_queues \in Nat
  /\ declareMutex \in Client \cup {Null}
  /\ pc \in [Client -> Labels]
  /\ queue_name \in [Client -> Name \cup {Null}]
  /\ i \in [Client -> Nat]
  /\ base \in [Client -> Nat]
  /\ fault \in {"none", "out_of_bounds"}
  /\ calls \in [Client -> Nat]
  /\ acked \subseteq Name
  /\ known \in [Client -> SUBSET Name]

Grown == max_queues > INITIAL_MAX_CONNECTIONS_QUEUES

\* Queue.c:150-163.  Two declarations of one name, however they overlap,
\* leave one queue of that name in the table.
NamesUnique ==
  ~Grown => \A m, n \in 0 .. total_queues - 1 : list[m] = list[n] => m = n

\* Queue.c:117-119,168-169 with 92-94 and 187-189.  Who looks up a name
\* after its declare-ok was sent finds it, whatever is declared meanwhile,
\* although the lookup takes no lock.
DeclaredIsFound ==
  ~Grown => \A t \in Client : pc[t] = "missing" => queue_name[t] \notin known[t]

\* Queue.c:92-94,168-169,187-189.  As long as the list never had to grow,
\* no lookup loads an entry that is not there or not written yet, and no
\* declaration writes outside the list.
SafeUntilGrowth ==
  ~Grown => /\ fault = "none"
            /\ \A t \in Client : pc[t] = "load_entry" => Readable(t)

\* Queue.c:168-169.  What is in the table stays where it is: a lookup under
\* way never sees an entry it passed change.
AppendOnly ==
  [][~Grown' => /\ total_queues' >= total_queues
                /\ \A n \in 0 .. total_queues - 1 : list'[n] = list[n]]_vars

\* How far each client is, seen from outside.
Phase ==
  [t \in Client |-> IF pc[t] \in Declaring THEN "declaring"
                    ELSE IF pc[t] \in Walking THEN "looking" ELSE pc[t]]

Promise == INSTANCE Registry
             WITH queues <- {n \in Name : Listed(n)}, phase <- Phase,
                  name <- queue_name

\* Queue.c:92-94,150-169,187-189.  As long as the list never had to grow, a
\* lookup that walks it with no lock, while a declaration writes it, answers
\* as if it had seen the whole list at one moment, and a declaration as if
\* it added its name at one moment.
Linearizable ==
  Promise!Init /\ [][~Grown' => [Promise!Next]_(Promise!vars)]_vars

\* The steps a lookup still has before it, at most, in a list that has not
\* grown.
StepsAhead(t) ==
  3 * (INITIAL_MAX_CONNECTIONS_QUEUES - i[t])
    + (IF pc[t] = "load_total" THEN 2 ELSE IF pc[t] = "load_list" THEN 1 ELSE 0)

\* Queue.c:92-94,187-189.  Every step of a lookup brings it nearer to its
\* answer and nothing another thread does takes it back: its steps are
\* bounded by the room in the list, however many names are added meanwhile.
LookUpAdvances ==
  [][~Grown' => \A t \in Client : pc[t] \in Walking /\ pc'[t] \in Walking =>
       \/ pc'[t] = pc[t] /\ i'[t] = i[t]
       \/ StepsAhead(t)' \in 0 .. StepsAhead(t) - 1]_vars

\* Queue.c:92,187.  A lookup comes to an end even while a declaration holds
\* the mutex for a peer that does not read its declare-ok.
LookUpEnds ==
  \A t \in Client : pc[t] \in Walking ~> (pc[t] \notin Walking \/ fault # "none")
=============================================================================
