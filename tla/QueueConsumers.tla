--------------------------- MODULE QueueConsumers ---------------------------
(***************************************************************************)
(* One IMQP_Queue of Queue.c: the array of consumer connections, its       *)
(* counters and the round-robin index, shared by the connection threads.   *)
(*                                                                         *)
(* A registration (put_into_queue) and a dispatch (get_connection_from_    *)
(* queue) take DIFFERENT mutexes, so they run concurrently on one array.   *)
(* An action makes one access to what another thread may be writing, in    *)
(* the order of the loads and stores of the build (-O0, Makefile:3); what  *)
(* a held mutex protects goes with it.  Taking a mutex is merged with the  *)
(* access after it and releasing it with the access before it, which       *)
(* other threads cannot tell apart.                                        *)
(*                                                                         *)
(* The Connection records the array points to live on a heap that may hand *)
(* a freed record out again.  Freeing a record that is not allocated and   *)
(* an access outside the array have no defined outcome: they set `fault',  *)
(* and the behaviour ends there.                                           *)
(***************************************************************************)
EXTENDS Integers, Sequences, FiniteSets

CONSTANTS
  Client,     \* connection threads; each serves one accepted connection
  Consumer,   \* those that may send basic.consume
  Publisher,  \* those that may send a complete publication
  Leaver,     \* those whose connection may end
  Record,     \* the addresses malloc returns for a Connection
  Null,       \* no record: NULL, an uninitialised slot, a free mutex
  INITIAL_MAX_CONNECTIONS,
  RECORD_WORDS,   \* sizeof(Connection) in pointers
  POINTER_SIZE,   \* sizeof(Connection *) in bytes
  MaxConsumes,    \* bound: registrations of one client
  MaxHanded       \* bound: dispatches between two registrations

ASSUME ClientAssumption ==
  /\ Consumer \subseteq Client
  /\ Publisher \subseteq Client
  /\ Leaver \subseteq Client
  /\ Null \notin Client \cup Record

ASSUME SizeAssumption ==
  /\ INITIAL_MAX_CONNECTIONS \in Nat \ {0}
  /\ RECORD_WORDS \in Nat \ {0}
  /\ POINTER_SIZE \in Nat \ {0}

ASSUME BoundAssumption == MaxConsumes \in Nat /\ MaxHanded \in Nat

VARIABLES
  connections,        \* queue->connections: 0..capacity-1 to Record or Null
  capacity,           \* slots the allocation of queue->connections holds
  total_connections,
  max_connections,
  round_robin,
  putMutex,           \* holder of mutex_put_connection_in_queue, or Null
  getMutex,           \* holder of mutex_get_next_connection, or Null
  allocated,          \* the records malloc has handed out and nobody freed
  closed,             \* record -> its closed field (a freed record keeps it)
  record,             \* client -> the record of its connection
  pc,                 \* client -> where its thread stands
  index,              \* client -> register: a slot number
  total,              \* client -> register: total_connections as loaded
  connection,         \* client -> register: a connection pointer
  fault,              \* "none", or what ended the process
  consumes,           \* client -> completed registrations
  handed,             \* history: records handed out since the last
                      \* registration, in order
  raced               \* history: a registration and the end of a removal
                      \* have overlapped

array == <<connections, capacity, max_connections>>
mutexes == <<putMutex, getMutex>>
heap == <<allocated, closed, record>>
registers == <<index, total, connection>>
ghosts == <<fault, consumes, handed, raced>>
vars == <<array, total_connections, round_robin, mutexes, heap, pc, registers,
          ghosts>>

Putting == {"grow", "load_index", "store_slot", "load_total", "store_total"}
Removing == {"is_inner", "shift", "is_last", "drop_load", "drop_store",
             "free_victim"}
Getting == {"check_index", "check_closed", "advance"} \cup Removing
Resting == {"new", "idle", "gone"}
Labels == Putting \cup Getting \cup Resting \cup {"release", "deliver"}

\* A registration has loaded the total and not yet stored the next one; a
\* removal has found its last entry, or pulled it down, and not yet stored
\* the total.  The total that is stored last forgets the other's change.
Storing == {"store_slot", "load_total", "store_total"}
Dropping == {"is_last", "drop_load", "drop_store"}
Overlap == \E t, u \in Client : pc[t] \in Storing /\ pc[u] \in Dropping

At(t, label) == fault = "none" /\ pc[t] = label
Goto(t, label) == pc' = [pc EXCEPT ![t] = label]

\* The slot a thread is about to access, where it is about to access one.
AtSlot(t) == \/ pc[t] \in {"store_slot", "check_closed"}
             \/ pc[t] = "shift" /\ index[t] < total_connections
Slot(t) == IF pc[t] = "check_closed" THEN round_robin ELSE index[t]

Fault(kind) ==
  /\ fault' = kind
  /\ UNCHANGED <<array, total_connections, round_robin, mutexes, heap, pc,
                 registers, consumes, handed, raced>>

OutOfBounds(t) ==
  /\ fault = "none" /\ AtSlot(t)
  /\ Slot(t) >= capacity
  /\ Fault("out_of_bounds")

DoubleFree(t) ==
  /\ \/ At(t, "release") /\ record[t] \notin allocated
     \/ At(t, "free_victim") /\ connection[t] \notin allocated
  /\ Fault("double_free")

-----------------------------------------------------------------------------
(* new_IMQP_Queue, and the record of a connection thread. *)

Init ==
  /\ capacity = INITIAL_MAX_CONNECTIONS * RECORD_WORDS
  /\ connections = [i \in 0 .. capacity - 1 |-> Null]
  /\ total_connections = 0
  /\ max_connections = INITIAL_MAX_CONNECTIONS
  /\ round_robin = 0
  /\ putMutex = Null /\ getMutex = Null
  /\ allocated = {}
  /\ closed = [r \in Record |-> FALSE]
  /\ record = [t \in Client |-> Null]
  /\ pc = [t \in Client |-> "new"]
  /\ index = [t \in Client |-> 0]
  /\ total = [t \in Client |-> 0]
  /\ connection = [t \in Client |-> Null]
  /\ fault = "none"
  /\ consumes = [t \in Client |-> 0]
  /\ handed = <<>>
  /\ raced = FALSE

\* Faulty variant: the record is not zeroed.
ConnectUnzeroed(t) ==
  /\ At(t, "new")
  /\ \E r \in Record \ allocated :
       allocated' = allocated \cup {r} /\ record' = [record EXCEPT ![t] = r]
  /\ Goto(t, "idle")
  /\ UNCHANGED <<array, total_connections, round_robin, mutexes, closed,
                 registers, ghosts>>

\* A new thread's record: any free one, zeroed.
Connect(t) ==
  /\ At(t, "new")
  /\ \E r \in Record \ allocated :
       /\ allocated' = allocated \cup {r}
       /\ closed' = [closed EXCEPT ![r] = FALSE]
       /\ record' = [record EXCEPT ![t] = r]
  /\ Goto(t, "idle")
  /\ UNCHANGED <<array, total_connections, round_robin, mutexes, registers,
                 ghosts>>

\* The frame loop has returned: close_connection marks the record ...
Leave(t) ==
  /\ At(t, "idle") /\ t \in Leaver
  /\ closed' = [closed EXCEPT ![record[t]] = TRUE]
  /\ Goto(t, "release")
  /\ UNCHANGED <<array, total_connections, round_robin, mutexes, allocated,
                 record, registers, ghosts>>

\* ... and process_connection frees it, whoever still points to it.
Release(t) ==
  /\ At(t, "release") /\ record[t] \in allocated
  /\ allocated' = allocated \ {record[t]}
  /\ Goto(t, "gone")
  /\ UNCHANGED <<array, total_connections, round_robin, mutexes, closed,
                 record, registers, ghosts>>

-----------------------------------------------------------------------------
(* put_into_queue and add_to_queue, under mutex_put_connection_in_queue. *)

\* Faulty variant: the array is not checked for room.
EnlistUnchecked(t) ==
  /\ At(t, "idle") /\ t \in Consumer /\ consumes[t] < MaxConsumes
  /\ putMutex' = t
  /\ Goto(t, "load_index")
  /\ UNCHANGED <<array, total_connections, round_robin, getMutex, heap,
                 registers, ghosts>>

Enlist(t) ==
  /\ At(t, "idle") /\ t \in Consumer /\ consumes[t] < MaxConsumes
  /\ putMutex' = t
  /\ Goto(t, IF total_connections = max_connections THEN "grow"
                                                     ELSE "load_index")
  /\ UNCHANGED <<array, total_connections, round_robin, getMutex, heap,
                 registers, ghosts>>

\* Faulty variant: the mutex is not waited for.
BeginPutUnlocked(t) == Enlist(t)

\* The mutex is free, and the array is checked for room.
BeginPut(t) == putMutex = Null /\ Enlist(t)

\* max_connections doubles, and realloc is asked for that many BYTES.
Grow(t) ==
  /\ At(t, "grow")
  /\ max_connections' = 2 * max_connections
  /\ capacity' = (2 * max_connections) \div POINTER_SIZE
  /\ connections' = [i \in 0 .. capacity' - 1 |->
                       IF i < capacity THEN connections[i] ELSE Null]
  /\ Goto(t, "load_index")
  /\ UNCHANGED <<total_connections, round_robin, mutexes, heap, registers,
                 ghosts>>

\* Faulty variant: the slot after the one the counter will admit.
LoadIndexOffByOne(t) ==
  /\ At(t, "load_index")
  /\ index' = [index EXCEPT ![t] = total_connections + 1]
  /\ Goto(t, "store_slot")
  /\ raced' = (raced \/ Overlap')
  /\ UNCHANGED <<array, total_connections, round_robin, mutexes, heap, total,
                 connection, fault, consumes, handed>>

LoadIndex(t) ==
  /\ At(t, "load_index")
  /\ index' = [index EXCEPT ![t] = total_connections]
  /\ Goto(t, "store_slot")
  /\ raced' = (raced \/ Overlap')
  /\ UNCHANGED <<array, total_connections, round_robin, mutexes, heap, total,
                 connection, fault, consumes, handed>>

StoreSlot(t) ==
  /\ At(t, "store_slot") /\ index[t] < capacity
  /\ connections' = [connections EXCEPT ![index[t]] = record[t]]
  /\ Goto(t, "load_total")
  /\ UNCHANGED <<capacity, max_connections, total_connections, round_robin,
                 mutexes, heap, registers, ghosts>>

LoadTotal(t) ==
  /\ At(t, "load_total")
  /\ total' = [total EXCEPT ![t] = total_connections]
  /\ Goto(t, "store_total")
  /\ UNCHANGED <<array, total_connections, round_robin, mutexes, heap, index,
                 connection, ghosts>>

StoreTotal(t) ==
  /\ At(t, "store_total")
  /\ total_connections' = total[t] + 1
  /\ putMutex' = Null
  /\ consumes' = [consumes EXCEPT ![t] = @ + 1]
  /\ handed' = <<>>
  /\ Goto(t, "idle")
  /\ UNCHANGED <<array, round_robin, getMutex, heap, registers, fault, raced>>

-----------------------------------------------------------------------------
(* get_connection_from_queue, under mutex_get_next_connection. *)

BeginGet(t) ==
  /\ At(t, "idle") /\ t \in Publisher /\ Len(handed) < MaxHanded
  /\ getMutex = Null /\ getMutex' = t
  /\ Goto(t, "check_index")
  /\ UNCHANGED <<array, total_connections, round_robin, putMutex, heap,
                 registers, ghosts>>

\* Nobody to dispatch to: NULL is returned and the mutex released.
CheckIndex(t) ==
  /\ At(t, "check_index")
  /\ \/ /\ round_robin < total_connections
        /\ Goto(t, "check_closed")
        /\ UNCHANGED getMutex
     \/ /\ round_robin >= total_connections
        /\ Goto(t, "idle")
        /\ getMutex' = Null
  /\ UNCHANGED <<array, total_connections, round_robin, putMutex, heap,
                 registers, ghosts>>

\* The slot under round_robin is below the total and a registration writes
\* at the total or above, so loading it goes with reading the record's flag.
CheckClosed(t) ==
  /\ At(t, "check_closed") /\ round_robin < capacity
  /\ connection' = [connection EXCEPT ![t] = connections[round_robin]]
  /\ Goto(t, IF closed[connection'[t]] THEN "is_inner" ELSE "advance")
  /\ UNCHANGED <<array, total_connections, round_robin, mutexes, heap, index,
                 total, ghosts>>

Rotate(t, position) ==
  /\ At(t, "advance")
  /\ round_robin' = position
  /\ handed' = Append(handed, connection[t])
  /\ getMutex' = Null
  /\ Goto(t, "deliver")
  /\ UNCHANGED <<array, total_connections, putMutex, heap, registers, fault,
                 consumes, raced>>

\* Faulty variants: the index stays, and wraps at the wrong counter.
AdvanceInPlace(t) == Rotate(t, round_robin % total_connections)
AdvanceModMax(t) == Rotate(t, (round_robin + 1) % max_connections)

Advance(t) == Rotate(t, (round_robin + 1) % total_connections)

\* send_basic_deliver has written to the connection it was handed.
Deliver(t) ==
  /\ At(t, "deliver")
  /\ Goto(t, "idle")
  /\ UNCHANGED <<array, total_connections, round_robin, mutexes, heap,
                 registers, ghosts>>

-----------------------------------------------------------------------------
(* remove_current_connection, still under mutex_get_next_connection. *)

PullDown(t, from) ==
  /\ At(t, "is_inner")
  /\ index' = [index EXCEPT ![t] = from]
  /\ Goto(t, IF round_robin < total_connections - 1 THEN "shift"
                                                     ELSE "is_last")
  /\ raced' = (raced \/ Overlap')
  /\ UNCHANGED <<array, total_connections, round_robin, mutexes, heap, total,
                 connection, fault, consumes, handed>>

\* Faulty variant: the loop begins one entry too far.
IsInnerTooFar(t) == PullDown(t, round_robin + 2)

IsInner(t) == PullDown(t, round_robin + 1)

\* Faulty variant: the loop does not move on.
ShiftInPlace(t) ==
  /\ At(t, "shift")
  /\ IF index[t] < total_connections THEN UNCHANGED pc ELSE Goto(t, "drop_load")
  /\ raced' = (raced \/ Overlap')
  /\ UNCHANGED <<array, total_connections, round_robin, mutexes, heap,
                 registers, fault, consumes, handed>>

\* One turn of the loop that pulls the connections down.  A registration
\* that ran between the test and the move would have raised the total and
\* written a slot the test had already let pass: it may as well run first.
Shift(t) ==
  /\ At(t, "shift")
  /\ \/ /\ index[t] < total_connections /\ index[t] < capacity
        /\ connections' = [connections EXCEPT
                             ![index[t] - 1] = connections[index[t]]]
        /\ index' = [index EXCEPT ![t] = @ + 1]
        /\ UNCHANGED pc
     \/ /\ index[t] >= total_connections
        /\ Goto(t, "drop_load")
        /\ UNCHANGED <<connections, index>>
  /\ raced' = (raced \/ Overlap')
  /\ UNCHANGED <<capacity, max_connections, total_connections, round_robin,
                 mutexes, heap, total, connection, fault, consumes, handed>>

\* Faulty variant: the index is not reset.
IsLastWithoutReset(t) ==
  /\ At(t, "is_last")
  /\ Goto(t, "drop_load")
  /\ UNCHANGED <<array, total_connections, round_robin, mutexes, heap,
                 registers, ghosts>>

IsLast(t) ==
  /\ At(t, "is_last")
  /\ round_robin' = IF round_robin = total_connections - 1 THEN 0
                                                           ELSE round_robin
  /\ Goto(t, "drop_load")
  /\ UNCHANGED <<array, total_connections, mutexes, heap, registers, ghosts>>

\* Faulty variant: the counter drops by two.
DropLoadTwice(t) ==
  /\ At(t, "drop_load")
  /\ total' = [total EXCEPT ![t] = total_connections - 1]
  /\ Goto(t, "drop_store")
  /\ UNCHANGED <<array, total_connections, round_robin, mutexes, heap, index,
                 connection, ghosts>>

DropLoad(t) ==
  /\ At(t, "drop_load")
  /\ total' = [total EXCEPT ![t] = total_connections]
  /\ Goto(t, "drop_store")
  /\ UNCHANGED <<array, total_connections, round_robin, mutexes, heap, index,
                 connection, ghosts>>

\* Faulty variant: the counter stays.
DropStoreForgotten(t) ==
  /\ At(t, "drop_store")
  /\ Goto(t, "free_victim")
  /\ UNCHANGED <<array, total_connections, round_robin, mutexes, heap,
                 registers, ghosts>>

DropStore(t) ==
  /\ At(t, "drop_store")
  /\ total_connections' = total[t] - 1
  /\ Goto(t, "free_victim")
  /\ UNCHANGED <<array, round_robin, mutexes, heap, registers, ghosts>>

\* free(to_remove_connection), then get_next_connection_from_queue again.
FreeVictim(t) ==
  /\ At(t, "free_victim") /\ connection[t] \in allocated
  /\ allocated' = allocated \ {connection[t]}
  /\ Goto(t, "check_index")
  /\ UNCHANGED <<array, total_connections, round_robin, mutexes, closed,
                 record, registers, ghosts>>

-----------------------------------------------------------------------------

Put(t) == Grow(t) \/ LoadIndex(t) \/ StoreSlot(t) \/ LoadTotal(t) \/ StoreTotal(t)
Remove(t) == \/ IsInner(t) \/ Shift(t) \/ IsLast(t)
             \/ DropLoad(t) \/ DropStore(t) \/ FreeVictim(t)
Get(t) == CheckIndex(t) \/ CheckClosed(t) \/ Advance(t) \/ Remove(t)

\* No thread is inside an operation, or the process is gone.
Quiescent ==
  /\ fault # "none" \/ \A t \in Client : pc[t] \in Resting
  /\ UNCHANGED vars

Next ==
  \/ \E t \in Client : \/ Connect(t) \/ Leave(t) \/ Release(t)
                       \/ BeginPut(t) \/ Put(t)
                       \/ BeginGet(t) \/ Get(t) \/ Deliver(t)
                       \/ OutOfBounds(t) \/ DoubleFree(t)
  \/ Quiescent

\* A thread inside an operation is scheduled again; none has to start one.
Fairness == \A t \in Client :
              WF_vars(Put(t) \/ Get(t) \/ OutOfBounds(t) \/ DoubleFree(t))

Spec == Init /\ [][Next]_vars
FairSpec == Spec /\ Fairness

-----------------------------------------------------------------------------
(* Properties. *)

\* Every variable has its type; in particular a counter is never negative.
TypeOK ==
  /\ capacity \in Nat
  /\ connections \in [0 .. capacity - 1 -> Record \cup {Null}]
  /\ total_connections \in Nat
  /\ max_connections \in Nat \ {0}
  /\ round_robin \in Nat
  /\ putMutex \in Client \cup {Null}
  /\ getMutex \in Client \cup {Null}
  /\ allocated \subseteq Record
  /\ closed \in [Record -> BOOLEAN]
  /\ record \in [Client -> Record \cup {Null}]
  /\ pc \in [Client -> Labels]
  /\ index \in [Client -> Nat]
  /\ total \in [Client -> Nat]
  /\ connection \in [Client -> Record \cup {Null}]
  /\ fault \in {"none", "out_of_bounds", "double_free"}
  /\ consumes \in [Client -> Nat]
  /\ handed \in Seq(Record \cup {Null})
  /\ raced \in BOOLEAN

Grown == max_connections # INITIAL_MAX_CONNECTIONS

\* Some connection that had registered a consumer has ended.
ConsumerLeft ==
  \E t \in Client : consumes[t] > 0 /\ pc[t] \in {"release", "gone"}

\* Queue.c:199-229.  However registrations and removals interleave, the
\* round-robin index stays inside the table (or is 0 when it is empty), so a
\* dispatch that passed its test still finds a consumer there, and divides
\* by a total that is not zero.
IndexInTable ==
  /\ round_robin < total_connections \/ round_robin = 0
  /\ \A t \in Client : pc[t] \in {"check_closed", "advance", "is_inner"} =>
        round_robin < total_connections

\* Queue.c:173-179.  A slot below total_connections has been written before
\* the counter that admits it, so no dispatch loads an uninitialised pointer.
TableInitialised ==
  ~Grown => \A i \in 0 .. total_connections - 1 :
              i < capacity /\ connections[i] # Null

\* Queue.c:142,174-178,217-221.  As long as the array never had to grow,
\* no load or store of any thread falls outside the allocation.
InBoundsUntilGrowth ==
  ~Grown => /\ fault # "out_of_bounds"
            /\ \A t \in Client : AtSlot(t) => Slot(t) < capacity

\* Queue.c:91-101,173-179.  While no consumer's connection has ended, every
\* completed basic.consume is in the table exactly once, and nothing else is.
RegisteredOnce ==
  (~Grown /\ ~ConsumerLeft) =>
    /\ \A t \in Client : pc[t] \notin {"new", "gone"} =>
         consumes[t] = Cardinality({i \in 0 .. total_connections - 1 :
                                      connections[i] = record[t]})
    /\ \A i \in 0 .. total_connections - 1 :
         \E t \in Client : consumes[t] > 0 /\ connections[i] = record[t]

\* Queue.c:199-210 with Connection.c:42-43.  Connections that never consumed
\* may come and go: until a consumer's connection ends, every pointer in the
\* table and every pointer handed to a publisher is to an allocated record
\* of an open connection, and no record is freed twice.
SafeUntilConsumerLeaves ==
  (~Grown /\ ~ConsumerLeft) =>
    /\ fault = "none"
    /\ \A i \in 0 .. total_connections - 1 :
         connections[i] \in allocated /\ ~closed[connections[i]]
    /\ \A t \in Client : pc[t] \in {"advance", "deliver"} =>
         connection[t] \in allocated /\ ~closed[connection[t]]

\* Queue.c:206.  While the consumers stay, of as many dispatches in a row as
\* there are registrations each registered consumer is handed one, wherever in
\* the rotation they begin, and the next round goes in the same order.
FairRotation ==
  (~Grown /\ ~ConsumerLeft) =>
    LET N == total_connections
    IN \A i \in DOMAIN handed :
         /\ i + N - 1 <= Len(handed) =>
              {handed[k] : k \in i .. i + N - 1} = {connections[n] : n \in 0 .. N - 1}
         /\ i + N <= Len(handed) => handed[i + N] = handed[i]

\* Queue.c:223, "reset round robin to prevent invalid memory access": the
\* record whose closed field a dispatch reads has not been freed.
NoFreedRecordRead ==
  \A t \in Client : At(t, "check_closed") =>
    connections[round_robin] \in allocated

\* Queue.c:190-192.  A dispatch always comes to an end: it returns a
\* connection or NULL, or the process is gone.
DispatchEnds ==
  \A t \in Client : pc[t] \in Getting ~> (pc[t] \notin Getting \/ fault # "none")

\* The steps a dispatch still has before it, at most: the removal of every
\* connection in the table, each pulling all the others down.
StagesAhead(entries, n) ==
  [advance |-> 0, drop_store |-> 1, drop_load |-> 2, is_last |-> 3,
   shift |-> entries - n + 4, is_inner |-> entries + 4,
   check_closed |-> entries + 5, check_index |-> entries + 6,
   free_victim |-> entries + 7]
StepsAhead(t) == total_connections * (total_connections + 8)
                   + StagesAhead(total_connections, index[t])[pc[t]]

\* Queue.c:199-229.  A dispatch that removes closed connections and starts
\* again goes round no entry twice: every step brings it nearer to its end,
\* and nothing but a registration that completes takes it back.
DispatchAdvances ==
  [][\A t \in Client : pc[t] \in Getting /\ pc'[t] \in Getting =>
       \/ pc'[t] = pc[t] /\ index'[t] = index[t]
          /\ total_connections' = total_connections
       \/ StepsAhead(t)' \in 0 .. StepsAhead(t) - 1
       \/ \E u \in Client : pc[u] = "store_total" /\ pc'[u] = "idle"]_vars

\* The promise of RoundRobin, kept at the load/store grain: the table is its
\* ring and round_robin points to whose turn it is.
Abstract == INSTANCE RoundRobin WITH
  Connection <- Record,
  ring <- [i \in 1 .. total_connections |-> connections[i - 1]],
  turn <- round_robin + 1

AbstractSpec == Abstract!Spec

\* The same ring under consumers that leave.  From the moment a removal has
\* decided what to pull down until it stores the total, the entry at Gap is
\* one too many: the removed one, or one that has been copied down already.
Getter(labels) == getMutex # Null /\ pc[getMutex] \in labels
Cut == Getter({"shift"} \cup Dropping)
Gap == IF Getter({"shift"}) THEN index[getMutex] - 1
       ELSE IF Getter({"is_last"}) THEN round_robin ELSE total_connections - 1
Length == IF Cut THEN total_connections - 1 ELSE total_connections

Seats == [k \in 1 .. Length |-> connections[IF Cut /\ k > Gap THEN k ELSE k - 1]]
Turn == IF round_robin < Length THEN round_robin + 1 ELSE 1
Verdict == IF Getter({"advance"}) THEN "serve"
           ELSE IF Getter({"is_inner"}) THEN "drop" ELSE "none"

Leaving == INSTANCE LeavingRing WITH
  Connection <- Record, ring <- Seats, turn <- Turn,
  ended <- {r \in Record : closed[r]}, verdict <- Verdict

\* Queue.c:173-179,199-229.  As long as the array never had to grow and no
\* registration has overlapped the end of a removal, consumers that leave
\* are taken out one by one, at their turn, and nobody else is lost, doubled
\* or passed over, whatever registers while the others are pulled down.
LeavesCleanly ==
  Leaving!Init /\ [][~Grown' /\ ~raced' => [Leaving!Next]_(Leaving!vars)]_vars
=============================================================================
