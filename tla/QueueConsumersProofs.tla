------------------------ MODULE QueueConsumersProofs ------------------------
(***************************************************************************)
(* Proofs about QueueConsumers, for every number of clients and records,   *)
(* every size of the array and every bound.                                *)
(***************************************************************************)
EXTENDS QueueConsumers, TLAPS

-----------------------------------------------------------------------------
(* The inductive invariant. *)

\* A thread is between lock and unlock iff the mutex names it.
MutexInv ==
  \A t \in Client : /\ pc[t] \in Putting <=> putMutex = t
                    /\ pc[t] \in Getting <=> getMutex = t

\* The registering thread: while it works the total can only fall, so what
\* it loaded is an upper bound, and there is room for one more.
PutInv ==
  /\ total_connections <= max_connections
  /\ \A t \in Client :
       /\ pc[t] \in {"load_index", "store_slot", "load_total"} =>
            total_connections < max_connections
       /\ pc[t] \in {"store_slot", "load_total"} =>
            total_connections <= index[t] /\ index[t] < max_connections
       /\ pc[t] = "store_total" =>
            /\ total_connections <= total[t]
            /\ total[t] <= index[t] /\ index[t] < max_connections

\* The dispatching thread: while it works the total can only rise, except
\* by its own removal, which has made room below the total for the index.
GetInv ==
  /\ round_robin < total_connections \/ round_robin = 0
  /\ \A t \in Client :
       /\ pc[t] \in {"check_closed", "advance", "is_inner", "is_last"} =>
            round_robin < total_connections
       /\ pc[t] = "shift" =>
            round_robin + 1 < total_connections /\ index[t] > 0
       /\ pc[t] = "drop_load" =>
            /\ total_connections > 0
            /\ round_robin = 0 \/ round_robin + 1 < total_connections
       /\ pc[t] = "drop_store" =>
            /\ total[t] > 0 /\ total[t] <= total_connections
            /\ round_robin = 0 \/ round_robin + 1 < total[t]

\* A thread that is connected has a record.
RecordInv == \A t \in Client : pc[t] # "new" => record[t] \in Record

\* The array, as long as it has not grown: it holds max_connections slots,
\* and those below the total, and below what is about to become the total,
\* have been written.
TableInv ==
  /\ max_connections >= INITIAL_MAX_CONNECTIONS
  /\ ~Grown =>
       /\ max_connections <= capacity
       /\ fault # "out_of_bounds"
       /\ \A i \in 0 .. total_connections - 1 : connections[i] # Null
       /\ \A t \in Client :
            /\ pc[t] = "store_slot" =>
                 \A i \in 0 .. index[t] - 1 : connections[i] # Null
            /\ pc[t] \in {"load_total", "store_total"} =>
                 \A i \in 0 .. index[t] : connections[i] # Null

IndInv == TypeOK /\ MutexInv /\ PutInv /\ GetInv /\ RecordInv /\ TableInv

-----------------------------------------------------------------------------
(* Arithmetic of the sizes. *)

LEMMA QuotientInNat ==
  ASSUME NEW a \in Nat, NEW b \in Nat \ {0}
  PROVE  a \div b \in Nat
  OBVIOUS

LEMMA ProductAtLeast ==
  ASSUME NEW a \in Nat \ {0}, NEW b \in Nat \ {0}
  PROVE  a * b \in Nat /\ a * b >= a
  OBVIOUS

-----------------------------------------------------------------------------
(* Every step keeps each part of the invariant: one case per action, the    *)
(* actions that cannot disturb the part taken together.                     *)

LEMMA TypeStep ==
  ASSUME TypeOK, GetInv, RecordInv, [Next]_vars
  PROVE  TypeOK'
<1> USE ClientAssumption DEF TypeOK, vars, array, mutexes, heap, registers,
      ghosts, At, Goto, Putting, Getting, Removing, Resting, Labels
<1>0. CASE UNCHANGED vars
  BY <1>0
<1>1. CASE \E t \in Client : Connect(t)
  BY <1>1 DEF Connect
<1>2. CASE \E t \in Client : Leave(t)
  BY <1>2 DEF Leave, RecordInv
<1>3. CASE \E t \in Client : Release(t)
  BY <1>3 DEF Release, RecordInv
<1>4. CASE \E t \in Client : BeginPut(t)
  BY <1>4 DEF BeginPut, Enlist
<1>5. CASE \E t \in Client : Grow(t)
  <2>1. PICK t \in Client : Grow(t)
    BY <1>5
  <2>2. 2 * max_connections \in Nat \ {0}
    OBVIOUS
  <2>3. (2 * max_connections) \div POINTER_SIZE \in Nat
    BY <2>2, QuotientInNat, SizeAssumption
  <2>4. /\ capacity' \in Nat
        /\ connections' \in [0 .. capacity' - 1 -> Record \cup {Null}]
    BY <2>1, <2>3 DEF Grow
  <2>5. QED
    BY <2>1, <2>2, <2>4 DEF Grow
<1>6. CASE \E t \in Client : LoadIndex(t)
  BY <1>6 DEF LoadIndex
<1>7. CASE \E t \in Client : StoreSlot(t)
  BY <1>7 DEF StoreSlot, RecordInv
<1>8. CASE \E t \in Client : LoadTotal(t)
  BY <1>8 DEF LoadTotal
<1>9. CASE \E t \in Client : StoreTotal(t)
  BY <1>9, SMTT(30)
     DEF StoreTotal
<1>10. CASE \E t \in Client : BeginGet(t)
  BY <1>10 DEF BeginGet
<1>11. CASE \E t \in Client : CheckIndex(t)
  <2>1. PICK t \in Client : CheckIndex(t)
    BY <1>11
  <2>2. CASE round_robin < total_connections
    BY <2>1, <2>2 DEF CheckIndex
  <2>3. CASE ~(round_robin < total_connections)
    BY <2>1, <2>3 DEF CheckIndex
  <2>4. QED
    BY <2>2, <2>3
<1>12. CASE \E t \in Client : CheckClosed(t)
  BY <1>12, SMTT(30)
     DEF CheckClosed
<1>13. CASE \E t \in Client : Advance(t)
  BY <1>13 DEF Advance, Rotate, GetInv
<1>14. CASE \E t \in Client : Deliver(t)
  BY <1>14 DEF Deliver
<1>15. CASE \E t \in Client : IsInner(t)
  BY <1>15, SMTT(30)
     DEF IsInner, PullDown
<1>16. CASE \E t \in Client : Shift(t)
  <2>1. PICK t \in Client : Shift(t)
    BY <1>16
  <2>2. CASE index[t] < total_connections
    <3>1. /\ index[t] < capacity
          /\ connections' = [connections EXCEPT
                               ![index[t] - 1] = connections[index[t]]]
          /\ index' = [index EXCEPT ![t] = @ + 1]
          /\ UNCHANGED <<pc, capacity, max_connections, total_connections,
                         round_robin, mutexes, heap, total, connection,
                         fault, consumes, handed>>
      BY <2>1, <2>2, SMTT(30)
         DEF Shift, GetInv
    <3>2. connections[index[t]] \in Record \cup {Null}
      BY <3>1
    <3>3. connections' \in [0 .. capacity - 1 -> Record \cup {Null}]
      BY <3>1, <3>2
    <3>4. index' \in [Client -> Nat]
      BY <3>1, SMTT(30)
    <3>5. raced' \in BOOLEAN
      BY <2>1 DEF Shift
    <3>6. QED
      BY <3>1, <3>3, <3>4, <3>5
  <2>3. CASE ~(index[t] < total_connections)
    BY <2>1, <2>3 DEF Shift
  <2>4. QED
    BY <2>2, <2>3
<1>17. CASE \E t \in Client : IsLast(t)
  BY <1>17 DEF IsLast
<1>18. CASE \E t \in Client : DropLoad(t)
  BY <1>18 DEF DropLoad
<1>19. CASE \E t \in Client : DropStore(t)
  <2>1. PICK t \in Client : DropStore(t)
    BY <1>19
  <2>2. total[t] - 1 \in Nat
    BY <2>1 DEF DropStore, GetInv
  <2>3. QED
    BY <2>1, <2>2 DEF DropStore
<1>20. CASE \E t \in Client : FreeVictim(t)
  BY <1>20 DEF FreeVictim
<1>21. CASE \E t \in Client : OutOfBounds(t)
  BY <1>21, SMTT(30) DEF OutOfBounds, AtSlot, Slot, Fault
<1>22. CASE \E t \in Client : DoubleFree(t)
  BY <1>22 DEF DoubleFree, Fault
<1>23. QED
  BY <1>0, <1>1, <1>2, <1>3, <1>4, <1>5, <1>6, <1>7, <1>8, <1>9, <1>10,
     <1>11, <1>12, <1>13, <1>14, <1>15, <1>16, <1>17, <1>18, <1>19, <1>20,
     <1>21, <1>22
  DEF Next, Quiescent, Put, Get, Remove

LEMMA MutexStep ==
  ASSUME TypeOK, MutexInv, [Next]_vars
  PROVE  MutexInv'
<1> USE ClientAssumption, SizeAssumption DEF TypeOK, MutexInv, vars, array,
      mutexes, heap, registers, ghosts, At, Goto, Putting, Getting, Removing,
      Resting, Labels
<1>0. CASE UNCHANGED vars
  BY <1>0
<1>1. CASE \E t \in Client : Connect(t) \/ Leave(t) \/ Release(t)
  <2>1. CASE \E t \in Client : Connect(t)
    BY <2>1 DEF Connect
  <2>2. CASE \E t \in Client : Leave(t) \/ Release(t)
    BY <2>2, SMTT(30) DEF Leave, Release
  <2>3. QED
    BY <1>1, <2>1, <2>2
<1>2. CASE \E t \in Client : BeginPut(t) \/ LoadIndex(t) \/ StoreSlot(t) \/
                             LoadTotal(t) \/ StoreTotal(t)
  BY <1>2, SMTT(30)
     DEF BeginPut, Enlist, LoadIndex, StoreSlot, LoadTotal, StoreTotal
<1>3. CASE \E t \in Client : BeginGet(t) \/ CheckClosed(t) \/ Advance(t) \/
                             Deliver(t)
  BY <1>3, SMTT(30)
     DEF BeginGet, CheckClosed, Advance, Rotate, Deliver
<1>4. CASE \E t \in Client : IsInner(t) \/ IsLast(t) \/ DropLoad(t) \/
                             DropStore(t) \/ FreeVictim(t)
  BY <1>4, SMTT(30)
     DEF IsInner, PullDown, IsLast, DropLoad, DropStore, FreeVictim
<1>5. CASE \E t \in Client : OutOfBounds(t) \/ DoubleFree(t)
  BY <1>5 DEF OutOfBounds, AtSlot, Slot, DoubleFree, Fault
<1>6. CASE \E t \in Client : Grow(t)
  BY <1>6 DEF Grow
<1>7. CASE \E t \in Client : CheckIndex(t)
  <2>1. PICK t \in Client : CheckIndex(t)
    BY <1>7
  <2>2. CASE round_robin < total_connections
    BY <2>1, <2>2 DEF CheckIndex
  <2>3. CASE ~(round_robin < total_connections)
    <3>1. /\ pc[t] = "check_index" /\ pc' = [pc EXCEPT ![t] = "idle"]
          /\ getMutex' = Null /\ putMutex' = putMutex
      BY <2>1, <2>3 DEF CheckIndex
    <3>2. QED
      BY <3>1
  <2>4. QED
    BY <2>2, <2>3
<1>8. CASE \E t \in Client : Shift(t)
  BY <1>8 DEF Shift
<1>9. QED
  BY <1>0, <1>1, <1>2, <1>3, <1>4, <1>5, <1>6, <1>7, <1>8
  DEF Next, Quiescent, Put, Get, Remove

LEMMA PutStep ==
  ASSUME TypeOK, MutexInv, PutInv, GetInv, [Next]_vars
  PROVE  PutInv'
<1> USE ClientAssumption, SizeAssumption DEF TypeOK, MutexInv, PutInv, GetInv,
      vars, array, mutexes, heap, registers, ghosts, At, Goto, Putting,
      Getting, Removing, Resting, Labels
<1>0. CASE UNCHANGED vars
  BY <1>0
<1>1. CASE \E t \in Client : Connect(t)
  BY <1>1 DEF Connect
<1>2. CASE \E t \in Client : Leave(t)
  BY <1>2 DEF Leave
<1>3. CASE \E t \in Client : Release(t)
  BY <1>3 DEF Release
<1>4. CASE \E t \in Client : BeginPut(t)
  BY <1>4 DEF BeginPut, Enlist
<1>5. CASE \E t \in Client : LoadIndex(t)
  BY <1>5 DEF LoadIndex
<1>6. CASE \E t \in Client : StoreSlot(t)
  BY <1>6 DEF StoreSlot
<1>7. CASE \E t \in Client : LoadTotal(t)
  BY <1>7 DEF LoadTotal
<1>8. CASE \E t \in Client : StoreTotal(t)
  BY <1>8 DEF StoreTotal
<1>9. CASE \E t \in Client : BeginGet(t) \/ CheckClosed(t) \/ Advance(t) \/
                             Deliver(t)
  BY <1>9, SMTT(30)
     DEF BeginGet, CheckClosed, Advance, Rotate, Deliver
<1>10. CASE \E t \in Client : IsInner(t) \/ IsLast(t) \/ DropLoad(t) \/
                              DropStore(t) \/ FreeVictim(t)
  <2>1. CASE \E t \in Client : IsInner(t)
    BY <2>1 DEF IsInner, PullDown
  <2>2. CASE \E t \in Client : IsLast(t) \/ DropLoad(t) \/ DropStore(t) \/
                               FreeVictim(t)
    BY <2>2, SMTT(30) DEF IsLast, DropLoad, DropStore, FreeVictim
  <2>3. QED
    BY <1>10, <2>1, <2>2
<1>11. CASE \E t \in Client : OutOfBounds(t) \/ DoubleFree(t)
  BY <1>11 DEF OutOfBounds, AtSlot, Slot, DoubleFree, Fault
<1>12. CASE \E t \in Client : Grow(t)
  BY <1>12 DEF Grow
<1>13. CASE \E t \in Client : CheckIndex(t)
  <2>1. PICK t \in Client : CheckIndex(t)
    BY <1>13
  <2>2. CASE round_robin < total_connections
    BY <2>1, <2>2 DEF CheckIndex
  <2>3. CASE ~(round_robin < total_connections)
    BY <2>1, <2>3 DEF CheckIndex
  <2>4. QED
    BY <2>2, <2>3
<1>14. CASE \E t \in Client : Shift(t)
  BY <1>14, SMTT(30) DEF Shift
<1>15. QED
  BY <1>0, <1>1, <1>2, <1>3, <1>4, <1>5, <1>6, <1>7, <1>8, <1>9, <1>10,
     <1>11, <1>12, <1>13, <1>14
  DEF Next, Quiescent, Put, Get, Remove

LEMMA GetStep ==
  ASSUME TypeOK, MutexInv, PutInv, GetInv, [Next]_vars
  PROVE  GetInv'
<1> USE ClientAssumption, SizeAssumption DEF TypeOK, MutexInv, PutInv, GetInv,
      vars, array, mutexes, heap, registers, ghosts, At, Goto, Putting,
      Getting, Removing, Resting, Labels
<1>0. CASE UNCHANGED vars
  BY <1>0
<1>1. CASE \E t \in Client : Connect(t)
  BY <1>1 DEF Connect
<1>2. CASE \E t \in Client : Leave(t)
  BY <1>2 DEF Leave
<1>3. CASE \E t \in Client : Release(t)
  BY <1>3 DEF Release
<1>4. CASE \E t \in Client : BeginPut(t) \/ LoadIndex(t) \/ StoreSlot(t) \/
                             LoadTotal(t) \/ StoreTotal(t)
  BY <1>4, SMTT(30)
     DEF BeginPut, Enlist, LoadIndex, StoreSlot, LoadTotal, StoreTotal
<1>5. CASE \E t \in Client : BeginGet(t) \/ CheckClosed(t) \/ Advance(t) \/
                             Deliver(t)
  BY <1>5, SMTT(30)
     DEF BeginGet, CheckClosed, Advance, Rotate, Deliver
<1>6. CASE \E t \in Client : IsInner(t) \/ IsLast(t) \/ DropLoad(t) \/
                             DropStore(t) \/ FreeVictim(t)
  BY <1>6, SMTT(30)
     DEF IsInner, PullDown, IsLast, DropLoad, DropStore, FreeVictim
<1>7. CASE \E t \in Client : OutOfBounds(t) \/ DoubleFree(t)
  BY <1>7, SMTT(30) DEF OutOfBounds, AtSlot, Slot, DoubleFree, Fault
<1>8. CASE \E t \in Client : Grow(t)
  BY <1>8 DEF Grow
<1>9. CASE \E t \in Client : CheckIndex(t)
  <2>1. PICK t \in Client : CheckIndex(t)
    BY <1>9
  <2>2. CASE round_robin < total_connections
    BY <2>1, <2>2 DEF CheckIndex
  <2>3. CASE ~(round_robin < total_connections)
    BY <2>1, <2>3 DEF CheckIndex
  <2>4. QED
    BY <2>2, <2>3
<1>10. CASE \E t \in Client : Shift(t)
  BY <1>10 DEF Shift
<1>11. QED
  BY <1>0, <1>1, <1>2, <1>3, <1>4, <1>5, <1>6, <1>7, <1>8, <1>9, <1>10
  DEF Next, Quiescent, Put, Get, Remove

LEMMA RecordStep ==
  ASSUME TypeOK, RecordInv, [Next]_vars
  PROVE  RecordInv'
<1> USE DEF TypeOK, RecordInv, vars, array, mutexes, heap, registers, ghosts,
      At, Goto
<1>0. CASE UNCHANGED vars
  BY <1>0
<1>1. CASE \E t \in Client : Connect(t)
  BY <1>1 DEF Connect
<1>2. CASE \E t \in Client : Leave(t) \/ Release(t) \/ Deliver(t)
  BY <1>2 DEF Leave, Release, Deliver
<1>3. CASE \E t \in Client : BeginPut(t) \/ Put(t)
  BY <1>3 DEF BeginPut, Enlist, Put, Grow, LoadIndex, StoreSlot, LoadTotal,
              StoreTotal
<1>4. CASE \E t \in Client : BeginGet(t) \/ CheckIndex(t) \/ CheckClosed(t)
                               \/ Advance(t)
  BY <1>4 DEF BeginGet, CheckIndex, CheckClosed, Advance, Rotate
<1>5. CASE \E t \in Client : Remove(t)
  BY <1>5 DEF Remove, IsInner, PullDown, Shift, IsLast, DropLoad, DropStore, FreeVictim
<1>6. CASE \E t \in Client : OutOfBounds(t) \/ DoubleFree(t)
  BY <1>6 DEF OutOfBounds, DoubleFree, Fault
<1>7. QED
  BY <1>0, <1>1, <1>2, <1>3, <1>4, <1>5, <1>6 DEF Next, Quiescent, Get

LEMMA TableStep ==
  ASSUME TypeOK, MutexInv, PutInv, GetInv, RecordInv, TableInv, [Next]_vars
  PROVE  TableInv'
<1> USE ClientAssumption, SizeAssumption DEF TypeOK, MutexInv, PutInv, GetInv,
      RecordInv, TableInv, Grown, vars, array, mutexes, heap, registers,
      ghosts, At, Goto, Putting, Getting, Removing, Resting, Labels
<1>0. CASE UNCHANGED vars
  BY <1>0
<1>1. CASE \E t \in Client : Connect(t)
  BY <1>1 DEF Connect
<1>2. CASE \E t \in Client : Leave(t)
  BY <1>2 DEF Leave
<1>3. CASE \E t \in Client : Release(t)
  BY <1>3 DEF Release
<1>4. CASE \E t \in Client : BeginPut(t)
  BY <1>4 DEF BeginPut, Enlist
<1>5. CASE \E t \in Client : Grow(t)
  BY <1>5 DEF Grow
<1>6. CASE \E t \in Client : LoadIndex(t)
  BY <1>6 DEF LoadIndex
<1>7. CASE \E t \in Client : StoreSlot(t)
  BY <1>7 DEF StoreSlot
<1>8. CASE \E t \in Client : LoadTotal(t)
  BY <1>8 DEF LoadTotal
<1>9. CASE \E t \in Client : StoreTotal(t)
  BY <1>9 DEF StoreTotal
<1>10. CASE \E t \in Client : BeginGet(t)
  BY <1>10 DEF BeginGet
<1>11. CASE \E t \in Client : CheckIndex(t)
  <2>1. PICK t \in Client : CheckIndex(t)
    BY <1>11
  <2>2. UNCHANGED <<array, total_connections, registers, fault>>
    BY <2>1 DEF CheckIndex
  <2>3. \A u \in Client : pc'[u] \in Putting => pc[u] = pc'[u]
    BY <2>1 DEF CheckIndex
  <2>4. QED
    BY <2>2, <2>3
<1>12. CASE \E t \in Client : CheckClosed(t)
  BY <1>12 DEF CheckClosed
<1>13. CASE \E t \in Client : Advance(t)
  BY <1>13 DEF Advance, Rotate
<1>14. CASE \E t \in Client : Deliver(t)
  BY <1>14 DEF Deliver
<1>15. CASE \E t \in Client : IsInner(t)
  BY <1>15 DEF IsInner, PullDown
<1>16. CASE \E t \in Client : Shift(t)
  <2>1. PICK t \in Client : Shift(t)
    BY <1>16
  <2>2. CASE index[t] < total_connections
    <3>1. /\ index[t] < capacity
          /\ connections' = [connections EXCEPT
                               ![index[t] - 1] = connections[index[t]]]
          /\ index' = [index EXCEPT ![t] = @ + 1]
          /\ UNCHANGED <<pc, capacity, max_connections, total_connections,
                         round_robin, mutexes, heap, total, connection,
                         fault, consumes, handed>>
      BY <2>1, <2>2 DEF Shift
    <3>2. QED
      BY <2>1, <2>2, <3>1, SMTT(30)
  <2>3. CASE ~(index[t] < total_connections)
    <3>1. /\ Goto(t, "drop_load") /\ pc[t] = "shift"
          /\ UNCHANGED <<array, total_connections, round_robin, heap, index,
                         total, fault>>
      BY <2>1, <2>3 DEF Shift
    <3>2. QED
      BY <3>1
  <2>4. QED
    BY <2>2, <2>3
<1>17. CASE \E t \in Client : IsLast(t)
  BY <1>17 DEF IsLast
<1>18. CASE \E t \in Client : DropLoad(t)
  BY <1>18 DEF DropLoad
<1>19. CASE \E t \in Client : DropStore(t)
  BY <1>19 DEF DropStore
<1>20. CASE \E t \in Client : FreeVictim(t)
  BY <1>20 DEF FreeVictim
<1>21. CASE \E t \in Client : OutOfBounds(t)
  BY <1>21 DEF OutOfBounds, AtSlot, Slot, Fault
<1>22. CASE \E t \in Client : DoubleFree(t)
  BY <1>22 DEF DoubleFree, Fault
<1>23. QED
  BY <1>0, <1>1, <1>2, <1>3, <1>4, <1>5, <1>6, <1>7, <1>8, <1>9, <1>10,
     <1>11, <1>12, <1>13, <1>14, <1>15, <1>16, <1>17, <1>18, <1>19, <1>20,
     <1>21, <1>22
  DEF Next, Quiescent, Put, Get, Remove

-----------------------------------------------------------------------------
(* The invariant is inductive, and what follows from it. *)

LEMMA InitIndInv == Init => IndInv
<1> SUFFICES ASSUME Init PROVE IndInv
  OBVIOUS
<1> USE ClientAssumption, SizeAssumption DEF Init
<1>1. TypeOK
  <2>1. INITIAL_MAX_CONNECTIONS * RECORD_WORDS \in Nat
    BY ProductAtLeast
  <2>2. raced \in BOOLEAN
    OBVIOUS
  <2>3. QED
    BY <2>1, <2>2 DEF TypeOK, Labels, Resting
<1>2. MutexInv
  BY DEF MutexInv, Putting, Getting, Removing
<1>3. PutInv /\ GetInv /\ RecordInv
  BY DEF PutInv, GetInv, RecordInv
<1>4. TableInv
  BY ProductAtLeast DEF TableInv
<1>5. QED
  BY <1>1, <1>2, <1>3, <1>4 DEF IndInv

LEMMA StepIndInv == IndInv /\ [Next]_vars => IndInv'
BY TypeStep, MutexStep, PutStep, GetStep, RecordStep, TableStep DEF IndInv

\* The invariant holds in every reachable state.
THEOREM Invariance == Spec => []IndInv
BY InitIndInv, StepIndInv, PTL DEF Spec

\* Every variable keeps its type, for any number of clients and records; in
\* particular no interleaving drives total_connections below zero.
THEOREM TypeCorrect == Spec => []TypeOK
<1>1. IndInv => TypeOK
  BY DEF IndInv
<1>2. QED
  BY <1>1, Invariance, PTL

\* round_robin never points outside the table (Queue.c:199-229).
THEOREM IndexCorrect == Spec => []IndexInTable
<1>1. IndInv => IndexInTable
  BY DEF IndInv, GetInv, IndexInTable
<1>2. QED
  BY <1>1, Invariance, PTL

\* Until the array grows, every slot below total_connections has been
\* written (Queue.c:173-179).
THEOREM TableCorrect == Spec => []TableInitialised
<1>1. IndInv => TableInitialised
  BY DEF IndInv, TypeOK, PutInv, TableInv, TableInitialised
<1>2. QED
  BY <1>1, Invariance, PTL

\* Until the array grows, no thread accesses a slot outside it.
THEOREM BoundsCorrect == Spec => []InBoundsUntilGrowth
<1>1. IndInv => InBoundsUntilGrowth
  BY DEF IndInv, TypeOK, PutInv, GetInv, TableInv, InBoundsUntilGrowth,
         AtSlot, Slot
<1>2. QED
  BY <1>1, Invariance, PTL

\* What CheckClosed relies on when it joins the load of the slot with the
\* read of the record: the slot a registration writes lies above the table.
LEMMA SlotAboveTable ==
  ASSUME IndInv, NEW t \in Client, NEW u \in Client,
         pc[t] = "store_slot", pc[u] = "check_closed"
  PROVE  index[t] # round_robin
BY DEF IndInv, TypeOK, PutInv, GetInv

-----------------------------------------------------------------------------
(* While the consumers stay: who owns which record. *)

\* The array has not grown and no consumer's connection has ended.
Calm == ~Grown /\ ~ConsumerLeft

\* The thread has a record that it has not freed.
Connected(t) == pc[t] \notin {"new", "gone"}

\* The records of the connections that have registered.
ConsumerRecords == {record[t] : t \in {u \in Client : consumes[u] > 0}}

NoRemoval == fault = "none" /\ \A t \in Client : pc[t] \notin Removing

\* Two connections never share a record, so the end of one that never
\* consumed takes nothing from the table.
RecordsOwned ==
  /\ \A t \in Client : Connected(t) =>
       record[t] \in allocated /\ (pc[t] # "release" => ~closed[record[t]])
  /\ \A t, u \in Client :
       Connected(t) /\ Connected(u) /\ t # u => record[t] # record[u]

TableOwned ==
  \A i \in 0 .. total_connections - 1 : connections[i] \in ConsumerRecords

\* With nothing removed, the registers of a registration are up to date.
WriterInv ==
  \A t \in Client :
    /\ pc[t] \in {"store_slot", "load_total", "store_total"} =>
         index[t] = total_connections
    /\ pc[t] \in {"load_total", "store_total"} =>
         connections[index[t]] = record[t]
    /\ pc[t] = "store_total" => total[t] = total_connections

HandedInv ==
  \A t \in Client : pc[t] \in {"advance", "deliver"} =>
    connection[t] \in ConsumerRecords

ConsumesInv == \A t \in Client : consumes[t] > 0 => pc[t] # "new"

OwnInv ==
  /\ ConsumesInv
  /\ Calm => NoRemoval /\ RecordsOwned /\ TableOwned /\ WriterInv /\ HandedInv

\* Registrations are only added, and a registered client keeps its record.
LEMMA ConsumesStep ==
  ASSUME TypeOK, ConsumesInv, [Next]_vars
  PROVE  /\ ConsumesInv'
         /\ \A t \in Client : consumes[t] > 0 =>
              consumes'[t] > 0 /\ record'[t] = record[t]
<1> USE ClientAssumption DEF TypeOK, ConsumesInv, vars, array, mutexes, heap,
      registers, ghosts, At, Goto
<1>0. CASE UNCHANGED vars
  BY <1>0
<1>1. CASE \E t \in Client : Connect(t)
  BY <1>1 DEF Connect
<1>2. CASE \E t \in Client : StoreTotal(t)
  BY <1>2 DEF StoreTotal
<1>3. CASE \E t \in Client : Leave(t) \/ Release(t) \/ Deliver(t)
  BY <1>3, SMTT(30)
     DEF Leave, Release, Deliver
<1>4. CASE \E t \in Client : BeginPut(t) \/ LoadIndex(t) \/ StoreSlot(t)
                               \/ LoadTotal(t) \/ Grow(t)
  BY <1>4, SMTT(30) DEF BeginPut, Enlist, LoadIndex, StoreSlot, LoadTotal, Grow
<1>5. CASE \E t \in Client : BeginGet(t) \/ CheckIndex(t) \/ CheckClosed(t)
                               \/ Advance(t)
  BY <1>5, SMTT(30)
     DEF BeginGet, CheckIndex, CheckClosed, Advance, Rotate
<1>6. CASE \E t \in Client : Remove(t)
  BY <1>6, SMTT(30)
     DEF Remove, IsInner, PullDown, Shift, IsLast, DropLoad, DropStore, FreeVictim
<1>7. CASE \E t \in Client : OutOfBounds(t) \/ DoubleFree(t)
  BY <1>7 DEF OutOfBounds, DoubleFree, Fault
<1>8. QED
  BY <1>0, <1>1, <1>2, <1>3, <1>4, <1>5, <1>6, <1>7
  DEF Next, Quiescent, Put, Get

LEMMA ConsumerRecordsStep ==
  ASSUME TypeOK, ConsumesInv, [Next]_vars
  PROVE  ConsumerRecords \subseteq ConsumerRecords'
BY ConsumesStep DEF ConsumerRecords

\* A connection that has ended stays so.
LEMMA EndedStep ==
  ASSUME TypeOK, [Next]_vars, NEW u \in Client, pc[u] \in {"release", "gone"}
  PROVE  pc'[u] \in {"release", "gone"}
<1> USE DEF TypeOK, vars, array, mutexes, heap, registers, ghosts, At, Goto
<1>0. CASE UNCHANGED vars
  BY <1>0
<1>1. CASE \E t \in Client : Connect(t)
  BY <1>1 DEF Connect
<1>2. CASE \E t \in Client : Leave(t) \/ Release(t) \/ Deliver(t)
  BY <1>2 DEF Leave, Release, Deliver
<1>3. CASE \E t \in Client : BeginPut(t) \/ Put(t)
  BY <1>3 DEF BeginPut, Enlist, Put, Grow, LoadIndex, StoreSlot, LoadTotal,
              StoreTotal
<1>4. CASE \E t \in Client : BeginGet(t) \/ CheckIndex(t) \/ CheckClosed(t)
                               \/ Advance(t)
  BY <1>4 DEF BeginGet, CheckIndex, CheckClosed, Advance, Rotate
<1>5. CASE \E t \in Client : Remove(t)
  BY <1>5 DEF Remove, IsInner, PullDown, Shift, IsLast, DropLoad, DropStore, FreeVictim
<1>6. CASE \E t \in Client : OutOfBounds(t) \/ DoubleFree(t)
  BY <1>6 DEF OutOfBounds, DoubleFree, Fault
<1>7. QED
  BY <1>0, <1>1, <1>2, <1>3, <1>4, <1>5, <1>6 DEF Next, Quiescent, Get

\* The array only grows, and then never again has its first size.
LEMMA GrownStep ==
  ASSUME TypeOK, TableInv, [Next]_vars
  PROVE  /\ Grown => Grown'
         /\ ~Grown' => \A t \in Client : ~Grow(t)
<1>1. (\E t \in Client : Grow(t)) => Grown'
  BY SizeAssumption DEF Grow, Grown, TypeOK, TableInv
<1>2. (\A t \in Client : ~Grow(t)) => UNCHANGED max_connections
  <2> USE DEF vars, array
  <2>1. SUFFICES ASSUME \A t \in Client : ~Grow(t)
                 PROVE  UNCHANGED max_connections
    OBVIOUS
  <2>2. CASE \E t \in Client : Connect(t) \/ Leave(t) \/ Release(t)
                                 \/ Deliver(t) \/ BeginPut(t) \/ BeginGet(t)
    BY <2>2 DEF Connect, Leave, Release, Deliver, BeginPut, Enlist, BeginGet
  <2>3. CASE \E t \in Client : Put(t)
    BY <2>1, <2>3 DEF Put, LoadIndex, StoreSlot, LoadTotal, StoreTotal
  <2>4. CASE \E t \in Client : Get(t)
    BY <2>4 DEF Get, CheckIndex, CheckClosed, Advance, Rotate, Remove,
                IsInner, PullDown, Shift, IsLast, DropLoad, DropStore, FreeVictim
  <2>5. CASE \E t \in Client : OutOfBounds(t) \/ DoubleFree(t)
    BY <2>5 DEF OutOfBounds, DoubleFree, Fault
  <2>6. QED
    BY <2>2, <2>3, <2>4, <2>5 DEF Next, Quiescent
<1>3. QED
  BY <1>1, <1>2 DEF Grown

\* So a step that ends while the consumers stay began so.
LEMMA CalmBefore ==
  ASSUME TypeOK, TableInv, ConsumesInv, [Next]_vars, Calm'
  PROVE  Calm
<1>1. ~Grown
  BY GrownStep DEF Calm
<1>2. ~ConsumerLeft
  BY ConsumesStep, EndedStep DEF Calm, ConsumerLeft
<1>3. QED
  BY <1>1, <1>2 DEF Calm

LEMMA NothingRemoved ==
  ASSUME NoRemoval
  PROVE  \A t \in Client : ~Remove(t)
BY DEF NoRemoval, Removing, Remove, IsInner, PullDown, Shift, IsLast, DropLoad,
       DropStore, FreeVictim, At

LEMMA RecordsOwnedStep ==
  ASSUME TypeOK, RecordInv, NoRemoval, RecordsOwned, [Next]_vars
  PROVE  RecordsOwned'
<1> DEFINE Outside == {"new", "release", "gone"}
<1> USE DEF TypeOK, vars, array, mutexes, heap, registers, ghosts, At, Goto
<1>1. CASE \E t \in Client : Connect(t)
  BY <1>1, SMTT(30)
     DEF Connect, RecordsOwned, Connected
<1>2. CASE \E t \in Client : Leave(t)
  BY <1>2, SMTT(30)
     DEF Leave, RecordsOwned, Connected, RecordInv
<1>3. CASE \E t \in Client : Release(t)
  <2>1. PICK t \in Client : Release(t)
    BY <1>3
  <2>2. /\ pc[t] = "release" /\ pc' = [pc EXCEPT ![t] = "gone"]
        /\ allocated' = allocated \ {record[t]}
        /\ UNCHANGED <<closed, record>>
    BY <2>1 DEF Release
  <2>3. \A u \in Client : Connected(u)' => u # t /\ Connected(u)
                                       /\ pc'[u] = pc[u]
    BY <2>2 DEF Connected
  <2>4. Connected(t)
    BY <2>2 DEF Connected
  <2>5. \A u \in Client : Connected(u)' => record[u] # record[t]
    BY <2>3, <2>4 DEF RecordsOwned
  <2>6. QED
    BY <2>2, <2>3, <2>5 DEF RecordsOwned
<1>4. CASE \E t \in Client : BeginPut(t) \/ Put(t)
  <2>1. PICK t \in Client : BeginPut(t) \/ Put(t)
    BY <1>4
  <2>2. UNCHANGED heap /\ pc[t] \notin Outside /\ pc'[t] \notin Outside
    BY <2>1 DEF BeginPut, Enlist, Put, Grow, LoadIndex, StoreSlot, LoadTotal,
                StoreTotal
  <2>3. \A u \in Client \ {t} : pc'[u] = pc[u]
    BY <2>1 DEF BeginPut, Enlist, Put, Grow, LoadIndex, StoreSlot, LoadTotal,
                StoreTotal
  <2>4. QED
    BY <2>2, <2>3 DEF RecordsOwned, Connected
<1>5. CASE \E t \in Client : BeginGet(t) \/ CheckIndex(t) \/ CheckClosed(t)
                               \/ Advance(t) \/ Deliver(t)
  <2>1. PICK t \in Client : BeginGet(t) \/ CheckIndex(t) \/ CheckClosed(t)
                               \/ Advance(t) \/ Deliver(t)
    BY <1>5
  <2>2. UNCHANGED heap /\ pc[t] \notin Outside /\ pc'[t] \notin Outside
    BY <2>1 DEF BeginGet, CheckIndex, CheckClosed, Advance, Rotate, Deliver
  <2>3. \A u \in Client \ {t} : pc'[u] = pc[u]
    BY <2>1 DEF BeginGet, CheckIndex, CheckClosed, Advance, Rotate, Deliver
  <2>4. QED
    BY <2>2, <2>3 DEF RecordsOwned, Connected
<1>6. CASE (\E t \in Client : OutOfBounds(t) \/ DoubleFree(t)) \/ UNCHANGED vars
  <2>1. UNCHANGED <<heap, pc>>
    BY <1>6 DEF OutOfBounds, DoubleFree, Fault
  <2>2. QED
    BY <2>1 DEF RecordsOwned, Connected
<1>7. QED
  BY <1>1, <1>2, <1>3, <1>4, <1>5, <1>6, NothingRemoved
  DEF Next, Quiescent, Get

LEMMA TableOwnedStep ==
  ASSUME TypeOK, ConsumesInv, NoRemoval, TableOwned, WriterInv, [Next]_vars,
         \A t \in Client : ~Grow(t)
  PROVE  TableOwned'
<1> USE DEF TypeOK, TableOwned, vars, array, mutexes, heap, registers, ghosts,
      At, Goto
<1>0. ConsumerRecords \subseteq ConsumerRecords'
  BY ConsumerRecordsStep
<1>1. CASE UNCHANGED <<connections, total_connections>>
  BY <1>0, <1>1
<1>2. CASE \E t \in Client : StoreSlot(t)
  BY <1>0, <1>2 DEF StoreSlot, WriterInv
<1>3. CASE \E t \in Client : StoreTotal(t)
  <2>1. PICK t \in Client : StoreTotal(t)
    BY <1>3
  <2>2. /\ total_connections' = total_connections + 1
        /\ connections[total_connections] = record[t]
        /\ UNCHANGED connections
    BY <2>1 DEF StoreTotal, WriterInv
  <2>3. record[t] \in ConsumerRecords'
    BY <2>1 DEF StoreTotal, ConsumerRecords
  <2>4. QED
    BY <1>0, <2>2, <2>3
<1>4. CASE \E t \in Client : BeginPut(t) \/ LoadIndex(t) \/ LoadTotal(t)
  BY <1>1, <1>4 DEF BeginPut, Enlist, LoadIndex, LoadTotal
<1>5. CASE \E t \in Client : BeginGet(t) \/ CheckIndex(t) \/ CheckClosed(t)
                               \/ Advance(t) \/ Deliver(t)
  BY <1>1, <1>5 DEF BeginGet, CheckIndex, CheckClosed, Advance, Rotate, Deliver
<1>6. CASE \E t \in Client : Connect(t) \/ Leave(t) \/ Release(t)
  BY <1>1, <1>6 DEF Connect, Leave, Release
<1>7. CASE (\E t \in Client : OutOfBounds(t) \/ DoubleFree(t)) \/ UNCHANGED vars
  BY <1>1, <1>7 DEF OutOfBounds, DoubleFree, Fault
<1>8. QED
  BY <1>2, <1>3, <1>4, <1>5, <1>6, <1>7, NothingRemoved
  DEF Next, Quiescent, Get, Put

LEMMA WriterStep ==
  ASSUME TypeOK, MutexInv, NoRemoval, WriterInv, [Next]_vars,
         \A t \in Client : ~Grow(t)
  PROVE  WriterInv'
<1> USE ClientAssumption DEF TypeOK, MutexInv, Putting, WriterInv, vars, array,
      mutexes, heap, registers, ghosts, At, Goto
<1>1. CASE \E t \in Client : Connect(t) \/ Leave(t) \/ Release(t)
  BY <1>1, SMTT(30)
     DEF Connect, Leave, Release
<1>2. CASE \E t \in Client : BeginPut(t)
  BY <1>2 DEF BeginPut, Enlist
<1>3. CASE \E t \in Client : LoadIndex(t)
  BY <1>3 DEF LoadIndex
<1>4. CASE \E t \in Client : StoreSlot(t)
  BY <1>4 DEF StoreSlot
<1>5. CASE \E t \in Client : LoadTotal(t)
  BY <1>5 DEF LoadTotal
<1>6. CASE \E t \in Client : StoreTotal(t)
  BY <1>6 DEF StoreTotal
<1>7. CASE \E t \in Client : BeginGet(t) \/ CheckIndex(t) \/ CheckClosed(t)
                               \/ Advance(t) \/ Deliver(t)
  BY <1>7, SMTT(30)
     DEF BeginGet, CheckIndex, CheckClosed, Advance, Rotate, Deliver
<1>8. CASE (\E t \in Client : OutOfBounds(t) \/ DoubleFree(t)) \/ UNCHANGED vars
  BY <1>8 DEF OutOfBounds, DoubleFree, Fault
<1>9. QED
  BY <1>1, <1>2, <1>3, <1>4, <1>5, <1>6, <1>7, <1>8, NothingRemoved
  DEF Next, Quiescent, Get, Put

LEMMA HandedStep ==
  ASSUME TypeOK, GetInv, ConsumesInv, NoRemoval, TableOwned, HandedInv,
         [Next]_vars
  PROVE  HandedInv'
<1> DEFINE Holding == {"advance", "deliver"}
<1> USE DEF TypeOK, HandedInv, vars, array, mutexes, heap, registers, ghosts,
      At, Goto
<1>0. ConsumerRecords \subseteq ConsumerRecords'
  BY ConsumerRecordsStep
<1>1. CASE /\ UNCHANGED connection
           /\ \A u \in Client : pc'[u] \in Holding => pc[u] \in Holding
  BY <1>0, <1>1
<1>2. CASE \E t \in Client : CheckClosed(t)
  <2>1. PICK t \in Client : CheckClosed(t)
    BY <1>2
  <2>2. connections[round_robin] \in ConsumerRecords
    BY <2>1 DEF CheckClosed, GetInv, TableOwned
  <2>3. QED
    BY <1>0, <2>1, <2>2 DEF CheckClosed
<1>3. CASE \E t \in Client : Connect(t) \/ Leave(t) \/ Release(t)
  BY <1>1, <1>3, SMTT(30)
     DEF Connect, Leave, Release
<1>4. CASE \E t \in Client : BeginPut(t) \/ Put(t)
  BY <1>1, <1>4, SMTT(30)
     DEF BeginPut, Enlist, Put, Grow, LoadIndex, StoreSlot, LoadTotal,
         StoreTotal
<1>5. CASE \E t \in Client : BeginGet(t) \/ CheckIndex(t) \/ Advance(t)
                               \/ Deliver(t)
  BY <1>1, <1>5, SMTT(30)
     DEF BeginGet, CheckIndex, Advance, Rotate, Deliver
<1>6. CASE (\E t \in Client : OutOfBounds(t) \/ DoubleFree(t)) \/ UNCHANGED vars
  BY <1>1, <1>6 DEF OutOfBounds, DoubleFree, Fault
<1>7. QED
  BY <1>2, <1>3, <1>4, <1>5, <1>6, NothingRemoved DEF Next, Quiescent, Get

\* The record of a registered consumer is allocated and open.
LEMMA ConsumerOpen ==
  ASSUME ConsumesInv, Calm, RecordsOwned, NEW r \in ConsumerRecords
  PROVE  r \in allocated /\ ~closed[r]
BY DEF ConsumesInv, Calm, ConsumerLeft, RecordsOwned, Connected,
       ConsumerRecords

\* So no dispatch finds a closed connection, and nothing is removed.
LEMMA NoRemovalStep ==
  ASSUME TypeOK, PutInv, GetInv, TableInv, ConsumesInv, Calm, NoRemoval,
         RecordsOwned, TableOwned, [Next]_vars
  PROVE  NoRemoval'
<1> USE DEF TypeOK, NoRemoval, Removing, vars, array, mutexes, heap, registers,
      ghosts, At, Goto
<1>1. CASE \E t \in Client : Connect(t) \/ Leave(t) \/ Release(t)
  BY <1>1, SMTT(30)
     DEF Connect, Leave, Release
<1>2. CASE \E t \in Client : BeginPut(t) \/ Put(t)
  BY <1>2, SMTT(30)
     DEF BeginPut, Enlist, Put, Grow, LoadIndex, StoreSlot, LoadTotal,
         StoreTotal
<1>3. CASE \E t \in Client : BeginGet(t) \/ CheckIndex(t) \/ Advance(t)
                               \/ Deliver(t)
  BY <1>3, SMTT(30) DEF BeginGet, CheckIndex, Advance, Rotate, Deliver
<1>4. CASE \E t \in Client : CheckClosed(t)
  <2>1. PICK t \in Client : CheckClosed(t)
    BY <1>4
  <2>2. ~closed[connections[round_robin]]
    BY <2>1, ConsumerOpen DEF CheckClosed, GetInv, TableOwned
  <2>3. QED
    BY <2>1, <2>2 DEF CheckClosed
<1>5. CASE \E t \in Client : OutOfBounds(t)
  BY <1>5 DEF OutOfBounds, AtSlot, Slot, PutInv, GetInv, TableInv, Calm
<1>6. CASE \E t \in Client : DoubleFree(t)
  BY <1>6 DEF DoubleFree, RecordsOwned, Connected
<1>7. CASE UNCHANGED vars
  BY <1>7
<1>8. QED
  BY <1>1, <1>2, <1>3, <1>4, <1>5, <1>6, <1>7, NothingRemoved
  DEF Next, Quiescent, Get

LEMMA StepOwnInv == IndInv /\ OwnInv /\ [Next]_vars => OwnInv'
<1> SUFFICES ASSUME IndInv, OwnInv, [Next]_vars PROVE OwnInv'
  OBVIOUS
<1> USE DEF IndInv, OwnInv
<1>1. ConsumesInv'
  BY ConsumesStep
<1>2. SUFFICES ASSUME Calm'
               PROVE  (NoRemoval /\ RecordsOwned /\ TableOwned /\ WriterInv
                         /\ HandedInv)'
  BY <1>1
<1>3. Calm
  BY <1>2, CalmBefore
<1>4. \A t \in Client : ~Grow(t)
  BY <1>2, GrownStep DEF Calm
<1>5. QED
  BY <1>3, <1>4, NoRemovalStep, RecordsOwnedStep, TableOwnedStep, WriterStep,
     HandedStep

LEMMA InitOwnInv == Init => OwnInv
BY ClientAssumption DEF Init, OwnInv, ConsumesInv, NoRemoval, Removing,
   RecordsOwned, Connected, TableOwned, WriterInv, HandedInv

\* Until a consumer's connection ends, every pointer in the table and every
\* pointer handed to a publisher is to an allocated record of an open
\* connection, and no record is freed twice (Queue.c:199-210,
\* Connection.c:42-43).
THEOREM SafetyUntilConsumerLeaves == Spec => []SafeUntilConsumerLeaves
<1>1. Spec => [](IndInv /\ OwnInv)
  BY InitIndInv, StepIndInv, InitOwnInv, StepOwnInv, PTL DEF Spec
<1>2. IndInv /\ OwnInv => SafeUntilConsumerLeaves
  BY ConsumerOpen DEF OwnInv, Calm, NoRemoval, TableOwned, HandedInv,
     SafeUntilConsumerLeaves
<1>3. QED
  BY <1>1, <1>2, PTL
=============================================================================
