--------------------------- MODULE RemovalProofs ---------------------------
(***************************************************************************)
(* Consumers that leave: until the array grows and until a registration    *)
(* overlaps the end of a removal, the loads and stores of QueueConsumers   *)
(* implement the ring of LeavingRing.                                      *)
(***************************************************************************)
EXTENDS QueueConsumersProofs

-----------------------------------------------------------------------------
(* The invariant. *)

\* The overlap is remembered.
RaceInv == Overlap => raced

\* As long as there was none, what a thread has loaded is still so when it
\* stores: a registration its slot and the total, a dispatch the record whose
\* turn it is, a removal the part that is left to pull down and the total.
FreshInv ==
  \A t \in Client :
    /\ pc[t] = "store_slot" => index[t] = total_connections
    /\ pc[t] = "load_total" =>
         /\ index[t] = total_connections
         /\ connections[total_connections] = record[t]
    /\ pc[t] = "store_total" =>
         /\ total[t] = total_connections
         /\ connections[total_connections] = record[t]
    /\ pc[t] = "advance" => connection[t] = connections[round_robin]
    /\ pc[t] = "shift" => round_robin < index[t] /\ index[t] <= total_connections
    /\ pc[t] = "is_last" => round_robin = total_connections - 1
    /\ pc[t] = "drop_store" => total[t] = total_connections

LEMMA RaceStep ==
  ASSUME TypeOK, RaceInv, [Next]_vars
  PROVE  RaceInv' /\ (raced => raced')
<1> USE DEF TypeOK, vars, array, mutexes, heap, registers, ghosts, At, Goto
<1>1. CASE \E t \in Client : LoadIndex(t) \/ IsInner(t) \/ Shift(t)
  <2>1. raced' = (raced \/ Overlap')
    BY <1>1 DEF LoadIndex, IsInner, PullDown, Shift
  <2>2. QED
    BY <2>1 DEF RaceInv
<1>2. ASSUME raced' = raced,
             \A u \in Client : /\ pc'[u] \in Storing => pc[u] \in Storing
                               /\ pc'[u] \in Dropping => pc[u] \in Dropping
      PROVE  RaceInv' /\ (raced => raced')
  BY <1>2 DEF RaceInv, Overlap
<1> USE DEF Storing, Dropping
<1>3. CASE UNCHANGED vars
  BY <1>2, <1>3
<1>4. CASE \E t \in Client : Connect(t) \/ Leave(t) \/ Release(t)
                              \/ Deliver(t) \/ BeginPut(t) \/ BeginGet(t)
  <2>1. PICK t \in Client : Connect(t) \/ Leave(t) \/ Release(t)
                              \/ Deliver(t) \/ BeginPut(t) \/ BeginGet(t)
    BY <1>4
  <2>2. raced' = raced
    BY <2>1 DEF Connect, Leave, Release, Deliver, BeginPut, Enlist, BeginGet
  <2>3. PICK l : l \notin Storing \cup Dropping /\ pc' = [pc EXCEPT ![t] = l]
    BY <2>1 DEF Connect, Leave, Release, Deliver, BeginPut, Enlist, BeginGet
  <2>4. QED
    BY <1>2, <2>2, <2>3
<1>5. CASE \E t \in Client : Grow(t) \/ StoreSlot(t) \/ LoadTotal(t)
                              \/ StoreTotal(t)
  BY <1>2, <1>5 DEF Grow, StoreSlot, LoadTotal, StoreTotal
<1>6. CASE \E t \in Client : CheckIndex(t) \/ CheckClosed(t) \/ Advance(t)
  <2>1. PICK t \in Client : CheckIndex(t) \/ CheckClosed(t) \/ Advance(t)
    BY <1>6
  <2>2. raced' = raced
    BY <2>1 DEF CheckIndex, CheckClosed, Advance, Rotate
  <2>3. PICK l : l \notin Storing \cup Dropping /\ pc' = [pc EXCEPT ![t] = l]
    BY <2>1 DEF CheckIndex, CheckClosed, Advance, Rotate
  <2>4. QED
    BY <1>2, <2>2, <2>3
<1>7. CASE \E t \in Client : IsLast(t) \/ DropLoad(t) \/ DropStore(t)
                              \/ FreeVictim(t)
  BY <1>2, <1>7 DEF IsLast, DropLoad, DropStore, FreeVictim
<1>8. CASE \E t \in Client : OutOfBounds(t) \/ DoubleFree(t)
  BY <1>2, <1>8 DEF OutOfBounds, DoubleFree, Fault
<1>9. QED
  BY <1>1, <1>3, <1>4, <1>5, <1>6, <1>7, <1>8
  DEF Next, Quiescent, Put, Get, Remove

LEMMA FreshStep ==
  ASSUME IndInv, RaceInv, FreshInv, ~Grown, ~raced, [Next]_vars,
         \A t \in Client : ~Grow(t)
  PROVE  FreshInv'
<1> USE DEF At, Goto, array, mutexes, heap, registers, ghosts, FreshInv
<1>a. TypeOK /\ MutexInv /\ PutInv /\ GetInv
      /\ max_connections <= capacity
  BY DEF IndInv, TableInv
<1>b. ~Overlap
  BY DEF RaceInv
<1>c. /\ \A t, u \in Client : pc[t] \in Putting /\ pc[u] \in Putting => t = u
      /\ \A t, u \in Client : pc[t] \in Getting /\ pc[u] \in Getting => t = u
  BY <1>a DEF MutexInv
<1> USE <1>a, <1>c DEF TypeOK, Putting, Getting, Removing
<1>0. CASE UNCHANGED vars
  BY <1>0 DEF vars
<1>1. CASE \E t \in Client : Connect(t)
  BY <1>1 DEF Connect
<1>2. CASE \E t \in Client : Leave(t) \/ Release(t) \/ Deliver(t)
  <2>1. PICK t \in Client : Leave(t) \/ Release(t) \/ Deliver(t)
    BY <1>2
  <2>2. PICK l \in {"release", "gone", "idle"} : pc' = [pc EXCEPT ![t] = l]
    BY <2>1 DEF Leave, Release, Deliver
  <2>3. UNCHANGED <<array, total_connections, round_robin, record, registers>>
    BY <2>1 DEF Leave, Release, Deliver
  <2>4. QED
    BY <2>2, <2>3
<1>3. CASE \E t \in Client : BeginPut(t) \/ BeginGet(t)
  <2>1. PICK t \in Client : BeginPut(t) \/ BeginGet(t)
    BY <1>3
  <2>2. PICK l \in {"grow", "load_index", "check_index"} :
          pc' = [pc EXCEPT ![t] = l]
    BY <2>1 DEF BeginPut, Enlist, BeginGet
  <2>3. UNCHANGED <<array, total_connections, round_robin, record, registers>>
    BY <2>1 DEF BeginPut, Enlist, BeginGet
  <2>4. QED
    BY <2>2, <2>3
<1>4. CASE \E t \in Client : LoadIndex(t)
  BY <1>4 DEF LoadIndex
<1>5. CASE \E t \in Client : StoreSlot(t)
  BY <1>5, SMTT(30) DEF StoreSlot, PutInv, GetInv
<1>6. CASE \E t \in Client : LoadTotal(t)
  BY <1>6 DEF LoadTotal
<1>7. CASE \E t \in Client : StoreTotal(t)
  BY <1>7, <1>b DEF StoreTotal, Overlap, Storing, Dropping
<1>8. CASE \E t \in Client : CheckIndex(t)
  BY <1>8 DEF CheckIndex
<1>9. CASE \E t \in Client : CheckClosed(t)
  BY <1>9 DEF CheckClosed
<1>10. CASE \E t \in Client : Advance(t)
  BY <1>10 DEF Advance, Rotate
<1>11. CASE \E t \in Client : IsInner(t)
  BY <1>11 DEF IsInner, PullDown, GetInv
<1>12. CASE \E t \in Client : Shift(t)
  <2>1. PICK t \in Client : Shift(t)
    BY <1>12
  <2>2. CASE index[t] < total_connections
    <3>1. /\ pc[t] = "shift"
          /\ connections' = [connections EXCEPT
                               ![index[t] - 1] = connections[index[t]]]
          /\ index' = [index EXCEPT ![t] = @ + 1]
          /\ UNCHANGED <<pc, total_connections, round_robin, record, total,
                         connection>>
      BY <2>1, <2>2, SMTT(30) DEF Shift
    <3>2. connections'[total_connections] = connections[total_connections]
      BY <2>2, <3>1
    <3>3. \A u \in Client : pc[u] \in Getting => u = t
      BY <3>1
    <3>4. QED
      BY <2>2, <3>1, <3>2, <3>3
  <2>3. CASE ~(index[t] < total_connections)
    <3>1. /\ pc[t] = "shift" /\ pc' = [pc EXCEPT ![t] = "drop_load"]
          /\ UNCHANGED <<connections, total_connections, round_robin, record,
                         registers>>
      BY <2>1, <2>3 DEF Shift
    <3>2. QED
      BY <3>1
  <2>4. QED
    BY <2>2, <2>3
<1>13. CASE \E t \in Client : IsLast(t)
  BY <1>13 DEF IsLast
<1>14. CASE \E t \in Client : DropLoad(t)
  BY <1>14 DEF DropLoad
<1>15. CASE \E t \in Client : DropStore(t)
  BY <1>15, <1>b DEF DropStore, Overlap, Storing, Dropping
<1>16. CASE \E t \in Client : FreeVictim(t)
  BY <1>16 DEF FreeVictim
<1>17. CASE \E t \in Client : OutOfBounds(t) \/ DoubleFree(t)
  BY <1>17, SMTT(30) DEF OutOfBounds, DoubleFree, Fault
<1>18. QED
  BY <1>0, <1>1, <1>2, <1>3, <1>4, <1>5, <1>6, <1>7, <1>8, <1>9, <1>10,
     <1>11, <1>12, <1>13, <1>14, <1>15, <1>16, <1>17
  DEF Next, Quiescent, Put, Get, Remove

-----------------------------------------------------------------------------
(* What each step does to the ring. *)

\* The states in which the ring is kept.
Clean == IndInv /\ FreshInv /\ ~Grown /\ ~Overlap

\* What the dispatch under way is at decides how the table is read.
LEMMA GetterAt ==
  ASSUME IndInv, NEW t \in Client, pc[t] \in Getting
  PROVE  /\ getMutex = t
         /\ Cut <=> pc[t] \in {"shift"} \cup Dropping
         /\ Gap = IF pc[t] = "shift" THEN index[t] - 1
                  ELSE IF pc[t] = "is_last" THEN round_robin
                  ELSE total_connections - 1
         /\ Verdict = IF pc[t] = "advance" THEN "serve"
                      ELSE IF pc[t] = "is_inner" THEN "drop" ELSE "none"
<1>1. getMutex = t /\ t # Null
  BY ClientAssumption DEF IndInv, MutexInv
<1>2. QED
  BY <1>1 DEF Cut, Gap, Verdict, Getter

LEMMA NoGetter ==
  ASSUME getMutex = Null
  PROVE  ~Cut /\ Verdict = "none"
BY DEF Cut, Verdict, Getter

LEMMA SizeOfRing ==
  ASSUME IndInv
  PROVE  /\ Length \in Nat /\ total_connections \in Nat
         /\ Cut => Length = total_connections - 1 /\ total_connections > 0
         /\ ~Cut => Length = total_connections
<1>1. total_connections \in Nat
  BY DEF IndInv, TypeOK
<1>2. ASSUME Cut PROVE total_connections > 0
  <2>1. /\ getMutex \in Client
        /\ pc[getMutex] \in {"shift", "is_last", "drop_load", "drop_store"}
    BY <1>2, ClientAssumption DEF Cut, Getter, Dropping, IndInv, TypeOK
  <2>2. QED
    BY <2>1 DEF IndInv, GetInv, TypeOK
<1>3. QED
  BY <1>1, <1>2 DEF Length

LEMMA RingIsSequence ==
  ASSUME IndInv, ~Grown
  PROVE  Seats \in Seq(Record) /\ Len(Seats) = Length
<1>1. \A n \in 0 .. total_connections - 1 : connections[n] \in Record
  BY DEF IndInv, TypeOK, PutInv, TableInv
<1>2. \A k \in 1 .. Length :
        connections[IF Cut /\ k > Gap THEN k ELSE k - 1] \in Record
  BY <1>1, SizeOfRing
<1>3. Seats \in [1 .. Length -> Record]
  BY <1>2 DEF Seats
<1>4. QED
  BY <1>3, SizeOfRing DEF Seats

\* Steps of a thread that is not dispatching and leaves the table alone.
LEMMA SameView ==
  ASSUME UNCHANGED <<connections, total_connections, round_robin, getMutex>>,
         getMutex # Null =>
           pc'[getMutex] = pc[getMutex] /\ index'[getMutex] = index[getMutex]
  PROVE  Seats' = Seats /\ Turn' = Turn /\ Verdict' = Verdict
<1>1. Cut' = Cut /\ Verdict' = Verdict
  BY DEF Cut, Verdict, Getter
<1>2. Cut => Gap' = Gap
  BY DEF Gap, Getter, Cut
<1>3. Length' = Length
  BY <1>1 DEF Length
<1>4. QED
  BY <1>1, <1>2, <1>3 DEF Seats, Turn

LEMMA StoreSlotStep ==
  ASSUME Clean, NEW t \in Client, StoreSlot(t)
  PROVE  Seats' = Seats /\ Turn' = Turn /\ Verdict' = Verdict
<1> USE DEF Clean, IndInv
<1>1. /\ index[t] = total_connections /\ pc[t] \in Putting
      /\ connections' = [connections EXCEPT ![index[t]] = record[t]]
      /\ pc' = [pc EXCEPT ![t] = "load_total"]
      /\ UNCHANGED <<total_connections, round_robin, getMutex, index>>
  BY DEF StoreSlot, At, Goto, FreshInv, mutexes, registers, Putting
<1>2. getMutex # Null => getMutex \in Client /\ getMutex # t
  BY <1>1 DEF MutexInv, TypeOK, Putting, Getting, Removing
<1>3. getMutex # Null =>
        pc'[getMutex] = pc[getMutex] /\ index'[getMutex] = index[getMutex]
  BY <1>1, <1>2 DEF TypeOK
<1>4. Cut' = Cut /\ Verdict' = Verdict
  BY <1>1, <1>3 DEF Cut, Verdict, Getter
<1>5. Cut => Gap' = Gap
  BY <1>1, <1>3 DEF Gap, Getter, Cut
<1>6. Length' = Length
  BY <1>1, <1>4 DEF Length
<1>7. \A k \in 1 .. Length :
        connections'[IF Cut /\ k > Gap THEN k ELSE k - 1]
          = connections[IF Cut /\ k > Gap THEN k ELSE k - 1]
  BY <1>1, SizeOfRing DEF TypeOK
<1>8. Seats' = Seats
  BY <1>4, <1>5, <1>6, <1>7 DEF Seats
<1>9. QED
  BY <1>1, <1>4, <1>6, <1>8 DEF Turn

LEMMA StoreTotalStep ==
  ASSUME Clean, NEW t \in Client, StoreTotal(t)
  PROVE  Leaving!Register(record[t])
<1> USE DEF Clean, IndInv
<1>1. /\ total_connections' = total_connections + 1 /\ pc[t] = "store_total"
      /\ connections[total_connections] = record[t]
      /\ pc' = [pc EXCEPT ![t] = "idle"]
      /\ handed' = <<>> /\ closed' = closed
      /\ UNCHANGED <<connections, round_robin, getMutex, index>>
  BY DEF StoreTotal, At, Goto, FreshInv, array, heap, registers
<1>2. getMutex # Null => getMutex \in Client /\ getMutex # t
  BY <1>1 DEF MutexInv, TypeOK, Putting, Getting, Removing
<1>3. getMutex # Null =>
        pc'[getMutex] = pc[getMutex] /\ index'[getMutex] = index[getMutex]
  BY <1>1, <1>2 DEF TypeOK
<1>4. Cut' = Cut /\ Verdict' = Verdict
  BY <1>1, <1>3 DEF Cut, Verdict, Getter
<1>5. Cut => /\ Gap' = Gap /\ Gap \in Int /\ Gap < total_connections
             /\ round_robin + 1 < total_connections
  <2>1. SUFFICES ASSUME Cut
                 PROVE  /\ Gap' = Gap /\ Gap \in Int /\ Gap < total_connections
                        /\ round_robin + 1 < total_connections
    OBVIOUS
  <2>2. getMutex \in Client /\ pc[getMutex] = "shift"
    BY <1>1, <1>2, <2>1 DEF Cut, Getter, Overlap, Storing
  <2>3. /\ index[getMutex] <= total_connections
        /\ round_robin + 1 < total_connections
    BY <2>2 DEF FreshInv, GetInv
  <2>4. Gap = index[getMutex] - 1 /\ Gap' = index[getMutex] - 1
    BY <1>1, <1>3, <2>1, <2>2 DEF Gap, Getter, Cut
  <2>5. QED
    BY <2>2, <2>3, <2>4 DEF TypeOK
<1>6. Length' = Length + 1
  BY <1>1, <1>4, SizeOfRing DEF Length
<1>7. Turn' = Turn
  BY <1>1, <1>5, <1>6, SizeOfRing DEF Turn, GetInv, TypeOK
<1>8. PICK r : r = record[t]
  OBVIOUS
<1>9. Seats' = Append(Seats, r)
  <2>1. r \in Record
    BY <1>1, <1>8 DEF RecordInv
  <2>2. Seats' = [k \in 1 .. Length + 1 |->
                    connections[IF Cut /\ k > Gap THEN k ELSE k - 1]]
    BY <1>1, <1>4, <1>5, <1>6 DEF Seats
  <2>3. connections[IF Cut /\ Length + 1 > Gap THEN Length + 1
                                              ELSE (Length + 1) - 1] = r
    <3>1. CASE Cut
      <4>1. Length + 1 = total_connections /\ Length + 1 > Gap
        BY <1>5, <3>1, SizeOfRing
      <4>2. QED
        BY <1>1, <1>8, <3>1, <4>1
    <3>2. CASE ~Cut
      BY <1>1, <1>8, <3>2, SizeOfRing
    <3>3. QED
      BY <3>1, <3>2
  <2>4. PICK q : q = Append(Seats, r)
    OBVIOUS
  <2>5. /\ q[Length + 1] = r
        /\ \A k \in 1 .. Length : q[k] = Seats[k]
    BY <2>4, RingIsSequence
  <2>6. \A k \in 1 .. Length + 1 :
          q[k] = connections[IF Cut /\ k > Gap THEN k ELSE k - 1]
    <3>1. \A k \in 1 .. Length :
            Seats[k] = connections[IF Cut /\ k > Gap THEN k ELSE k - 1]
      BY DEF Seats
    <3>2. TAKE k \in 1 .. Length + 1
    <3>3. CASE k \in 1 .. Length
      BY <2>5, <3>1, <3>3
    <3>4. CASE k = Length + 1
      BY <2>3, <2>5, <3>4
    <3>5. QED
      BY <3>3, <3>4, SizeOfRing
  <2>7. q = [k \in 1 .. Length + 1 |-> q[k]]
    <3>1. q \in Seq(Record) /\ Len(q) = Length + 1
      BY <2>1, <2>4, RingIsSequence
    <3>2. QED
      BY <3>1
  <2>8. QED
    BY <2>2, <2>4, <2>6, <2>7
<1>10. QED
  BY <1>1, <1>4, <1>7, <1>8, <1>9 DEF Leaving!Register

LEMMA GetterNext ==
  ASSUME NEW t \in Client, getMutex' = t
  PROVE  /\ Cut' <=> pc'[t] \in {"shift"} \cup Dropping
         /\ Gap' = IF pc'[t] = "shift" THEN index'[t] - 1
                   ELSE IF pc'[t] = "is_last" THEN round_robin'
                   ELSE total_connections' - 1
         /\ Verdict' = IF pc'[t] = "advance" THEN "serve"
                       ELSE IF pc'[t] = "is_inner" THEN "drop" ELSE "none"
<1>1. t # Null
  BY ClientAssumption
<1>2. QED
  BY <1>1 DEF Cut, Gap, Verdict, Getter

\* Outside a removal, and without one, a dispatch is not seen.
LEMMA BeginGetStep ==
  ASSUME Clean, NEW t \in Client, BeginGet(t)
  PROVE  Seats' = Seats /\ Turn' = Turn /\ Verdict' = Verdict
<1>1. /\ getMutex = Null /\ getMutex' = t
      /\ pc' = [pc EXCEPT ![t] = "check_index"]
      /\ UNCHANGED <<connections, total_connections, round_robin>>
  BY DEF BeginGet, Goto, array
<1>2. pc'[t] = "check_index"
  BY <1>1 DEF Clean, IndInv, TypeOK
<1>3. ~Cut /\ Verdict = "none"
  BY <1>1, NoGetter
<1>4. ~Cut' /\ Verdict' = "none"
  BY <1>1, <1>2, GetterNext DEF Dropping
<1>5. QED
  BY <1>1, <1>3, <1>4 DEF Seats, Turn, Length

LEMMA CheckIndexStep ==
  ASSUME Clean, NEW t \in Client, CheckIndex(t)
  PROVE  Seats' = Seats /\ Turn' = Turn /\ Verdict' = Verdict
<1>1. /\ pc[t] = "check_index"
      /\ UNCHANGED <<connections, total_connections, round_robin>>
      /\ \/ pc' = [pc EXCEPT ![t] = "check_closed"] /\ getMutex' = getMutex
         \/ getMutex' = Null
  BY DEF CheckIndex, At, Goto, array
<1>2. getMutex = t /\ ~Cut /\ Verdict = "none"
  BY <1>1, GetterAt DEF Clean, Getting, Dropping
<1>3. ~Cut' /\ Verdict' = "none"
  <2>1. CASE getMutex' = Null
    BY <2>1 DEF Cut, Verdict, Getter
  <2>2. CASE getMutex' # Null
    <3>1. getMutex' = t /\ pc'[t] = "check_closed"
      BY <1>1, <1>2, <2>2 DEF Clean, IndInv, TypeOK
    <3>2. QED
      BY <3>1, GetterNext DEF Dropping
  <2>3. QED
    BY <2>1, <2>2
<1>4. QED
  BY <1>1, <1>2, <1>3 DEF Seats, Turn, Length

\* Outside a removal the ring is the table, and round_robin the turn.
LEMMA Uncut ==
  ASSUME IndInv, ~Cut, round_robin < total_connections
  PROVE  /\ Length = total_connections
         /\ Turn = round_robin + 1
         /\ Seats # <<>> /\ Seats[Turn] = connections[round_robin]
<1>1. /\ Length = total_connections /\ Turn = round_robin + 1
      /\ round_robin \in Nat /\ total_connections \in Nat
  BY DEF Length, Turn, IndInv, TypeOK
<1>2. DOMAIN Seats = 1 .. Length /\ Turn \in 1 .. Length
  BY <1>1 DEF Seats
<1>3. Seats # <<>>
  <2>1. DOMAIN <<>> = {}
    OBVIOUS
  <2>2. QED
    BY <1>2, <2>1
<1>4. Seats[Turn] = connections[round_robin]
  BY <1>1, <1>2 DEF Seats
<1>5. QED
  BY <1>1, <1>3, <1>4

LEMMA CheckClosedStep ==
  ASSUME Clean, NEW t \in Client, CheckClosed(t)
  PROVE  Leaving!Look
<1> USE DEF Clean
<1>1. /\ pc[t] = "check_closed"
      /\ pc' = [pc EXCEPT ![t] = IF closed[connections[round_robin]]
                                 THEN "is_inner" ELSE "advance"]
      /\ UNCHANGED <<connections, total_connections, round_robin, getMutex,
                     handed, closed>>
  <2>1. connection'[t] = connections[round_robin]
    BY DEF CheckClosed, IndInv, TypeOK
  <2>2. QED
    BY <2>1 DEF CheckClosed, At, Goto, array, mutexes, heap, ghosts
<1>2. getMutex = t /\ ~Cut /\ Verdict = "none"
  BY <1>1, GetterAt DEF Getting, Dropping
<1>3. pc'[t] = IF closed[connections[round_robin]] THEN "is_inner" ELSE "advance"
  BY <1>1 DEF IndInv, TypeOK
<1>4. /\ ~Cut'
      /\ Verdict' = IF closed[connections[round_robin]] THEN "drop" ELSE "serve"
  BY <1>1, <1>2, <1>3, GetterNext DEF Dropping
<1>5. round_robin < total_connections
  BY <1>1 DEF IndInv, GetInv
<1>6. Seats # <<>> /\ Seats[Turn] = connections[round_robin]
  BY <1>2, <1>5, Uncut
<1>7. connections[round_robin] \in Record
  BY <1>5 DEF IndInv, TypeOK, PutInv, TableInv
<1>8. closed[connections[round_robin]] <=> Seats[Turn] \in {r \in Record : closed[r]}
  BY <1>6, <1>7
<1>9. Seats' = Seats /\ Turn' = Turn
  BY <1>1, <1>2, <1>4 DEF Seats, Turn, Length
<1>10. QED
  BY <1>1, <1>2, <1>4, <1>6, <1>8, <1>9 DEF Leaving!Look

LEMMA AdvanceStep ==
  ASSUME Clean, NEW t \in Client, Advance(t)
  PROVE  Leaving!Serve
<1> USE DEF Clean
<1>1. /\ pc[t] = "advance" /\ getMutex' = Null
      /\ round_robin' = (round_robin + 1) % total_connections
      /\ handed' = Append(handed, connection[t])
      /\ UNCHANGED <<connections, total_connections, closed>>
  BY DEF Advance, Rotate, At, array, heap
<1>2. ~Cut /\ Verdict = "serve"
  BY <1>1, GetterAt DEF Getting, Dropping
<1>3. ~Cut' /\ Verdict' = "none"
  BY <1>1 DEF Cut, Verdict, Getter
<1>4. /\ round_robin < total_connections
      /\ round_robin \in Nat /\ total_connections \in Nat
  BY <1>1 DEF IndInv, GetInv, TypeOK
<1>5. /\ Length = total_connections /\ Turn = round_robin + 1
      /\ connection[t] = Seats[Turn]
  BY <1>1, <1>2, <1>4, Uncut DEF FreshInv
<1>6. round_robin' = IF round_robin + 1 = total_connections
                     THEN 0 ELSE round_robin + 1
  BY <1>1, <1>4
<1>7. Seats' = Seats /\ Length' = Length
  BY <1>1, <1>2, <1>3 DEF Seats, Length
<1>8. Turn' = IF Turn = Length THEN 1 ELSE Turn + 1
  BY <1>1, <1>4, <1>5, <1>6, <1>7 DEF Turn
<1>9. Len(Seats) = Length
  BY RingIsSequence
<1>10. QED
  BY <1>1, <1>2, <1>3, <1>5, <1>7, <1>8, <1>9 DEF Leaving!Serve

\* The removal takes effect where it decides what to pull down ...
LEMMA IsInnerStep ==
  ASSUME Clean, NEW t \in Client, IsInner(t)
  PROVE  Leaving!Drop
<1> USE DEF Clean
<1>1. /\ pc[t] = "is_inner" /\ index'[t] = round_robin + 1
      /\ pc'[t] = IF round_robin < total_connections - 1 THEN "shift"
                                                         ELSE "is_last"
      /\ UNCHANGED <<connections, total_connections, round_robin, getMutex,
                     handed, closed>>
  BY DEF IsInner, PullDown, At, Goto, array, mutexes, heap, IndInv, TypeOK
<1>2. getMutex = t /\ ~Cut /\ Verdict = "drop"
  BY <1>1, GetterAt DEF Getting, Removing, Dropping
<1>3. /\ round_robin < total_connections
      /\ round_robin \in Nat /\ total_connections \in Nat
  BY <1>1 DEF IndInv, GetInv, TypeOK
<1>4. Cut' /\ Gap' = round_robin /\ Verdict' = "none"
  BY <1>1, <1>2, <1>3, GetterNext DEF Dropping
<1>5. /\ Length = total_connections /\ Turn = round_robin + 1
      /\ Length' = total_connections - 1
  BY <1>1, <1>2, <1>3, <1>4, Uncut DEF Length
<1>6. Turn' = IF Turn = Length THEN 1 ELSE Turn
  BY <1>1, <1>3, <1>5 DEF Turn
<1>7. Seats' = [k \in 1 .. Length - 1 |-> IF k < Turn THEN Seats[k]
                                                    ELSE Seats[k + 1]]
  <2>1. Seats' = [k \in 1 .. Length - 1 |->
                    connections[IF k > round_robin THEN k ELSE k - 1]]
    BY <1>1, <1>4, <1>5 DEF Seats
  <2>2. \A k \in 1 .. Length : Seats[k] = connections[k - 1]
    BY <1>2 DEF Seats
  <2>3. \A k \in 1 .. Length - 1 :
          connections[IF k > round_robin THEN k ELSE k - 1]
            = IF k < Turn THEN Seats[k] ELSE Seats[k + 1]
    BY <1>3, <1>5, <2>2
  <2>4. QED
    BY <2>1, <2>3
<1>8. Len(Seats) = Length
  BY RingIsSequence
<1>9. QED
  BY <1>1, <1>2, <1>4, <1>6, <1>7, <1>8 DEF Leaving!Drop

\* ... and pulling down the rest, entry by entry, is not seen: the entry that
\* is one too many moves up until it is the last.
LEMMA ShiftStep ==
  ASSUME Clean, NEW t \in Client, Shift(t)
  PROVE  Seats' = Seats /\ Turn' = Turn /\ Verdict' = Verdict
<1> USE DEF Clean
<1>1. /\ pc[t] = "shift"
      /\ UNCHANGED <<capacity, total_connections, round_robin, getMutex>>
  BY DEF Shift, At, mutexes
<1>2. /\ getMutex = t /\ Cut /\ Gap = index[t] - 1 /\ Verdict = "none"
  BY <1>1, GetterAt DEF Getting, Removing, Dropping
<1>3. /\ index[t] \in Nat /\ total_connections \in Nat /\ round_robin \in Nat
      /\ round_robin < index[t] /\ index[t] <= total_connections
  BY <1>1 DEF FreshInv, IndInv, TypeOK
<1>4. Length = total_connections - 1
  BY <1>2 DEF Length
<1>5. CASE index[t] < total_connections
  <2>1. /\ connections' = [connections EXCEPT
                             ![index[t] - 1] = connections[index[t]]]
        /\ index'[t] = index[t] + 1 /\ pc' = pc /\ index[t] < capacity
    BY <1>5, <1>1 DEF Shift, IndInv, TypeOK
  <2>2. Cut' /\ Gap' = index[t] /\ Verdict' = "none"
    BY <1>1, <1>2, <1>3, <2>1, GetterNext DEF Dropping
  <2>3. Length' = Length /\ Turn' = Turn
    BY <1>1, <1>2, <2>2 DEF Length, Turn
  <2>4. \A k \in 1 .. Length :
          connections'[IF k > index[t] THEN k ELSE k - 1]
            = connections[IF k > index[t] - 1 THEN k ELSE k - 1]
    <3>1. DOMAIN connections = 0 .. capacity - 1 /\ capacity \in Nat
      BY DEF IndInv, TypeOK
    <3>2. TAKE k \in 1 .. Length
    <3>3. CASE k > index[t]
      BY <1>3, <1>4, <2>1, <3>1, <3>3
    <3>4. CASE k = index[t]
      <4>1. connections'[index[t] - 1] = connections[index[t]]
        BY <1>3, <2>1, <3>1
      <4>2. ~(k > index[t]) /\ k > index[t] - 1
        BY <1>3, <3>4
      <4>3. QED
        BY <3>4, <4>1, <4>2
    <3>5. CASE k < index[t]
      BY <1>3, <1>4, <2>1, <3>1, <3>5
    <3>6. QED
      BY <1>3, <1>4, <3>3, <3>4, <3>5
  <2>5. Seats = [k \in 1 .. Length |->
                   connections[IF k > index[t] - 1 THEN k ELSE k - 1]]
    BY <1>2 DEF Seats
  <2>6. Seats' = [k \in 1 .. Length |->
                    connections'[IF k > index[t] THEN k ELSE k - 1]]
    BY <2>2, <2>3 DEF Seats
  <2>7. QED
    BY <1>2, <2>2, <2>3, <2>4, <2>5, <2>6
<1>6. CASE ~(index[t] < total_connections)
  <2>1. pc'[t] = "drop_load" /\ connections' = connections
    BY <1>6 DEF Shift, Goto, IndInv, TypeOK
  <2>2. /\ Cut' /\ Gap' = total_connections - 1 /\ Verdict' = "none"
        /\ Gap = total_connections - 1
    BY <1>1, <1>2, <1>3, <1>6, <2>1, GetterNext DEF Dropping
  <2>3. Length' = Length
    BY <1>1, <1>2, <2>2 DEF Length
  <2>4. QED
    BY <1>1, <1>2, <2>1, <2>2, <2>3 DEF Seats, Turn
<1>7. QED
  BY <1>5, <1>6

LEMMA IsLastStep ==
  ASSUME Clean, NEW t \in Client, IsLast(t)
  PROVE  Seats' = Seats /\ Turn' = Turn /\ Verdict' = Verdict
<1> USE DEF Clean
<1>1. /\ pc[t] = "is_last" /\ pc'[t] = "drop_load"
      /\ round_robin = total_connections - 1 /\ round_robin' = 0
      /\ UNCHANGED <<connections, total_connections, getMutex>>
  BY DEF IsLast, At, Goto, array, mutexes, FreshInv, IndInv, TypeOK
<1>2. /\ getMutex = t /\ Cut /\ Gap = total_connections - 1
      /\ Verdict = "none"
  BY <1>1, GetterAt DEF Getting, Removing, Dropping
<1>3. Cut' /\ Gap' = total_connections - 1 /\ Verdict' = "none"
  BY <1>1, <1>2, GetterNext DEF Dropping
<1>4. Length = total_connections - 1 /\ Length' = Length
  BY <1>1, <1>2, <1>3 DEF Length
<1>5. Turn = 1 /\ Turn' = 1
  BY <1>1, <1>4 DEF Turn, IndInv, TypeOK
<1>6. QED
  BY <1>1, <1>2, <1>3, <1>4, <1>5 DEF Seats

LEMMA DropLoadStep ==
  ASSUME Clean, NEW t \in Client, DropLoad(t)
  PROVE  Seats' = Seats /\ Turn' = Turn /\ Verdict' = Verdict
<1> USE DEF Clean
<1>1. /\ pc[t] = "drop_load" /\ pc'[t] = "drop_store"
      /\ UNCHANGED <<connections, total_connections, round_robin, getMutex>>
  BY DEF DropLoad, At, Goto, array, mutexes, IndInv, TypeOK
<1>2. /\ getMutex = t /\ Cut /\ Gap = total_connections - 1
      /\ Verdict = "none"
  BY <1>1, GetterAt DEF Getting, Removing, Dropping
<1>3. Cut' /\ Gap' = total_connections - 1 /\ Verdict' = "none"
  BY <1>1, <1>2, GetterNext DEF Dropping
<1>4. QED
  BY <1>1, <1>2, <1>3 DEF Seats, Turn, Length

LEMMA DropStoreStep ==
  ASSUME Clean, NEW t \in Client, DropStore(t)
  PROVE  Seats' = Seats /\ Turn' = Turn /\ Verdict' = Verdict
<1> USE DEF Clean
<1>1. /\ pc[t] = "drop_store" /\ pc'[t] = "free_victim"
      /\ total_connections' = total_connections - 1
      /\ UNCHANGED <<connections, round_robin, getMutex>>
  BY DEF DropStore, At, Goto, array, mutexes, FreshInv, IndInv, TypeOK
<1>2. /\ getMutex = t /\ Cut /\ Gap = total_connections - 1
      /\ Verdict = "none"
  BY <1>1, GetterAt DEF Getting, Removing, Dropping
<1>3. ~Cut' /\ Verdict' = "none"
  BY <1>1, <1>2, GetterNext DEF Dropping
<1>4. Length = total_connections - 1 /\ Length' = Length
  BY <1>1, <1>2, <1>3 DEF Length
<1>5. total_connections \in Nat
  BY DEF IndInv, TypeOK
<1>6. \A k \in 1 .. Length : ~(k > Gap)
  BY <1>2, <1>4, <1>5
<1>7. QED
  BY <1>1, <1>2, <1>3, <1>4, <1>6 DEF Seats, Turn

LEMMA FreeVictimStep ==
  ASSUME Clean, NEW t \in Client, FreeVictim(t)
  PROVE  Seats' = Seats /\ Turn' = Turn /\ Verdict' = Verdict
<1> USE DEF Clean
<1>1. /\ pc[t] = "free_victim" /\ pc'[t] = "check_index"
      /\ UNCHANGED <<connections, total_connections, round_robin, getMutex>>
  BY DEF FreeVictim, At, Goto, array, mutexes, IndInv, TypeOK
<1>2. getMutex = t /\ ~Cut /\ Verdict = "none"
  BY <1>1, GetterAt DEF Getting, Removing, Dropping
<1>3. ~Cut' /\ Verdict' = "none"
  BY <1>1, <1>2, GetterNext DEF Dropping
<1>4. QED
  BY <1>1, <1>2, <1>3 DEF Seats, Turn, Length

-----------------------------------------------------------------------------
(* The ring is implemented. *)

\* Steps of a thread that is not in the dispatch's critical section and writes
\* neither the table nor the total.
LEMMA OtherStep ==
  ASSUME IndInv, NEW t \in Client, pc[t] \notin Getting,
         NEW l, pc' = [pc EXCEPT ![t] = l],
         \A u \in Client \ {t} : index'[u] = index[u],
         UNCHANGED <<connections, total_connections, round_robin, getMutex>>
  PROVE  Seats' = Seats /\ Turn' = Turn /\ Verdict' = Verdict
<1>1. getMutex # Null => getMutex \in Client \ {t}
  BY DEF IndInv, TypeOK, MutexInv
<1>2. getMutex # Null =>
        pc'[getMutex] = pc[getMutex] /\ index'[getMutex] = index[getMutex]
  BY <1>1 DEF IndInv, TypeOK
<1>3. QED
  BY <1>2, SameView

LEMMA StepLeavingRing ==
  ASSUME Clean, [Next]_vars, \A t \in Client : ~Grow(t)
  PROVE  [Leaving!Next]_(Leaving!vars)
<1> DEFINE Ended == {r \in Record : closed[r]}
<1>a. IndInv
  BY DEF Clean
<1>b. ASSUME Seats' = Seats, Turn' = Turn, Verdict' = Verdict,
             handed' = handed, closed' = closed
      PROVE  [Leaving!Next]_(Leaving!vars)
  BY <1>b DEF Leaving!vars
<1> USE DEF At, Goto, array, mutexes, heap, registers, ghosts
<1>1. CASE \E t \in Client : Connect(t)
  <2>1. PICK t \in Client : Connect(t)
    BY <1>1
  <2>2. Seats' = Seats /\ Turn' = Turn /\ Verdict' = Verdict
    BY <1>a, <2>1, OtherStep DEF Connect, Getting, Removing
  <2>3. PICK c \in Record : closed' = [closed EXCEPT ![c] = FALSE]
    BY <2>1 DEF Connect
  <2>4. Ended' = Ended \ {c}
    BY <1>a, <2>3 DEF IndInv, TypeOK
  <2>5. Leaving!Begin(c)
    BY <2>1, <2>2, <2>4 DEF Connect, Leaving!Begin
  <2>6. QED
    BY <2>5 DEF Leaving!Next
<1>2. CASE \E t \in Client : Leave(t)
  <2>1. PICK t \in Client : Leave(t)
    BY <1>2
  <2>2. Seats' = Seats /\ Turn' = Turn /\ Verdict' = Verdict
    BY <1>a, <2>1, OtherStep DEF Leave, Getting, Removing
  <2>3. PICK c \in Record : closed' = [closed EXCEPT ![c] = TRUE]
    BY <1>a, <2>1 DEF Leave, IndInv, RecordInv
  <2>4. Ended' = Ended \cup {c}
    BY <1>a, <2>3 DEF IndInv, TypeOK
  <2>5. Leaving!End(c)
    BY <2>1, <2>2, <2>4 DEF Leave, Leaving!End
  <2>6. QED
    BY <2>5 DEF Leaving!Next
<1>3. CASE \E t \in Client : Release(t) \/ Deliver(t)
  <2>1. PICK t \in Client : Release(t) \/ Deliver(t)
    BY <1>3
  <2>2. Seats' = Seats /\ Turn' = Turn /\ Verdict' = Verdict
    BY <1>a, <2>1, OtherStep DEF Release, Deliver, Getting, Removing
  <2>3. QED
    BY <1>b, <2>1, <2>2 DEF Release, Deliver
<1>4. CASE \E t \in Client : BeginPut(t)
  <2>1. PICK t \in Client : BeginPut(t)
    BY <1>4
  <2>2. Seats' = Seats /\ Turn' = Turn /\ Verdict' = Verdict
    BY <1>a, <2>1, OtherStep DEF BeginPut, Enlist, Getting, Removing
  <2>3. QED
    BY <1>b, <2>1, <2>2 DEF BeginPut, Enlist
<1>5. CASE \E t \in Client : LoadIndex(t) \/ LoadTotal(t)
  <2>1. PICK t \in Client : LoadIndex(t) \/ LoadTotal(t)
    BY <1>5
  <2>2. \A u \in Client \ {t} : index'[u] = index[u]
    BY <1>a, <2>1 DEF LoadIndex, LoadTotal, IndInv, TypeOK
  <2>3. Seats' = Seats /\ Turn' = Turn /\ Verdict' = Verdict
    BY <1>a, <2>1, <2>2, OtherStep DEF LoadIndex, LoadTotal, Getting, Removing
  <2>4. QED
    BY <1>b, <2>1, <2>3 DEF LoadIndex, LoadTotal
<1>6. CASE \E t \in Client : StoreSlot(t)
  BY <1>b, <1>6, StoreSlotStep DEF StoreSlot
<1>7. CASE \E t \in Client : StoreTotal(t)
  <2>1. PICK t \in Client : StoreTotal(t)
    BY <1>7
  <2>2. record[t] \in Record
    BY <1>a, <2>1 DEF StoreTotal, IndInv, RecordInv
  <2>3. QED
    BY <2>1, <2>2, StoreTotalStep DEF Leaving!Next
<1>8. CASE \E t \in Client : BeginGet(t)
  BY <1>b, <1>8, BeginGetStep DEF BeginGet
<1>9. CASE \E t \in Client : CheckIndex(t)
  BY <1>b, <1>9, CheckIndexStep DEF CheckIndex
<1>10. CASE \E t \in Client : CheckClosed(t) \/ Advance(t) \/ IsInner(t)
  BY <1>10, CheckClosedStep, AdvanceStep, IsInnerStep DEF Leaving!Next
<1>11. CASE \E t \in Client : Shift(t)
  BY <1>b, <1>11, ShiftStep DEF Shift
<1>12. CASE \E t \in Client : IsLast(t)
  BY <1>b, <1>12, IsLastStep DEF IsLast
<1>13. CASE \E t \in Client : DropLoad(t)
  BY <1>b, <1>13, DropLoadStep DEF DropLoad
<1>14. CASE \E t \in Client : DropStore(t)
  BY <1>b, <1>14, DropStoreStep DEF DropStore
<1>15. CASE \E t \in Client : FreeVictim(t)
  BY <1>b, <1>15, FreeVictimStep DEF FreeVictim
<1>16. CASE UNCHANGED vars \/ \E t \in Client : OutOfBounds(t) \/ DoubleFree(t)
  <2>1. UNCHANGED <<array, total_connections, round_robin, getMutex, pc, index,
                    handed, closed>>
    BY <1>16 DEF vars, OutOfBounds, DoubleFree, Fault
  <2>2. QED
    BY <1>b, <2>1, SameView
<1>17. QED
  BY <1>1, <1>2, <1>3, <1>4, <1>5, <1>6, <1>7, <1>8, <1>9, <1>10, <1>11,
     <1>12, <1>13, <1>14, <1>15, <1>16
  DEF Next, Quiescent, Put, Get, Remove

\* Queue.c:173-179,199-229.  Until the array grows and until a registration
\* overlaps the end of a removal, the queue is the ring of LeavingRing.
THEOREM ImplementsLeavingRing == Spec => LeavesCleanly
<1> DEFINE Inv == RaceInv /\ (~Grown /\ ~raced => FreshInv)
<1>1. Init => Leaving!Init /\ Inv
  <2> SUFFICES ASSUME Init PROVE Leaving!Init /\ Inv
    OBVIOUS
  <2>1. ~Cut /\ Verdict = "none"
    BY NoGetter DEF Init
  <2>2. Length = 0 /\ Turn = 1
    BY <2>1 DEF Init, Length, Turn
  <2>3. Seats = <<>>
    BY <2>2 DEF Seats
  <2>4. {r \in Record : closed[r]} = {}
    BY DEF Init
  <2>5. Inv
    BY DEF Init, RaceInv, Overlap, Storing, FreshInv
  <2>6. QED
    BY <2>1, <2>2, <2>3, <2>4, <2>5 DEF Init, Leaving!Init
<1>2. IndInv /\ Inv /\ [Next]_vars => Inv'
  <2> SUFFICES ASSUME IndInv, Inv, [Next]_vars PROVE Inv'
    OBVIOUS
  <2>1. RaceInv' /\ (~raced' => ~raced)
    BY RaceStep DEF IndInv
  <2>2. ~Grown' => ~Grown /\ \A t \in Client : ~Grow(t)
    BY GrownStep DEF IndInv
  <2>3. QED
    BY <2>1, <2>2, FreshStep
<1>3. /\ IndInv /\ Inv /\ [Next]_vars
      => (~Grown' /\ ~raced' => [Leaving!Next]_(Leaving!vars))
  <2> SUFFICES ASSUME IndInv, Inv, [Next]_vars, ~Grown', ~raced'
               PROVE  [Leaving!Next]_(Leaving!vars)
    OBVIOUS
  <2>1. ~raced
    BY RaceStep DEF IndInv
  <2>2. ~Grown /\ \A t \in Client : ~Grow(t)
    BY GrownStep DEF IndInv
  <2>3. Clean
    BY <2>1, <2>2 DEF Clean, RaceInv
  <2>4. QED
    BY <2>2, <2>3, StepLeavingRing
<1> HIDE DEF Inv
<1>4. QED
  BY <1>1, <1>2, <1>3, InitIndInv, StepIndInv, PTL DEF Spec, LeavesCleanly

-----------------------------------------------------------------------------
(* A dispatch goes round no entry twice. *)

\* The loop that pulls the others down does not run past the total.
LoopInv == \A t \in Client : pc[t] = "shift" => index[t] <= total_connections

LEMMA GetByGetter ==
  ASSUME NEW t \in Client, Get(t)
  PROVE  pc[t] \in Getting
BY DEF Get, Remove, CheckIndex, CheckClosed, Advance, Rotate, IsInner, PullDown,
       Shift, IsLast, DropLoad, DropStore, FreeVictim, At, Getting, Removing

\* A registration that completes raises the total.
LEMMA StoreRaises ==
  ASSUME TypeOK, PutInv, NEW u \in Client, StoreTotal(u)
  PROVE  /\ total_connections' > total_connections /\ index' = index
         /\ pc[u] = "store_total" /\ pc' = [pc EXCEPT ![u] = "idle"]
BY DEF TypeOK, PutInv, StoreTotal, At, Goto, registers

\* What a step is to a dispatch under way: its own, a registration that
\* completes, or nothing.
LEMMA DispatchKinds ==
  ASSUME TypeOK, MutexInv, [Next]_vars, NEW t \in Client, pc[t] \in Getting
  PROVE  \/ Get(t)
         \/ \E u \in Client : StoreTotal(u)
         \/ /\ pc'[t] = pc[t] /\ index'[t] = index[t]
            /\ total_connections' = total_connections
<1> USE DEF TypeOK, vars, array, registers, At, Goto, Getting, Removing
<1>0. CASE UNCHANGED vars
  BY <1>0
<1>1. CASE \E u \in Client : Connect(u) \/ Leave(u) \/ Release(u) \/ Deliver(u)
  BY <1>1 DEF Connect, Leave, Release, Deliver
<1>2. CASE \E u \in Client : BeginPut(u) \/ BeginGet(u)
  BY <1>2 DEF BeginPut, Enlist, BeginGet
<1>3. CASE \E u \in Client : Grow(u) \/ LoadIndex(u) \/ StoreSlot(u) \/ LoadTotal(u)
  BY <1>3 DEF Grow, LoadIndex, StoreSlot, LoadTotal
<1>4. CASE \E u \in Client : OutOfBounds(u) \/ DoubleFree(u)
  BY <1>4 DEF OutOfBounds, DoubleFree, Fault
<1>5. CASE \E u \in Client : Get(u)
  BY <1>5, GetByGetter DEF MutexInv
<1>6. QED
  BY <1>0, <1>1, <1>2, <1>3, <1>4, <1>5 DEF Next, Quiescent, Put

\* A removal is entered from within a dispatch.
LEMMA LoopEntered ==
  ASSUME TypeOK, [Next]_vars, NEW t \in Client, pc'[t] = "shift"
  PROVE  pc[t] \in Getting
<1> USE DEF TypeOK, vars, At, Goto, Getting, Removing
<1>0. CASE UNCHANGED vars
  BY <1>0
<1>1. CASE \E u \in Client : Connect(u) \/ Leave(u) \/ Release(u) \/ Deliver(u)
  BY <1>1 DEF Connect, Leave, Release, Deliver
<1>2. CASE \E u \in Client : BeginPut(u) \/ BeginGet(u)
  BY <1>2 DEF BeginPut, Enlist, BeginGet
<1>3. CASE \E u \in Client : Put(u)
  BY <1>3 DEF Put, Grow, LoadIndex, StoreSlot, LoadTotal, StoreTotal
<1>4. CASE \E u \in Client : OutOfBounds(u) \/ DoubleFree(u)
  BY <1>4 DEF OutOfBounds, DoubleFree, Fault
<1>5. CASE \E u \in Client : CheckIndex(u) \/ CheckClosed(u) \/ Advance(u)
  BY <1>5 DEF CheckIndex, CheckClosed, Advance, Rotate
<1>6. CASE \E u \in Client : Remove(u)
  <2>1. PICK u \in Client : Remove(u)
    BY <1>6
  <2>2. CASE u = t
    BY <2>1, <2>2, GetByGetter DEF Get
  <2>3. CASE u # t
    BY <2>1, <2>3 DEF Remove, IsInner, PullDown, Shift, IsLast, DropLoad,
                      DropStore, FreeVictim
  <2>4. QED
    BY <2>2, <2>3
<1>7. QED
  BY <1>0, <1>1, <1>2, <1>3, <1>4, <1>5, <1>6 DEF Next, Quiescent, Get

LEMMA LoopStep ==
  ASSUME TypeOK, MutexInv, PutInv, LoopInv, [Next]_vars
  PROVE  LoopInv'
<1> SUFFICES ASSUME NEW t \in Client, pc'[t] = "shift"
             PROVE  index'[t] <= total_connections'
  BY DEF LoopInv
<1> USE DEF TypeOK, At, Goto, registers
<1>1. CASE \E u \in Client : StoreTotal(u)
  <2>1. PICK u \in Client : StoreTotal(u)
    BY <1>1
  <2>2. pc[t] = "shift"
    BY <2>1, StoreRaises
  <2>3. index[t] <= total_connections /\ index[t] \in Nat
    BY <2>2 DEF LoopInv
  <2>4. total_connections' \in Nat
    BY <2>1 DEF StoreTotal
  <2>5. QED
    BY <2>1, <2>3, <2>4, StoreRaises, SMTT(30)
<1>2. CASE Get(t)
  <2>1. CASE IsInner(t)
    BY <2>1 DEF IsInner, PullDown
  <2>2. CASE Shift(t)
    BY <2>2 DEF Shift
  <2>3. CASE CheckIndex(t) \/ CheckClosed(t) \/ Advance(t)
    BY <2>3 DEF CheckIndex, CheckClosed, Advance, Rotate
  <2>4. CASE IsLast(t) \/ DropLoad(t) \/ DropStore(t) \/ FreeVictim(t)
    BY <2>4 DEF IsLast, DropLoad, DropStore, FreeVictim
  <2>5. QED
    BY <1>2, <2>1, <2>2, <2>3, <2>4 DEF Get, Remove
<1>3. CASE /\ pc'[t] = pc[t] /\ index'[t] = index[t]
           /\ total_connections' = total_connections
  BY <1>3 DEF LoopInv
<1>4. QED
  BY <1>1, <1>2, <1>3, LoopEntered, DispatchKinds

Stage(t) == StagesAhead(total_connections, index[t])[pc[t]]

LEMMA StagesListed ==
  ASSUME NEW entries, NEW n
  PROVE  /\ StagesAhead(entries, n)["advance"] = 0
         /\ StagesAhead(entries, n)["drop_store"] = 1
         /\ StagesAhead(entries, n)["drop_load"] = 2
         /\ StagesAhead(entries, n)["is_last"] = 3
         /\ StagesAhead(entries, n)["shift"] = entries - n + 4
         /\ StagesAhead(entries, n)["is_inner"] = entries + 4
         /\ StagesAhead(entries, n)["check_closed"] = entries + 5
         /\ StagesAhead(entries, n)["check_index"] = entries + 6
         /\ StagesAhead(entries, n)["free_victim"] = entries + 7
BY DEF StagesAhead

LEMMA StageNow ==
  ASSUME NEW t \in Client
  PROVE  /\ pc[t] = "advance" => Stage(t) = 0
         /\ pc[t] = "drop_store" => Stage(t) = 1
         /\ pc[t] = "drop_load" => Stage(t) = 2
         /\ pc[t] = "is_last" => Stage(t) = 3
         /\ pc[t] = "shift" => Stage(t) = total_connections - index[t] + 4
         /\ pc[t] = "is_inner" => Stage(t) = total_connections + 4
         /\ pc[t] = "check_closed" => Stage(t) = total_connections + 5
         /\ pc[t] = "check_index" => Stage(t) = total_connections + 6
         /\ pc[t] = "free_victim" => Stage(t) = total_connections + 7
BY StagesListed DEF Stage

LEMMA StageNext ==
  ASSUME NEW t \in Client
  PROVE  /\ pc'[t] = "advance" => Stage(t)' = 0
         /\ pc'[t] = "drop_store" => Stage(t)' = 1
         /\ pc'[t] = "drop_load" => Stage(t)' = 2
         /\ pc'[t] = "is_last" => Stage(t)' = 3
         /\ pc'[t] = "shift" => Stage(t)' = total_connections' - index'[t] + 4
         /\ pc'[t] = "is_inner" => Stage(t)' = total_connections' + 4
         /\ pc'[t] = "check_closed" => Stage(t)' = total_connections' + 5
         /\ pc'[t] = "check_index" => Stage(t)' = total_connections' + 6
         /\ pc'[t] = "free_victim" => Stage(t)' = total_connections' + 7
BY StagesListed DEF Stage

LEMMA StageStep ==
  ASSUME TypeOK, PutInv, GetInv, LoopInv, NEW t \in Client, Get(t),
         pc'[t] \in Getting
  PROVE  \/ /\ total_connections' = total_connections
            /\ Stage(t)' \in 0 .. Stage(t) - 1 /\ Stage(t) \in Nat
         \/ /\ total_connections' \in Nat
            /\ total_connections' < total_connections
            /\ Stage(t)' = total_connections' + 7 /\ Stage(t) = 1
<1> USE StageNow, StageNext
    DEF TypeOK, At, Goto, registers, Getting, Removing
<1>1. CASE CheckIndex(t)
  BY <1>1, SMTT(30) DEF CheckIndex
<1>2. CASE CheckClosed(t)
  BY <1>2 DEF CheckClosed
<1>3. CASE Advance(t)
  BY <1>3 DEF Advance, Rotate
<1>4. CASE IsInner(t)
  BY <1>4 DEF IsInner, PullDown
<1>5. CASE Shift(t)
  BY <1>5, SMTT(30) DEF Shift, LoopInv
<1>6. CASE IsLast(t) \/ DropLoad(t)
  BY <1>6, SMTT(30) DEF IsLast, DropLoad
<1>7. CASE DropStore(t)
  BY <1>7 DEF DropStore, GetInv
<1>8. CASE FreeVictim(t)
  BY <1>8 DEF FreeVictim
<1>9. QED
  BY <1>1, <1>2, <1>3, <1>4, <1>5, <1>6, <1>7, <1>8 DEF Get, Remove

\* One entry less outweighs the way back to the first stage.
LEMMA FewerEntries ==
  ASSUME NEW a \in Nat, NEW b \in Nat, a < b
  PROVE  /\ a * (a + 8) \in Nat /\ b * (b + 8) \in Nat
         /\ a * (a + 8) + a + 7 < b * (b + 8) + 1
<1>1. (a + 1) * (a + 9) = a * (a + 8) + 2 * a + 9
  OBVIOUS
<1>2. (a + 1) * (a + 9) <= b * (a + 9) /\ b * (a + 9) <= b * (b + 8)
  OBVIOUS
<1>3. a * (a + 8) \in Nat /\ b * (b + 8) \in Nat /\ b * (a + 9) \in Nat
  OBVIOUS
<1>4. QED
  BY <1>1, <1>2, <1>3

\* Queue.c:199-229.  However registrations and removals interleave, each step of
\* a dispatch brings it nearer to its end, which only a registration that
\* completes can put off.
THEOREM DispatchesAdvance == Spec => DispatchAdvances
<1>1. Init => LoopInv
  BY DEF Init, LoopInv
<1>2. IndInv /\ LoopInv /\ [Next]_vars => LoopInv'
  BY LoopStep DEF IndInv
<1>3. IndInv /\ LoopInv /\ [Next]_vars =>
        \A t \in Client : pc[t] \in Getting /\ pc'[t] \in Getting =>
          \/ pc'[t] = pc[t] /\ index'[t] = index[t]
             /\ total_connections' = total_connections
          \/ StepsAhead(t)' \in 0 .. StepsAhead(t) - 1
          \/ \E u \in Client : pc[u] = "store_total" /\ pc'[u] = "idle"
  <2> SUFFICES ASSUME IndInv, LoopInv, [Next]_vars, NEW t \in Client,
                      pc[t] \in Getting, pc'[t] \in Getting
               PROVE  \/ pc'[t] = pc[t] /\ index'[t] = index[t]
                         /\ total_connections' = total_connections
                      \/ StepsAhead(t)' \in 0 .. StepsAhead(t) - 1
                      \/ \E u \in Client : pc[u] = "store_total" /\ pc'[u] = "idle"
    OBVIOUS
  <2>a. TypeOK /\ MutexInv /\ PutInv /\ GetInv
    BY DEF IndInv
  <2>b. total_connections \in Nat
    BY <2>a DEF TypeOK
  <2>1. CASE Get(t)
    <3>1. CASE /\ total_connections' = total_connections
               /\ Stage(t)' \in 0 .. Stage(t) - 1 /\ Stage(t) \in Nat
      <4>1. total_connections * (total_connections + 8) \in Nat
        BY <2>b
      <4>2. QED
        BY <3>1, <4>1 DEF StepsAhead, Stage
    <3>2. CASE /\ total_connections' \in Nat
               /\ total_connections' < total_connections
               /\ Stage(t)' = total_connections' + 7 /\ Stage(t) = 1
      <4>1. PICK a \in Nat, b \in Nat :
              a = total_connections' /\ b = total_connections
        BY <2>b, <3>2
      <4>2. StepsAhead(t)' = a * (a + 8) + a + 7 /\ StepsAhead(t) = b * (b + 8) + 1
        BY <3>2, <4>1 DEF StepsAhead, Stage
      <4>3. /\ a * (a + 8) \in Nat /\ b * (b + 8) \in Nat
            /\ a * (a + 8) + a + 7 < b * (b + 8) + 1
        BY <3>2, <4>1, FewerEntries
      <4>4. PICK m \in Nat, n \in Nat : m = a * (a + 8) /\ n = b * (b + 8)
        BY <4>3
      <4>5. StepsAhead(t)' = m + a + 7 /\ StepsAhead(t) = n + 1 /\ m + a + 7 < n + 1
        BY <4>2, <4>3, <4>4
      <4>6. QED
        BY <4>5
    <3>3. QED
      BY <2>1, <2>a, <3>1, <3>2, StageStep
  <2>2. CASE \E u \in Client : StoreTotal(u)
    <3>1. PICK u \in Client : StoreTotal(u)
      BY <2>2
    <3>2. pc[u] = "store_total" /\ pc'[u] = "idle"
      BY <2>a, <3>1, StoreRaises DEF TypeOK
    <3>3. QED
      BY <3>2
  <2>3. QED
    BY <2>1, <2>2, <2>a, DispatchKinds
<1>4. QED
  BY <1>1, <1>2, <1>3, Invariance, PTL DEF Spec, DispatchAdvances
=============================================================================
