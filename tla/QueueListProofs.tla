-------------------------- MODULE QueueListProofs --------------------------
(***************************************************************************)
(* Proofs about QueueList, for every number of clients and names, every    *)
(* size of the list and every bound.                                       *)
(***************************************************************************)
EXTENDS QueueList, TLAPS

-----------------------------------------------------------------------------
(* The inductive invariant. *)

\* A thread is between lock and unlock iff the mutex names it.
MutexInv == \A t \in Client : pc[t] \in Declaring <=> declareMutex = t

\* A declaration has seen that its name is new before it adds it, and there
\* is room for it.
SizeInv ==
  /\ max_queues = 0 => capacity = 0 /\ total_queues = 0
  /\ max_queues # 0 => max_queues >= INITIAL_MAX_CONNECTIONS_QUEUES
  /\ total_queues <= max_queues
  /\ \A t \in Client :
       /\ pc[t] \in Declaring => max_queues # 0 /\ queue_name[t] \in Name
       /\ pc[t] \in {"store_entry", "store_total"} => total_queues < max_queues

\* The names in the table.
Entries == {list[n] : n \in 0 .. total_queues - 1}

\* Until the list grows: what the table looks like ...
TableInv ==
  /\ capacity = max_queues /\ fault = "none"
  /\ Entries \subseteq Name /\ acked \subseteq Entries
  /\ \A m, n \in 0 .. total_queues - 1 : list[m] = list[n] => m = n

\* ... and what the declaration under way knows of it.
AdderInv ==
  \A t \in Client :
    /\ pc[t] \in {"grow", "store_entry", "store_total"} =>
         queue_name[t] \notin Entries
    /\ pc[t] = "store_total" => list[total_queues] = queue_name[t]
    /\ pc[t] = "reply" => queue_name[t] \in Entries

\* Until the list grows: a lookup has not yet passed a name that was
\* acknowledged before it began.
WalkInv ==
  /\ block = 0
  /\ \A t \in Client :
       /\ base[t] = 0
       /\ pc[t] \in {"load_list", "load_entry"} => i[t] < total_queues
       /\ pc[t] \in Walking /\ queue_name[t] \in known[t] =>
            \E n \in i[t] .. total_queues - 1 : list[n] = queue_name[t]
       /\ pc[t] = "missing" => queue_name[t] \notin known[t]

IndInv ==
  /\ TypeOK /\ MutexInv /\ SizeInv
  /\ (~Grown => TableInv /\ AdderInv /\ WalkInv)

-----------------------------------------------------------------------------
(* Every step keeps each part of the invariant. *)

LEMMA QuotientInNat ==
  ASSUME NEW a \in Nat, NEW b \in Nat \ {0}
  PROVE  a \div b \in Nat
  OBVIOUS

LEMMA TypeStep ==
  ASSUME TypeOK, SizeInv, [Next]_vars
  PROVE  TypeOK'
<1> USE ClientAssumption, SizeAssumption
    DEF TypeOK, vars, table, walk, At, Goto, Call, Labels, Declaring, Walking,
        Answers
<1>0. CASE UNCHANGED vars
  BY <1>0
<1>1. CASE \E t \in Client, n \in Name : Declare(t, n)
  BY <1>1, SMTT(30) DEF Declare, Enter, AfterScan, InitList
<1>2. CASE \E t \in Client, n \in Name : LookUp(t, n)
  BY <1>2 DEF LookUp
<1>3. CASE \E t \in Client : Grow(t)
  <2>1. PICK t \in Client : Grow(t)
    BY <1>3
  <2>2. (2 * max_queues) \div POINTER_SIZE \in Nat
    <3>1. 2 * max_queues \in Nat
      OBVIOUS
    <3>2. QED
      BY <3>1, QuotientInNat
  <2>3. /\ capacity' \in Nat
        /\ list' \in [0 .. capacity' - 1 -> Name \cup {Null}]
    BY <2>1, <2>2 DEF Grow
  <2>4. max_queues' \in Nat /\ block' \in Nat
    BY <2>1 DEF Grow
  <2>5. QED
    BY <2>1, <2>3, <2>4 DEF Grow
<1>4. CASE \E t \in Client : StoreEntry(t)
  BY <1>4 DEF StoreEntry, SizeInv
<1>5. CASE \E t \in Client : StoreTotal(t)
  BY <1>5 DEF StoreTotal
<1>6. CASE \E t \in Client : Reply(t)
  BY <1>6 DEF Reply, SizeInv
<1>7. CASE \E t \in Client : LoadTotal(t)
  <2>1. PICK t \in Client : LoadTotal(t)
    BY <1>7
  <2>2. pc' \in [Client -> Labels]
    BY <2>1 DEF LoadTotal
  <2>3. QED
    BY <2>1, <2>2 DEF LoadTotal
<1>8. CASE \E t \in Client : LoadList(t)
  <2>1. PICK t \in Client : LoadList(t)
    BY <1>8
  <2>2. pc' \in [Client -> Labels] /\ base' \in [Client -> Nat]
    BY <2>1 DEF LoadList
  <2>3. QED
    BY <2>1, <2>2 DEF LoadList
<1>9. CASE \E t \in Client : LoadEntry(t)
  <2>1. PICK t \in Client : LoadEntry(t)
    BY <1>9
  <2>2. \/ pc' = [pc EXCEPT ![t] = "found"] /\ i' = i
        \/ pc' = [pc EXCEPT ![t] = "load_total"] /\ i' = [i EXCEPT ![t] = @ + 1]
    BY <2>1 DEF LoadEntry, Compare
  <2>3. pc' \in [Client -> Labels]
    BY <2>2
  <2>4. i' \in [Client -> Nat]
    <3>1. i[t] + 1 \in Nat
      OBVIOUS
    <3>2. i' = i \/ i' = [i EXCEPT ![t] = i[t] + 1]
      BY <2>2
    <3>3. QED
      BY <3>1, <3>2
  <2>5. QED
    BY <2>1, <2>3, <2>4 DEF LoadEntry, Compare
<1>10. CASE \E t \in Client : Outside(t)
  BY <1>10 DEF Outside
<1>11. QED
  BY <1>0, <1>1, <1>2, <1>3, <1>4, <1>5, <1>6, <1>7, <1>8, <1>9, <1>10
  DEF Next, Quiescent, Add, Walk

LEMMA MutexStep ==
  ASSUME TypeOK, MutexInv, [Next]_vars
  PROVE  MutexInv'
<1> USE ClientAssumption
    DEF TypeOK, MutexInv, vars, table, walk, At, Goto, Call, Labels, Declaring,
        Walking, Answers
<1>0. CASE UNCHANGED vars
  BY <1>0
<1>1. CASE \E t \in Client, n \in Name : Declare(t, n)
  BY <1>1 DEF Declare, Enter, AfterScan
<1>2. CASE \E t \in Client, n \in Name : LookUp(t, n)
  BY <1>2 DEF LookUp
<1>3. CASE \E t \in Client : Add(t)
  BY <1>3 DEF Add, Grow, StoreEntry, StoreTotal
<1>4. CASE \E t \in Client : Reply(t)
  BY <1>4 DEF Reply
<1>5. CASE \E t \in Client : Walk(t)
  BY <1>5 DEF Walk, LoadTotal, LoadList, LoadEntry, Compare
<1>6. CASE \E t \in Client : Outside(t)
  BY <1>6 DEF Outside
<1>7. QED
  BY <1>0, <1>1, <1>2, <1>3, <1>4, <1>5, <1>6 DEF Next, Quiescent

LEMMA SizeStep ==
  ASSUME TypeOK, MutexInv, SizeInv, [Next]_vars
  PROVE  SizeInv'
<1> USE ClientAssumption, SizeAssumption
    DEF TypeOK, MutexInv, SizeInv, vars, table, walk, At, Goto, Call, Labels,
        Declaring, Walking, Answers
<1>0. CASE UNCHANGED vars
  BY <1>0
<1>1. CASE \E t \in Client, n \in Name : Declare(t, n)
  BY <1>1, SMTT(30) DEF Declare, Enter, AfterScan, InitList
<1>2. CASE \E t \in Client, n \in Name : LookUp(t, n)
  BY <1>2 DEF LookUp
<1>3. CASE \E t \in Client : Grow(t)
  BY <1>3 DEF Grow
<1>4. CASE \E t \in Client : StoreEntry(t)
  BY <1>4 DEF StoreEntry
<1>5. CASE \E t \in Client : StoreTotal(t)
  BY <1>5 DEF StoreTotal
<1>6. CASE \E t \in Client : Reply(t)
  BY <1>6 DEF Reply
<1>7. CASE \E t \in Client : Walk(t)
  BY <1>7 DEF Walk, LoadTotal, LoadList, LoadEntry, Compare
<1>8. CASE \E t \in Client : Outside(t)
  BY <1>8 DEF Outside
<1>9. QED
  BY <1>0, <1>1, <1>2, <1>3, <1>4, <1>5, <1>6, <1>7, <1>8
  DEF Next, Quiescent, Add

\* A list that has grown stays so: a step that ends in a list of the first
\* size began with one, or allocated it.
LEMMA GrowGrows ==
  ASSUME TypeOK, SizeInv, NEW t \in Client, Grow(t)
  PROVE  Grown'
BY SizeAssumption DEF Grow, Grown, TypeOK, SizeInv, At, Declaring

LEMMA GrownStep ==
  ASSUME TypeOK, SizeInv, [Next]_vars
  PROVE  /\ Grown => Grown'
         /\ ~Grown' => \A t \in Client : ~Grow(t)
<1> USE SizeAssumption DEF table
<1>0. CASE UNCHANGED vars
  <2>1. Grown' <=> Grown
    BY <1>0 DEF vars, Grown
  <2>2. QED
    BY <2>1, GrowGrows
<1>1. CASE \E t \in Client : Grow(t)
  BY <1>1, GrowGrows
<1>2. CASE \E t \in Client, n \in Name : Declare(t, n)
  <2>1. max_queues' = max_queues \/ max_queues = 0
    BY <1>2 DEF Declare, Enter, InitList
  <2>2. Grown => Grown'
    BY <2>1 DEF Grown
  <2>3. QED
    BY <2>2, GrowGrows
<1>3. CASE \/ \E t \in Client, n \in Name : LookUp(t, n)
           \/ \E t \in Client :
                \/ StoreEntry(t) \/ StoreTotal(t) \/ Reply(t)
                \/ Walk(t) \/ Outside(t)
  <2>1. max_queues' = max_queues
    BY <1>3 DEF LookUp, StoreEntry, StoreTotal, Reply, Walk, LoadTotal,
                LoadList, LoadEntry, Compare, Outside
  <2>2. Grown' <=> Grown
    BY <2>1 DEF Grown
  <2>3. QED
    BY <2>2, GrowGrows
<1>4. QED
  BY <1>0, <1>1, <1>2, <1>3 DEF Next, Quiescent, Add

LEMMA EntriesStep ==
  ASSUME TypeOK, SizeInv, capacity = max_queues, [Next]_vars,
         \A t \in Client : ~Grow(t)
  PROVE  \/ Entries' = Entries /\ total_queues' = total_queues
            /\ \A n \in 0 .. total_queues - 1 : list'[n] = list[n]
         \/ \E t \in Client : StoreTotal(t)
<1> SUFFICES ASSUME \A t \in Client : ~StoreTotal(t)
             PROVE  /\ total_queues' = total_queues
                    /\ \A n \in 0 .. total_queues - 1 : list'[n] = list[n]
  BY DEF Entries
<1> USE DEF TypeOK, SizeInv, vars, table, walk, At, Call
<1>0. CASE UNCHANGED vars
  BY <1>0
<1>1. CASE \E t \in Client, n \in Name : Declare(t, n)
  BY <1>1 DEF Declare, Enter, InitList
<1>2. CASE \E t \in Client, n \in Name : LookUp(t, n)
  BY <1>2 DEF LookUp
<1>3. CASE \E t \in Client : StoreEntry(t)
  BY <1>3 DEF StoreEntry
<1>4. CASE \E t \in Client : Reply(t)
  BY <1>4 DEF Reply
<1>5. CASE \E t \in Client : Walk(t)
  BY <1>5 DEF Walk, LoadTotal, LoadList, LoadEntry, Compare
<1>6. CASE \E t \in Client : Outside(t)
  BY <1>6 DEF Outside
<1>7. QED
  BY <1>0, <1>1, <1>2, <1>3, <1>4, <1>5, <1>6 DEF Next, Quiescent, Add

LEMMA TableStep ==
  ASSUME TypeOK, MutexInv, SizeInv, TableInv, AdderInv, WalkInv, [Next]_vars,
         \A t \in Client : ~Grow(t)
  PROVE  TableInv'
<1>1. capacity' = max_queues' /\ fault' = "none"
  <2> USE DEF TypeOK, SizeInv, TableInv, vars, table, walk, At, Call, Declaring
  <2>1. CASE \E t \in Client, n \in Name : Declare(t, n) \/ LookUp(t, n)
    BY <2>1 DEF Declare, Enter, InitList, LookUp
  <2>2. CASE \E t \in Client : StoreEntry(t) \/ StoreTotal(t) \/ Reply(t)
    BY <2>2 DEF StoreEntry, StoreTotal, Reply
  <2>3. CASE \E t \in Client : Walk(t)
    BY <2>3 DEF Walk, LoadTotal, LoadList, LoadEntry, Compare
  <2>4. CASE \E t \in Client : Outside(t)
    <3>1. \A n \in 0 .. total_queues - 1 : list[n] # Null
      BY ClientAssumption DEF Entries
    <3>2. QED
      BY <2>4, <3>1 DEF Outside, Readable, WalkInv
  <2>5. QED
    BY <2>1, <2>2, <2>3, <2>4 DEF Next, Quiescent, Add
<1>2. CASE \E t \in Client : StoreTotal(t)
  <2>1. PICK t \in Client : StoreTotal(t)
    BY <1>2
  <2>2. /\ total_queues' = total_queues + 1 /\ list' = list /\ acked' = acked
        /\ list[total_queues] \in Name /\ list[total_queues] \notin Entries
    BY <2>1 DEF StoreTotal, AdderInv, SizeInv, At, Declaring, table
  <2>3. Entries' = Entries \cup {list[total_queues]}
    BY <2>2, SMTT(30) DEF Entries, TypeOK
  <2>4. \A m, n \in 0 .. total_queues : list[m] = list[n] => m = n
    <3>1. \A n \in 0 .. total_queues - 1 : list[n] # list[total_queues]
      BY <2>2 DEF Entries
    <3>2. 0 .. total_queues = (0 .. total_queues - 1) \cup {total_queues}
      BY DEF TypeOK
    <3>3. QED
      BY <3>1, <3>2 DEF TableInv
  <2>5. QED
    BY <1>1, <2>2, <2>3, <2>4 DEF TableInv, TypeOK
<1>3. CASE \A t \in Client : ~StoreTotal(t)
  <2>1. /\ Entries' = Entries /\ total_queues' = total_queues
        /\ \A n \in 0 .. total_queues - 1 : list'[n] = list[n]
    BY <1>3, EntriesStep DEF TableInv
  <2>2. acked' \subseteq Entries
    <3> USE DEF TableInv, vars
    <3>1. CASE \E t \in Client : Reply(t)
      BY <3>1 DEF Reply, AdderInv, At
    <3>2. CASE \E t \in Client, n \in Name : Declare(t, n) \/ LookUp(t, n)
      BY <3>2 DEF Declare, Enter, LookUp
    <3>3. CASE \E t \in Client : StoreEntry(t) \/ Walk(t) \/ Outside(t)
      BY <3>3 DEF StoreEntry, Walk, LoadTotal, LoadList, LoadEntry, Compare,
                  Outside
    <3>4. QED
      BY <1>3, <3>1, <3>2, <3>3 DEF Next, Quiescent, Add
  <2>3. QED
    BY <1>1, <2>1, <2>2 DEF TableInv
<1>4. QED
  BY <1>2, <1>3

\* What a declaration finds out by its search.
LEMMA SearchResult ==
  ASSUME NEW n
  PROVE  \/ AfterScan(n) \in {"grow", "store_entry"} /\ ~Listed(n)
         \/ AfterScan(n) = "reply" /\ Listed(n)
BY DEF AfterScan

LEMMA AdderStep ==
  ASSUME TypeOK, MutexInv, SizeInv, TableInv, AdderInv, [Next]_vars,
         \A t \in Client : ~Grow(t)
  PROVE  AdderInv'
<1> USE ClientAssumption
    DEF TypeOK, MutexInv, AdderInv, vars, table, walk, At, Goto, Call,
        Declaring, Walking, Answers
<1>1. CASE \E t \in Client : StoreTotal(t)
  <2>1. PICK t \in Client : StoreTotal(t)
    BY <1>1
  <2>2. list[total_queues] \in Entries'
    BY <2>1 DEF StoreTotal, Entries
  <2>3. QED
    BY <2>1, <2>2 DEF StoreTotal
<1>2. CASE \A t \in Client : ~StoreTotal(t)
  <2>1. Entries' = Entries /\ total_queues' = total_queues
    BY <1>2, EntriesStep DEF TableInv
  <2>2. CASE UNCHANGED vars
    BY <2>1, <2>2
  <2>3. CASE \E t \in Client, n \in Name : Declare(t, n)
    <3>1. PICK t \in Client, n \in Name : Declare(t, n)
      BY <2>3
    <3>2. Listed(n) <=> n \in Entries
      BY DEF Listed, Entries, TableInv, SizeInv
    <3>3. /\ queue_name' = [queue_name EXCEPT ![t] = n]
          /\ pc' = [pc EXCEPT ![t] = AfterScan(n)]
          /\ declareMutex = Null
      BY <3>1 DEF Declare, Enter
    <3>4. \/ AfterScan(n) \in {"grow", "store_entry"} /\ n \notin Entries
          \/ AfterScan(n) = "reply" /\ n \in Entries
      BY <3>2, SearchResult
    <3>5. QED
      BY <2>1, <3>3, <3>4
  <2>4. CASE \E t \in Client, n \in Name : LookUp(t, n)
    BY <2>1, <2>4 DEF LookUp
  <2>5. CASE \E t \in Client : StoreEntry(t)
    BY <2>1, <2>5 DEF StoreEntry
  <2>6. CASE \E t \in Client : Reply(t)
    BY <2>1, <2>6 DEF Reply
  <2>7. CASE \E t \in Client : Walk(t) \/ Outside(t)
    BY <2>1, <2>7 DEF Walk, LoadTotal, LoadList, LoadEntry, Compare, Outside
  <2>8. QED
    BY <1>2, <2>2, <2>3, <2>4, <2>5, <2>6, <2>7 DEF Next, Quiescent, Add
<1>3. QED
  BY <1>1, <1>2

LEMMA WalkStep ==
  ASSUME TypeOK, MutexInv, SizeInv, TableInv, WalkInv, [Next]_vars,
         \A t \in Client : ~Grow(t)
  PROVE  WalkInv'
<1> USE ClientAssumption
    DEF TypeOK, SizeInv, WalkInv, vars, table, walk, At, Goto, Call, Walking,
        Declaring, Answers
<1>0. CASE UNCHANGED vars
  BY <1>0
<1>1. CASE \E t \in Client, n \in Name : Declare(t, n)
  BY <1>1, SMTT(30) DEF Declare, Enter, AfterScan, InitList
<1>2. CASE \E t \in Client, n \in Name : LookUp(t, n)
  <2>1. PICK t \in Client, n \in Name : LookUp(t, n)
    BY <1>2
  <2>2. n \in acked => \E m \in 0 .. total_queues - 1 : list[m] = n
    BY DEF TableInv, Entries
  <2>3. QED
    BY <2>1, <2>2, SMTT(30) DEF LookUp
<1>3. CASE \E t \in Client : StoreEntry(t)
  BY <1>3, SMTT(30) DEF StoreEntry
<1>4. CASE \E t \in Client : StoreTotal(t)
  BY <1>4, SMTT(30) DEF StoreTotal
<1>5. CASE \E t \in Client : Reply(t)
  BY <1>5 DEF Reply
<1>6. CASE \E t \in Client : LoadTotal(t)
  BY <1>6 DEF LoadTotal
<1>7. CASE \E t \in Client : LoadList(t)
  BY <1>7 DEF LoadList
<1>8. CASE \E t \in Client : LoadEntry(t)
  BY <1>8, SMTT(30) DEF LoadEntry, Compare
<1>9. CASE \E t \in Client : Outside(t)
  BY <1>9 DEF Outside
<1>10. QED
  BY <1>0, <1>1, <1>2, <1>3, <1>4, <1>5, <1>6, <1>7, <1>8, <1>9
  DEF Next, Quiescent, Add, Walk

-----------------------------------------------------------------------------
(* The invariant is inductive, and what follows from it. *)

LEMMA InitIndInv == Init => IndInv
<1> SUFFICES ASSUME Init PROVE IndInv
  OBVIOUS
<1> USE ClientAssumption, SizeAssumption DEF Init
<1>1. TypeOK
  BY DEF TypeOK, Labels
<1>2. MutexInv /\ SizeInv
  BY DEF MutexInv, SizeInv, Declaring
<1>3. TableInv /\ AdderInv /\ WalkInv
  BY DEF TableInv, Entries, AdderInv, WalkInv, Walking
<1>4. QED
  BY <1>1, <1>2, <1>3 DEF IndInv

LEMMA StepIndInv == IndInv /\ [Next]_vars => IndInv'
BY TypeStep, MutexStep, SizeStep, GrownStep, TableStep, AdderStep,
   WalkStep DEF IndInv

\* The invariant holds in every reachable state.
THEOREM Invariance == Spec => []IndInv
BY InitIndInv, StepIndInv, PTL DEF Spec

\* Every variable keeps its type.
THEOREM TypeCorrect == Spec => []TypeOK
<1>1. IndInv => TypeOK
  BY DEF IndInv
<1>2. QED
  BY <1>1, Invariance, PTL

\* Overlapping declarations of one name leave one queue (Queue.c:150-163).
THEOREM OneQueuePerName == Spec => []NamesUnique
<1>1. IndInv => NamesUnique
  BY DEF IndInv, TableInv, NamesUnique
<1>2. QED
  BY <1>1, Invariance, PTL

\* A name looked up after its declare-ok is found (Queue.c:92-94, 117-119).
THEOREM DeclaredFound == Spec => []DeclaredIsFound
<1>1. IndInv => DeclaredIsFound
  BY DEF IndInv, WalkInv, DeclaredIsFound
<1>2. QED
  BY <1>1, Invariance, PTL

\* Until the list grows nobody reads or writes outside it, nor reads an
\* entry that has not been written.
THEOREM SafeBeforeGrowth == Spec => []SafeUntilGrowth
<1>1. IndInv => SafeUntilGrowth
  <2> SUFFICES ASSUME IndInv, ~Grown
               PROVE  fault = "none" /\ \A t \in Client :
                        pc[t] = "load_entry" => Readable(t)
    BY DEF SafeUntilGrowth
  <2>1. \A n \in 0 .. total_queues - 1 : list[n] # Null
    BY ClientAssumption DEF IndInv, TableInv, Entries
  <2>2. QED
    BY <2>1 DEF IndInv, TypeOK, SizeInv, TableInv, WalkInv, Readable
<1>2. QED
  BY <1>1, Invariance, PTL

\* Until the list grows, what is in the table stays (Queue.c:168-169).
THEOREM TableOnlyAppends == Spec => AppendOnly
<1> DEFINE Appends ==
      /\ total_queues' >= total_queues
      /\ \A n \in 0 .. total_queues - 1 : list'[n] = list[n]
<1>1. IndInv /\ [Next]_vars => (~Grown' => Appends)
  <2> SUFFICES ASSUME IndInv, [Next]_vars, ~Grown' PROVE Appends
    OBVIOUS
  <2>1. ~Grown /\ \A t \in Client : ~Grow(t)
    BY GrownStep DEF IndInv
  <2>2. \/ /\ total_queues' = total_queues
           /\ \A n \in 0 .. total_queues - 1 : list'[n] = list[n]
        \/ \E t \in Client : StoreTotal(t)
    BY <2>1, EntriesStep DEF IndInv, TableInv
  <2>3. QED
    BY <2>2 DEF IndInv, TypeOK, StoreTotal, table
<1>2. QED
  BY <1>1, Invariance, PTL DEF Spec, AppendOnly

-----------------------------------------------------------------------------
(* Declarations and lookups take effect at one moment each (Registry). *)

\* Until the list grows: none of the entries a lookup has passed is the one it
\* looks for, and it never passes the end.
PassedInv ==
  \A t \in Client : pc[t] \in Walking =>
    /\ i[t] <= total_queues
    /\ \A m \in 0 .. i[t] - 1 : list[m] # queue_name[t]

LEMMA PassedStep ==
  ASSUME IndInv, ~Grown, PassedInv, [Next]_vars, \A t \in Client : ~Grow(t)
  PROVE  PassedInv'
<1> USE ClientAssumption
    DEF TypeOK, SizeInv, PassedInv, vars, table, walk, At, Goto, Call, Walking,
        Declaring, Answers
<1>a. TypeOK /\ SizeInv /\ TableInv /\ WalkInv
  BY DEF IndInv
<1>b. \/ /\ total_queues' = total_queues
         /\ \A n \in 0 .. total_queues - 1 : list'[n] = list[n]
      \/ \E t \in Client : StoreTotal(t)
  BY <1>a, EntriesStep DEF TableInv
<1>0. CASE UNCHANGED vars
  BY <1>0
<1>1. CASE \E t \in Client, n \in Name : Declare(t, n)
  <2>1. PICK t \in Client, n \in Name : Declare(t, n)
    BY <1>1
  <2>2. AfterScan(n) \notin Walking
    BY DEF AfterScan
  <2>3. /\ pc' = [pc EXCEPT ![t] = AfterScan(n)]
        /\ queue_name' = [queue_name EXCEPT ![t] = n]
        /\ i' = i /\ total_queues' = total_queues
    BY <2>1 DEF Declare, Enter
  <2>4. \A n1 \in 0 .. total_queues - 1 : list'[n1] = list[n1]
    BY <1>a, <2>1 DEF Declare, Enter, InitList, TableInv
  <2>5. QED
    BY <1>a, <2>2, <2>3, <2>4
<1>2. CASE \E t \in Client, n \in Name : LookUp(t, n)
  BY <1>a, <1>2 DEF LookUp
<1>3. CASE \E t \in Client : StoreEntry(t)
  BY <1>a, <1>3, SMTT(30) DEF StoreEntry
<1>4. CASE \E t \in Client : StoreTotal(t)
  BY <1>a, <1>4 DEF StoreTotal
<1>5. CASE \E t \in Client : Reply(t)
  BY <1>a, <1>5 DEF Reply
<1>6. CASE \E t \in Client : LoadTotal(t)
  BY <1>a, <1>6 DEF LoadTotal
<1>7. CASE \E t \in Client : LoadList(t)
  BY <1>a, <1>7 DEF LoadList
<1>8. CASE \E t \in Client : LoadEntry(t)
  BY <1>a, <1>8, SMTT(30) DEF LoadEntry, Compare, WalkInv
<1>9. CASE \E t \in Client : Outside(t)
  BY <1>9 DEF Outside
<1>10. QED
  BY <1>0, <1>1, <1>2, <1>3, <1>4, <1>5, <1>6, <1>7, <1>8, <1>9
  DEF Next, Quiescent, Add, Walk

\* The names the promise speaks of are those of the entries.
LEMMA ListedEntries ==
  ASSUME IndInv, ~Grown
  PROVE  {n \in Name : Listed(n)} = Entries
BY DEF IndInv, TypeOK, SizeInv, TableInv, Entries, Listed

LEMMA ListedEntriesNext ==
  ASSUME IndInv', ~Grown'
  PROVE  {n \in Name : Listed(n)}' = Entries'
BY DEF IndInv, TypeOK, SizeInv, TableInv, Entries, Listed

\* A step of the table is a step of the promise, or invisible there.
LEMMA StepPromise ==
  ASSUME IndInv, IndInv', PassedInv, ~Grown', [Next]_vars
  PROVE  [Promise!Next]_(Promise!vars)
<1> DEFINE Q == {n \in Name : Listed(n)}
<1>1. ~Grown /\ \A t \in Client : ~Grow(t)
  BY GrownStep DEF IndInv
<1>2. Q = Entries /\ Q' = Entries'
  BY <1>1, ListedEntries, ListedEntriesNext
<1> HIDE DEF Q
<1>3. TypeOK /\ MutexInv /\ SizeInv /\ TableInv /\ AdderInv
  BY <1>1 DEF IndInv
<1>4. \/ Entries' = Entries \/ \E t \in Client : StoreTotal(t)
  BY <1>1, <1>3, EntriesStep DEF TableInv
<1>5. \A t \in Client : pc[t] = "idle" \/ pc[t] \in Answers => Phase[t] = pc[t]
  BY DEF Phase, Declaring, Walking, Answers
<1>6. \A t \in Client :
        /\ pc[t] \in Declaring => Phase[t] = "declaring"
        /\ pc[t] \in Walking => Phase[t] = "looking"
  BY DEF Phase, Declaring, Walking
<1>7. total_queues' = total_queues => Q' = Q
  BY <1>2, <1>3, <1>4 DEF StoreTotal, TypeOK
<1>8. ASSUME NEW t \in Client, NEW p, pc' = [pc EXCEPT ![t] = p],
             \/ pc[t] \in Declaring /\ p \in Declaring
             \/ pc[t] \in Walking /\ p \in Walking
      PROVE  Phase' = Phase
  BY <1>3, <1>8 DEF Phase, TypeOK, Declaring, Walking
<1>9. ASSUME NEW t \in Client, NEW p \in {"idle"} \cup Answers,
             pc' = [pc EXCEPT ![t] = p]
      PROVE  Phase' = [Phase EXCEPT ![t] = p]
  BY <1>3, <1>9 DEF Phase, TypeOK, Declaring, Walking, Answers
<1> USE DEF At, Goto
<1>10. CASE \E t \in Client, n \in Name : Declare(t, n)
  <2>1. PICK t \in Client, n \in Name : Declare(t, n)
    BY <1>10
  <2>2. /\ pc[t] \in {"idle"} \cup Answers /\ declareMutex = Null
        /\ pc' = [pc EXCEPT ![t] = AfterScan(n)]
        /\ queue_name' = [queue_name EXCEPT ![t] = n]
        /\ AfterScan(n) \in Declaring
    BY <2>1 DEF Declare, Enter, Call, AfterScan, Declaring
  <2>3. Phase' = [Phase EXCEPT ![t] = "declaring"]
    BY <1>3, <2>2 DEF Phase, TypeOK
  <2>4. \A u \in Client : Phase[u] # "declaring"
    BY <1>3, <2>2, ClientAssumption
    DEF Phase, MutexInv, TypeOK, Labels, Walking, Answers, Declaring
  <2>5. Q' = Q
    BY <1>7, <2>1 DEF Declare, Enter
  <2>6. QED
    BY <1>5, <2>2, <2>3, <2>4, <2>5
    DEF Promise!Next, Promise!Declare, Promise!Begin, Q, Answers
<1>11. CASE \E t \in Client, n \in Name : LookUp(t, n)
  <2>1. PICK t \in Client, n \in Name : LookUp(t, n)
    BY <1>11
  <2>2. /\ pc[t] \in {"idle"} \cup Answers
        /\ pc' = [pc EXCEPT ![t] = "load_total"]
        /\ queue_name' = [queue_name EXCEPT ![t] = n]
    BY <2>1 DEF LookUp, Call
  <2>3. Phase' = [Phase EXCEPT ![t] = "looking"]
    BY <1>3, <2>2 DEF Phase, TypeOK, Declaring, Walking
  <2>4. Q' = Q
    BY <1>7, <2>1 DEF LookUp
  <2>5. QED
    BY <1>5, <2>2, <2>3, <2>4
    DEF Promise!Next, Promise!LookUp, Promise!Begin, Q, Answers
<1>12. CASE \E t \in Client : StoreEntry(t)
  <2>1. PICK t \in Client : StoreEntry(t)
    BY <1>12
  <2>2. Q' = Q
    BY <1>7, <2>1 DEF StoreEntry
  <2>3. Phase' = Phase
    BY <1>8, <2>1 DEF StoreEntry, Declaring
  <2>4. QED
    BY <2>1, <2>2, <2>3 DEF StoreEntry, Promise!vars, Q
<1>13. CASE \E t \in Client : StoreTotal(t)
  <2>1. PICK t \in Client : StoreTotal(t)
    BY <1>13
  <2>2. Q' = Q \cup {queue_name[t]}
    <3>1. /\ list' = list /\ total_queues' = total_queues + 1
          /\ list[total_queues] = queue_name[t]
      BY <1>3, <2>1 DEF StoreTotal, table, AdderInv
    <3>2. 0 .. total_queues' - 1 = (0 .. total_queues - 1) \cup {total_queues}
      BY <1>3, <3>1 DEF TypeOK
    <3>3. QED
      BY <1>2, <3>1, <3>2 DEF Entries
  <2>3. Phase' = Phase
    BY <1>8, <2>1 DEF StoreTotal, Declaring
  <2>4. Phase[t] = "declaring" /\ queue_name[t] \notin Q
    BY <1>2, <1>3, <1>6, <2>1 DEF StoreTotal, AdderInv, Declaring
  <2>5. Promise!Create(t)
    BY <2>1, <2>2, <2>3, <2>4 DEF StoreTotal, Promise!Create, Q
  <2>6. QED
    BY <2>5 DEF Promise!Next
<1>14. CASE \E t \in Client : Reply(t)
  <2>1. PICK t \in Client : Reply(t)
    BY <1>14
  <2>2. Q' = Q
    BY <1>7, <2>1 DEF Reply
  <2>3. Phase' = [Phase EXCEPT ![t] = "idle"]
    BY <1>9, <2>1 DEF Reply
  <2>4. Phase[t] = "declaring" /\ queue_name[t] \in Q
    BY <1>2, <1>3, <1>6, <2>1 DEF Reply, AdderInv, Declaring
  <2>5. Promise!Confirm(t)
    BY <2>1, <2>2, <2>3, <2>4 DEF Reply, Promise!Confirm, Q
  <2>6. QED
    BY <2>5 DEF Promise!Next
<1>15. CASE \E t \in Client : LoadTotal(t)
  <2>1. PICK t \in Client : LoadTotal(t)
    BY <1>15
  <2>2. Q' = Q /\ queue_name' = queue_name
    BY <1>7, <2>1 DEF LoadTotal
  <2>3. CASE i[t] < total_queues
    <3>1. Phase' = Phase
      BY <1>8, <2>1, <2>3 DEF LoadTotal, Walking
    <3>2. QED
      BY <2>2, <3>1 DEF Promise!vars, Q
  <2>4. CASE ~(i[t] < total_queues)
    <3>1. Phase' = [Phase EXCEPT ![t] = "missing"]
      BY <1>9, <2>1, <2>4 DEF LoadTotal, Answers
    <3>2. queue_name[t] \notin Q
      <4>1. i[t] = total_queues
            /\ \A m \in 0 .. i[t] - 1 : list[m] # queue_name[t]
        BY <1>3, <2>1, <2>4 DEF LoadTotal, PassedInv, Walking, TypeOK
      <4>2. QED
        BY <1>2, <4>1 DEF Entries
    <3>3. Phase[t] = "looking"
      BY <1>6, <2>1 DEF LoadTotal, Walking
    <3>4. Promise!Answer(t)
      BY <2>2, <3>1, <3>2, <3>3 DEF Promise!Answer, Q
    <3>5. QED
      BY <3>4 DEF Promise!Next
  <2>5. QED
    BY <2>3, <2>4
<1>16. CASE \E t \in Client : LoadList(t)
  <2>1. PICK t \in Client : LoadList(t)
    BY <1>16
  <2>2. Q' = Q
    BY <1>7, <2>1 DEF LoadList
  <2>3. Phase' = Phase
    BY <1>8, <2>1 DEF LoadList, Walking
  <2>4. QED
    BY <2>1, <2>2, <2>3 DEF LoadList, Promise!vars, Q
<1>17. CASE \E t \in Client : LoadEntry(t)
  <2>1. PICK t \in Client : LoadEntry(t)
    BY <1>17
  <2>2. Q' = Q /\ queue_name' = queue_name
    BY <1>7, <2>1 DEF LoadEntry, Compare
  <2>3. CASE list[i[t]] = queue_name[t]
    <3>1. Phase' = [Phase EXCEPT ![t] = "found"]
      BY <1>9, <2>1, <2>3 DEF LoadEntry, Compare, Answers
    <3>2. queue_name[t] \in Q
      <4>1. i[t] \in 0 .. total_queues - 1
        BY <1>1, <1>3, <2>1 DEF LoadEntry, Compare, IndInv, WalkInv, TypeOK
      <4>2. QED
        BY <1>2, <2>3, <4>1 DEF Entries
    <3>3. Phase[t] = "looking"
      BY <1>6, <2>1 DEF LoadEntry, Compare, Walking
    <3>4. Promise!Answer(t)
      BY <2>2, <3>1, <3>2, <3>3 DEF Promise!Answer, Q
    <3>5. QED
      BY <3>4 DEF Promise!Next
  <2>4. CASE list[i[t]] # queue_name[t]
    <3>1. Phase' = Phase
      BY <1>8, <2>1, <2>4 DEF LoadEntry, Compare, Walking
    <3>2. QED
      BY <2>2, <3>1 DEF Promise!vars, Q
  <2>5. QED
    BY <2>3, <2>4
<1>18. CASE UNCHANGED vars \/ \E t \in Client : Outside(t)
  <2>1. /\ UNCHANGED <<pc, queue_name>>
        /\ total_queues' = total_queues
    BY <1>18 DEF Outside, vars
  <2>2. Phase' = Phase
    BY <2>1 DEF Phase
  <2>3. QED
    BY <1>7, <2>1, <2>2 DEF Promise!vars, Q
<1>19. QED
  BY <1>1, <1>10, <1>11, <1>12, <1>13, <1>14, <1>15, <1>16, <1>17, <1>18
  DEF Next, Quiescent, Add, Walk

LEMMA PassedAlways == Spec => [](~Grown => PassedInv)
<1>1. Init => PassedInv
  BY DEF Init, PassedInv, Walking
<1>2. /\ IndInv /\ (~Grown => PassedInv) /\ [Next]_vars
      => (~Grown => PassedInv)'
  <2> SUFFICES ASSUME IndInv, ~Grown => PassedInv, [Next]_vars, ~Grown'
               PROVE  PassedInv'
    OBVIOUS
  <2>1. ~Grown /\ \A t \in Client : ~Grow(t)
    BY GrownStep DEF IndInv
  <2>2. QED
    BY <2>1, PassedStep
<1>3. QED
  BY <1>1, <1>2, Invariance, PTL DEF Spec

\* Queue.c:92-94,150-169,187-189.  Until the list grows, every lookup and every
\* declaration takes effect at one moment.
THEOREM TakesEffectAtOnce == Spec => Linearizable
<1>1. Init => Promise!Init
  <2> SUFFICES ASSUME Init PROVE Promise!Init
    OBVIOUS
  <2>1. {n \in Name : Listed(n)} = {}
    BY DEF Init, Listed
  <2>2. Phase = [t \in Client |-> "idle"]
    BY DEF Init, Phase, Declaring, Walking
  <2>3. QED
    BY <2>1, <2>2 DEF Init, Promise!Init
<1>2. /\ IndInv /\ IndInv' /\ (~Grown => PassedInv) /\ [Next]_vars
      => (~Grown' => [Promise!Next]_(Promise!vars))
  <2> SUFFICES ASSUME IndInv, IndInv', ~Grown => PassedInv, [Next]_vars, ~Grown'
               PROVE  [Promise!Next]_(Promise!vars)
    OBVIOUS
  <2>1. ~Grown
    BY GrownStep DEF IndInv
  <2>2. QED
    BY <2>1, StepPromise
<1>3. QED
  BY <1>1, <1>2, PassedAlways, Invariance, PTL DEF Spec, Linearizable

-----------------------------------------------------------------------------
(* A lookup takes no more steps than there is room in the list. *)

\* What a step leaves of the lookup of t.
LEMMA LookUpStep ==
  ASSUME TypeOK, [Next]_vars, NEW t \in Client,
         pc[t] \in Walking, pc'[t] \in Walking
  PROVE  \/ pc'[t] = pc[t] /\ i'[t] = i[t]
         \/ pc[t] = "load_total" /\ pc'[t] = "load_list" /\ i'[t] = i[t]
         \/ pc[t] = "load_list" /\ pc'[t] = "load_entry" /\ i'[t] = i[t]
         \/ pc[t] = "load_entry" /\ pc'[t] = "load_total" /\ i'[t] = i[t] + 1
<1> USE DEF TypeOK, walk, At, Goto, Call, Walking, Answers
<1>0. CASE UNCHANGED vars
  BY <1>0 DEF vars
<1>1. CASE \E u \in Client, n \in Name : Declare(u, n)
  BY <1>1 DEF Declare, Enter
<1>2. CASE \E u \in Client, n \in Name : LookUp(u, n)
  BY <1>2 DEF LookUp
<1>3. CASE \E u \in Client : Add(u) \/ Reply(u)
  BY <1>3 DEF Add, Grow, StoreEntry, StoreTotal, Reply
<1>4. CASE \E u \in Client : LoadTotal(u)
  BY <1>4 DEF LoadTotal
<1>5. CASE \E u \in Client : LoadList(u)
  BY <1>5 DEF LoadList
<1>6. CASE \E u \in Client : LoadEntry(u)
  BY <1>6 DEF LoadEntry, Compare
<1>7. CASE \E u \in Client : Outside(u)
  BY <1>7 DEF Outside
<1>8. QED
  BY <1>0, <1>1, <1>2, <1>3, <1>4, <1>5, <1>6, <1>7 DEF Next, Quiescent, Walk

\* Queue.c:92-94,187-189.  Until the list grows, a lookup comes nearer to its
\* answer with every step it takes, whatever the others do.
THEOREM LookUpsAdvance == Spec => LookUpAdvances
<1>1. /\ IndInv /\ IndInv' /\ (~Grown => PassedInv)' /\ [Next]_vars
      => (~Grown' => \A t \in Client : pc[t] \in Walking /\ pc'[t] \in Walking =>
                       \/ pc'[t] = pc[t] /\ i'[t] = i[t]
                       \/ StepsAhead(t)' \in 0 .. StepsAhead(t) - 1)
  <2> SUFFICES ASSUME IndInv, IndInv', PassedInv', ~Grown', [Next]_vars,
                      NEW t \in Client, pc[t] \in Walking, pc'[t] \in Walking
               PROVE  \/ pc'[t] = pc[t] /\ i'[t] = i[t]
                      \/ StepsAhead(t)' \in 0 .. StepsAhead(t) - 1
    OBVIOUS
  <2>1. i[t] \in Nat /\ i'[t] \in Nat
    BY DEF IndInv, TypeOK
  <2>2. i'[t] <= INITIAL_MAX_CONNECTIONS_QUEUES
    <3>1. i'[t] <= total_queues'
      BY DEF PassedInv
    <3>2. total_queues' <= max_queues'
      BY DEF IndInv, SizeInv
    <3>3. max_queues' <= INITIAL_MAX_CONNECTIONS_QUEUES
      BY SizeAssumption DEF IndInv, TypeOK, Grown
    <3>4. QED
      BY <2>1, <3>1, <3>2, <3>3, SizeAssumption DEF IndInv, TypeOK
  <2>3. QED
    BY <2>1, <2>2, LookUpStep, SizeAssumption DEF IndInv, StepsAhead
<1>2. QED
  BY <1>1, PassedAlways, Invariance, PTL DEF Spec, LookUpAdvances
=============================================================================
