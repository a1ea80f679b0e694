--------------------------- MODULE RotationProofs ---------------------------
(***************************************************************************)
(* Proofs about QueueConsumers while its consumers stay and its array has  *)
(* not grown: the table is the list of the registrations, dispatches go    *)
(* round it, and the loads and stores implement the ring of RoundRobin.    *)
(***************************************************************************)
EXTENDS QueueConsumersProofs, FiniteSetTheorems

-----------------------------------------------------------------------------
(* What a step does to the table, the index and the history. *)

\* The dispatch that is about to move the index holds the connection there.
ChosenInv ==
  \A t \in Client : pc[t] = "advance" => connection[t] = connections[round_robin]

\* The table up to its total, the index and the history stay.
Stays ==
  /\ UNCHANGED <<total_connections, round_robin, handed, consumes>>
  /\ \A i \in 0 .. total_connections - 1 : connections'[i] = connections[i]

Registers(t) ==
  /\ pc[t] = "store_total" /\ pc' = [pc EXCEPT ![t] = "idle"]
  /\ total_connections' = total_connections + 1
  /\ connections[total_connections] = record[t]
  /\ handed' = <<>>
  /\ consumes' = [consumes EXCEPT ![t] = @ + 1]
  /\ UNCHANGED <<connections, round_robin, record>>

Dispatches ==
  /\ round_robin < total_connections
  /\ round_robin' = IF round_robin + 1 = total_connections THEN 0
                                                           ELSE round_robin + 1
  /\ handed' = Append(handed, connections[round_robin])
  /\ UNCHANGED <<connections, total_connections, consumes, record>>

LEMMA NextOnRing ==
  ASSUME NEW r \in Nat, NEW n \in Nat, r < n
  PROVE  (r + 1) % n = IF r + 1 = n THEN 0 ELSE r + 1
<1>1. CASE r + 1 = n
  BY <1>1
<1>2. CASE r + 1 < n
  BY <1>2
<1> QED
  BY <1>1, <1>2

LEMMA StepOnTable ==
  ASSUME IndInv, OwnInv, ChosenInv, Calm, [Next]_vars,
         \A t \in Client : ~Grow(t)
  PROVE  Stays \/ (\E t \in Client : Registers(t)) \/ Dispatches
<1> USE DEF IndInv, TypeOK, vars, array, mutexes, heap, registers, ghosts,
      At, Goto
<1>1. CASE UNCHANGED <<connections, total_connections, round_robin, handed,
                       consumes>>
  BY <1>1 DEF Stays
<1>2. CASE \E t \in Client : Connect(t) \/ Leave(t) \/ Release(t) \/ Deliver(t)
  BY <1>1, <1>2 DEF Connect, Leave, Release, Deliver
<1>3. CASE \E t \in Client : BeginPut(t) \/ LoadIndex(t) \/ LoadTotal(t)
  BY <1>1, <1>3 DEF BeginPut, Enlist, LoadIndex, LoadTotal
<1>4. CASE \E t \in Client : BeginGet(t) \/ CheckIndex(t) \/ CheckClosed(t)
  BY <1>1, <1>4 DEF BeginGet, CheckIndex, CheckClosed
<1>5. CASE (\E t \in Client : OutOfBounds(t) \/ DoubleFree(t)) \/ UNCHANGED vars
  BY <1>1, <1>5 DEF OutOfBounds, DoubleFree, Fault
<1>6. CASE \E t \in Client : StoreSlot(t)
  <2>1. PICK t \in Client : StoreSlot(t)
    BY <1>6
  <2>2. index[t] = total_connections
    BY <2>1 DEF StoreSlot, OwnInv, WriterInv
  <2>3. connections' = [connections EXCEPT ![total_connections] = record[t]]
    BY <2>1, <2>2 DEF StoreSlot
  <2>4. \A i \in 0 .. total_connections - 1 : connections'[i] = connections[i]
    BY <2>3
  <2> QED
    BY <2>1, <2>4 DEF StoreSlot, Stays
<1>7. CASE \E t \in Client : StoreTotal(t)
  <2>1. PICK t \in Client : StoreTotal(t)
    BY <1>7
  <2>2. /\ total[t] = total_connections
        /\ connections[total_connections] = record[t]
    BY <2>1 DEF StoreTotal, OwnInv, WriterInv
  <2>3. Registers(t)
    BY <2>1, <2>2 DEF StoreTotal, Registers
  <2> QED
    BY <2>3
<1>8. CASE \E t \in Client : Advance(t)
  <2>1. PICK t \in Client : Advance(t)
    BY <1>8
  <2>2. /\ round_robin < total_connections
        /\ connection[t] = connections[round_robin]
    BY <2>1 DEF Advance, Rotate, GetInv, ChosenInv
  <2>3. (round_robin + 1) % total_connections =
          IF round_robin + 1 = total_connections THEN 0 ELSE round_robin + 1
    BY <2>2, NextOnRing
  <2>4. Dispatches
    BY <2>1, <2>2, <2>3 DEF Advance, Rotate, Dispatches
  <2> QED
    BY <2>4
<1> QED
  BY <1>2, <1>3, <1>4, <1>5, <1>6, <1>7, <1>8, NothingRemoved
     DEF OwnInv, Next, Quiescent, Get, Put

LEMMA ChosenStep ==
  ASSUME IndInv, OwnInv, ChosenInv, Calm, [Next]_vars,
         \A t \in Client : ~Grow(t)
  PROVE  ChosenInv'
<1> USE DEF IndInv, TypeOK, ChosenInv, vars, array, mutexes, heap, registers,
      ghosts, At, Goto
<1>1. CASE /\ UNCHANGED <<connections, round_robin, connection>>
           /\ \A u \in Client : pc'[u] = "advance" => pc[u] = "advance"
  BY <1>1
<1>2. CASE \E t \in Client : Connect(t) \/ Leave(t) \/ Release(t) \/ Deliver(t)
  BY <1>1, <1>2, SMTT(30) DEF Connect, Leave, Release, Deliver
<1>3. CASE \E t \in Client : BeginPut(t) \/ LoadIndex(t) \/ LoadTotal(t)
                               \/ StoreTotal(t)
  BY <1>1, <1>3, SMTT(30) DEF BeginPut, Enlist, LoadIndex, LoadTotal, StoreTotal
<1>4. CASE \E t \in Client : BeginGet(t) \/ CheckIndex(t)
  BY <1>1, <1>4, SMTT(30) DEF BeginGet, CheckIndex
<1>5. CASE (\E t \in Client : OutOfBounds(t) \/ DoubleFree(t)) \/ UNCHANGED vars
  BY <1>1, <1>5 DEF OutOfBounds, DoubleFree, Fault
<1>6. CASE \E t \in Client : StoreSlot(t)
  <2>1. PICK t \in Client : StoreSlot(t)
    BY <1>6
  <2>2. index[t] = total_connections
    BY <2>1 DEF StoreSlot, OwnInv, WriterInv
  <2>3. \A i \in 0 .. total_connections - 1 : connections'[i] = connections[i]
    BY <2>1, <2>2 DEF StoreSlot
  <2>4. \A u \in Client : pc'[u] = "advance" =>
          pc[u] = "advance" /\ round_robin \in 0 .. total_connections - 1
    BY <2>1 DEF StoreSlot, GetInv
  <2> QED
    BY <2>1, <2>3, <2>4 DEF StoreSlot
<1>7. CASE \E t \in Client : CheckClosed(t)
  BY <1>7, SMTT(30) DEF CheckClosed
<1>8. CASE \E t \in Client : Advance(t)
  <2>1. PICK t \in Client : Advance(t)
    BY <1>8
  <2>2. \A u \in Client : pc[u] = "advance" => u = t
    <3>1. \A u \in Client : pc[u] = "advance" => getMutex = u
      BY DEF MutexInv, Getting
    <3>2. pc[t] = "advance"
      BY <2>1 DEF Advance, Rotate
    <3> QED
      BY <3>1, <3>2
  <2>3. \A u \in Client : pc'[u] # "advance"
    BY <2>1, <2>2 DEF Advance, Rotate
  <2> QED
    BY <2>3
<1> QED
  BY <1>2, <1>3, <1>4, <1>5, <1>6, <1>7, <1>8, NothingRemoved
     DEF OwnInv, Next, Quiescent, Get, Put

-----------------------------------------------------------------------------
(* Going round a table C of n entries: h is the list of those served, L of  *)
(* them, and r is the entry whose turn it is.                               *)

\* Counted backwards from the turn, the entries below it and then those above
\* were served last.
Turned(h, L, C, n, r) ==
  \A k \in 1 .. L :
    /\ L - k < r => h[k] = C[r - 1 - (L - k)]
    /\ r <= L - k /\ L - k < n => h[k] = C[n + r - 1 - (L - k)]

\* The last n of the history are the n entries of the table, in some order.
Covers(h, L, C, n) ==
  /\ \A k \in L + 1 - n .. L : \E m \in 0 .. n - 1 : h[k] = C[m]
  /\ \A m \in 0 .. n - 1 : \E k \in L + 1 - n .. L : h[k] = C[m]

\* Some n in a row, and those the same number later.
Rounds(h, L, C, n) ==
  \A i \in 1 .. L :
    /\ i + n - 1 <= L => {h[k] : k \in i .. i + n - 1} = {C[m] : m \in 0 .. n - 1}
    /\ i + n <= L => h[i + n] = h[i]

LEMMA TurnedMoves ==
  ASSUME NEW h, NEW g, NEW C, NEW L \in Nat, NEW n \in Nat, NEW r \in Nat, NEW s,
         r < n, s = IF r + 1 = n THEN 0 ELSE r + 1,
         Turned(h, L, C, n, r),
         \A k \in 1 .. L : g[k] = h[k],
         g[L + 1] = C[r]
  PROVE  Turned(g, L + 1, C, n, s)
<1> SUFFICES ASSUME NEW k \in 1 .. L + 1
             PROVE  /\ L + 1 - k < s => g[k] = C[s - 1 - (L + 1 - k)]
                    /\ s <= L + 1 - k /\ L + 1 - k < n
                         => g[k] = C[n + s - 1 - (L + 1 - k)]
  BY DEF Turned
<1>1. CASE k = L + 1
  <2>1. CASE s = r + 1
    <3>1. s - 1 - (L + 1 - k) = r /\ L + 1 - k < s
      BY <1>1, <2>1
    <3> QED
      BY <1>1, <3>1
  <2>2. CASE s = 0 /\ n = r + 1
    <3>1. n + s - 1 - (L + 1 - k) = r /\ ~(L + 1 - k < s)
      BY <1>1, <2>2
    <3> QED
      BY <1>1, <3>1
  <2> QED
    BY <2>1, <2>2
<1>2. CASE k \in 1 .. L
  <2>1. /\ L - k < r => g[k] = C[r - 1 - (L - k)]
        /\ r <= L - k /\ L - k < n => g[k] = C[n + r - 1 - (L - k)]
    BY <1>2 DEF Turned
  <2>2. CASE s = r + 1
    <3>1. /\ s - 1 - (L + 1 - k) = r - 1 - (L - k)
          /\ n + s - 1 - (L + 1 - k) = n + r - 1 - (L - k)
          /\ L + 1 - k < s => L - k < r
          /\ s <= L + 1 - k /\ L + 1 - k < n => r <= L - k /\ L - k < n
      BY <1>2, <2>2
    <3> QED
      BY <2>1, <3>1
  <2>3. CASE s = 0 /\ n = r + 1
    <3>1. /\ n + s - 1 - (L + 1 - k) = r - 1 - (L - k)
          /\ ~(L + 1 - k < s)
          /\ L + 1 - k < n => L - k < r
      BY <1>2, <2>3
    <3> QED
      BY <2>1, <3>1
  <2> QED
    BY <2>2, <2>3
<1> QED
  BY <1>1, <1>2

LEMMA LastRound ==
  ASSUME NEW h, NEW C, NEW L \in Nat, NEW n \in Nat, NEW r \in Nat,
         r < n, n <= L, Turned(h, L, C, n, r)
  PROVE  Covers(h, L, C, n)
<1>1. ASSUME NEW k \in L + 1 - n .. L
      PROVE  \E m \in 0 .. n - 1 : h[k] = C[m]
  <2>1. k \in 1 .. L /\ L - k \in 0 .. n - 1
    OBVIOUS
  <2>2. CASE L - k < r
    <3>1. r - 1 - (L - k) \in 0 .. n - 1
      BY <2>1, <2>2
    <3>2. h[k] = C[r - 1 - (L - k)]
      BY <2>1, <2>2 DEF Turned
    <3> QED
      BY <3>1, <3>2
  <2>3. CASE ~(L - k < r)
    <3>1. n + r - 1 - (L - k) \in 0 .. n - 1 /\ r <= L - k /\ L - k < n
      BY <2>1, <2>3
    <3>2. h[k] = C[n + r - 1 - (L - k)]
      BY <2>1, <3>1 DEF Turned
    <3> QED
      BY <3>1, <3>2
  <2> QED
    BY <2>2, <2>3
<1>2. ASSUME NEW m \in 0 .. n - 1
      PROVE  \E k \in L + 1 - n .. L : h[k] = C[m]
  <2>1. CASE m < r
    <3>1. PICK k : k = L - (r - 1 - m)
      OBVIOUS
    <3>2. /\ k \in L + 1 - n .. L /\ k \in 1 .. L
          /\ L - k < r /\ r - 1 - (L - k) = m
      BY <2>1, <3>1
    <3> QED
      BY <3>2 DEF Turned
  <2>2. CASE ~(m < r)
    <3>1. PICK k : k = L - (n + r - 1 - m)
      OBVIOUS
    <3>2. /\ k \in L + 1 - n .. L /\ k \in 1 .. L
          /\ r <= L - k /\ L - k < n /\ n + r - 1 - (L - k) = m
      BY <2>2, <3>1
    <3> QED
      BY <3>2 DEF Turned
  <2> QED
    BY <2>1, <2>2
<1> QED
  BY <1>1, <1>2 DEF Covers

LEMMA RoundsMove ==
  ASSUME NEW h, NEW g, NEW C, NEW L \in Nat, NEW n \in Nat, NEW r \in Nat, NEW s,
         r < n, s = IF r + 1 = n THEN 0 ELSE r + 1,
         Turned(h, L, C, n, r), Rounds(h, L, C, n),
         \A k \in 1 .. L : g[k] = h[k],
         g[L + 1] = C[r]
  PROVE  Rounds(g, L + 1, C, n)
<1>1. /\ Turned(g, L + 1, C, n, s)
      /\ s \in Nat /\ s < n
  <2>1. Turned(g, L + 1, C, n, s)
    BY TurnedMoves
  <2>2. s \in Nat /\ s < n
    OBVIOUS
  <2> QED
    BY <2>1, <2>2
<1> SUFFICES ASSUME NEW i \in 1 .. L + 1
             PROVE  /\ i + n - 1 <= L + 1 =>
                         {g[k] : k \in i .. i + n - 1} = {C[m] : m \in 0 .. n - 1}
                    /\ i + n <= L + 1 => g[i + n] = g[i]
  BY DEF Rounds
<1>2. ASSUME i + n - 1 <= L + 1
      PROVE  {g[k] : k \in i .. i + n - 1} = {C[m] : m \in 0 .. n - 1}
  <2>1. CASE i + n - 1 = L + 1
    <3>1. i = (L + 1) + 1 - n /\ i + n - 1 = L + 1 /\ n <= L + 1
      BY <2>1
    <3>2. PICK M \in Nat : M = L + 1
      OBVIOUS
    <3>3. n <= M /\ Turned(g, M, C, n, s)
      <4>1. n <= M
        BY <3>1, <3>2
      <4>2. Turned(g, M, C, n, s)
        BY <1>1, <3>2 DEF Turned
      <4> QED
        BY <4>1, <4>2
    <3>4. Covers(g, M, C, n)
      BY <1>1, <3>2, <3>3, LastRound, Zenon
    <3>5. \A k : k \in M + 1 - n .. M <=> k \in i .. i + n - 1
      BY <3>1, <3>2
    <3>6. \A k \in i .. i + n - 1 : \E m \in 0 .. n - 1 : g[k] = C[m]
      BY <3>4, <3>5, Zenon DEF Covers
    <3>7. \A m \in 0 .. n - 1 : \E k \in i .. i + n - 1 : g[k] = C[m]
      BY <3>4, <3>5, Zenon DEF Covers
    <3> QED
      BY <3>6, <3>7
  <2>2. CASE i + n - 1 <= L
    <3>1. i \in 1 .. L /\ \A k \in i .. i + n - 1 : k \in 1 .. L
      BY <2>2
    <3>2. {h[k] : k \in i .. i + n - 1} = {C[m] : m \in 0 .. n - 1}
      BY <2>2, <3>1 DEF Rounds
    <3>3. {h[k] : k \in i .. i + n - 1} = {g[k] : k \in i .. i + n - 1}
      BY <3>1
    <3> QED
      BY <3>2, <3>3
  <2>3. i + n - 1 = L + 1 \/ i + n - 1 <= L
    BY <1>2
  <2> QED
    BY <2>1, <2>2, <2>3
<1>3. ASSUME i + n <= L + 1
      PROVE  g[i + n] = g[i]
  <2>1. i \in 1 .. L /\ g[i] = h[i]
    BY <1>3
  <2>2. CASE i + n = L + 1
    <3>1. L - i = n - 1 /\ r <= L - i /\ L - i < n /\ n + r - 1 - (L - i) = r
      BY <2>2
    <3>2. h[i] = C[r]
      BY <2>1, <3>1 DEF Turned
    <3> QED
      BY <2>1, <2>2, <3>2
  <2>3. CASE i + n <= L
    <3>1. h[i + n] = h[i] /\ i + n \in 1 .. L
      BY <2>1, <2>3 DEF Rounds
    <3> QED
      BY <2>1, <3>1
  <2> QED
    BY <1>3, <2>2, <2>3
<1> QED
  BY <1>2, <1>3

-----------------------------------------------------------------------------
(* The rotation. *)

RotationInv ==
  Calm =>
    /\ ChosenInv
    /\ Turned(handed, Len(handed), connections, total_connections, round_robin)
    /\ Rounds(handed, Len(handed), connections, total_connections)

LEMMA RotationStep ==
  ASSUME IndInv, IndInv', OwnInv, RotationInv, [Next]_vars
  PROVE  RotationInv'
<1> SUFFICES ASSUME Calm'
             PROVE  /\ ChosenInv'
                    /\ Turned(handed, Len(handed), connections,
                              total_connections, round_robin)'
                    /\ Rounds(handed, Len(handed), connections,
                              total_connections)'
  BY DEF RotationInv
<1>1. Calm /\ \A t \in Client : ~Grow(t)
  BY CalmBefore, GrownStep DEF IndInv, OwnInv, Calm
<1>2. ChosenInv'
  BY <1>1, ChosenStep DEF RotationInv
<1>3. PICK h, C, n, r, L :
        /\ h = handed /\ C = connections /\ n = total_connections
        /\ r = round_robin /\ L = Len(handed)
  OBVIOUS
<1>4. /\ n \in Nat /\ r \in Nat /\ L \in Nat
      /\ r < n \/ r = 0
      /\ Turned(h, L, C, n, r) /\ Rounds(h, L, C, n)
  BY <1>1, <1>3 DEF RotationInv, IndInv, TypeOK, GetInv
<1>5. PICK g, D, m, s, M :
        /\ g = handed' /\ D = connections' /\ m = total_connections'
        /\ s = round_robin' /\ M = Len(handed')
  OBVIOUS
<1>6. Turned(g, M, D, m, s) /\ Rounds(g, M, D, m)
  <2>1. CASE Stays
    <3>1. g = h /\ m = n /\ s = r /\ M = L /\ \A i \in 0 .. n - 1 : D[i] = C[i]
      BY <1>3, <1>5, <2>1 DEF Stays
    <3>2. Turned(h, L, D, n, r)
      <4>1. \A k \in 1 .. L : /\ L - k < r => r - 1 - (L - k) \in 0 .. n - 1
                             /\ r <= L - k /\ L - k < n =>
                                  n + r - 1 - (L - k) \in 0 .. n - 1
        BY <1>4
      <4> QED
        BY <1>4, <3>1, <4>1 DEF Turned
    <3>3. {D[i] : i \in 0 .. n - 1} = {C[i] : i \in 0 .. n - 1}
      BY <3>1
    <3>4. Rounds(h, L, D, n)
      BY <1>4, <3>3 DEF Rounds
    <3> QED
      BY <3>1, <3>2, <3>4
  <2>2. CASE \E t \in Client : Registers(t)
    <3>1. g = <<>> /\ M = 0
      BY <1>5, <2>2 DEF Registers
    <3> QED
      BY <3>1 DEF Turned, Rounds
  <2>3. CASE Dispatches
    <3>1. PICK c : c = C[r]
      OBVIOUS
    <3>2. /\ r < n /\ s = IF r + 1 = n THEN 0 ELSE r + 1
          /\ g = Append(h, c) /\ D = C /\ m = n
      BY <1>3, <1>5, <2>3, <3>1 DEF Dispatches
    <3>3. M = L + 1 /\ g[L + 1] = c /\ \A k \in 1 .. L : g[k] = h[k]
      <4>1. h \in Seq(Record \cup {Null}) /\ L = Len(h) /\ M = Len(g)
        BY <1>3, <1>5 DEF IndInv, TypeOK
      <4> QED
        BY <3>2, <4>1
    <3> QED
      BY <1>4, <3>1, <3>2, <3>3, TurnedMoves, RoundsMove
  <2> QED
    BY <1>1, <2>1, <2>2, <2>3, StepOnTable DEF RotationInv
<1>7. Turned(handed, Len(handed), connections, total_connections, round_robin)'
  BY <1>5, <1>6 DEF Turned
<1>8. Rounds(handed, Len(handed), connections, total_connections)'
  <2> SUFFICES ASSUME NEW i \in 1 .. M
               PROVE  /\ i + m - 1 <= M =>
                           {handed'[k] : k \in i .. i + m - 1}
                             = {connections'[j] : j \in 0 .. m - 1}
                      /\ i + m <= M => handed'[i + m] = handed'[i]
    BY <1>5 DEF Rounds
  <2>1. /\ i + m - 1 <= M => {g[k] : k \in i .. i + m - 1} = {D[j] : j \in 0 .. m - 1}
        /\ i + m <= M => g[i + m] = g[i]
    BY <1>6 DEF Rounds
  <2> QED
    BY <1>5, <2>1, ZenonT(40)
<1> QED
  BY <1>2, <1>7, <1>8

LEMMA InitRotation == Init => RotationInv
BY DEF Init, RotationInv, ChosenInv, Turned, Rounds

\* Queue.c:206.  While the consumers stay, a round of dispatches serves every
\* registered consumer, wherever it begins, and the next goes in the same
\* order; for every number of consumers and of registrations of each.
THEOREM RotationIsFair == Spec => []FairRotation
<1>1. IndInv /\ IndInv' /\ OwnInv /\ RotationInv /\ [Next]_vars => RotationInv'
  BY RotationStep
<1>2. IndInv /\ RotationInv => FairRotation
  <2> SUFFICES ASSUME IndInv, RotationInv, ~Grown, ~ConsumerLeft
               PROVE  \A i \in DOMAIN handed :
                        /\ i + total_connections - 1 <= Len(handed) =>
                             {handed[k] : k \in i .. i + total_connections - 1}
                               = {connections[n] : n \in 0 .. total_connections - 1}
                        /\ i + total_connections <= Len(handed) =>
                             handed[i + total_connections] = handed[i]
    BY DEF FairRotation
  <2>1. DOMAIN handed = 1 .. Len(handed)
    BY DEF IndInv, TypeOK
  <2>2. Rounds(handed, Len(handed), connections, total_connections)
    BY DEF RotationInv, Calm
  <2> QED
    BY <2>1, <2>2 DEF Rounds
<1>3. QED
  BY <1>1, <1>2, InitIndInv, StepIndInv, InitOwnInv, StepOwnInv, InitRotation,
     PTL DEF Spec

-----------------------------------------------------------------------------
(* The registrations. *)

Slots(t) == {i \in 0 .. total_connections - 1 : connections[i] = record[t]}

CountInv ==
  Calm => \A t \in Client : Connected(t) => consumes[t] = Cardinality(Slots(t))

\* A connected thread keeps its record; it got it from Connect.
LEMMA RecordKept ==
  ASSUME TypeOK, [Next]_vars, NEW t \in Client, Connected(t)'
  PROVE  Connect(t) \/ (Connected(t) /\ record'[t] = record[t])
<1> USE DEF TypeOK, vars, array, mutexes, heap, registers, ghosts, At, Goto
<1>2. CASE \E u \in Client : Connect(u)
  BY <1>2 DEF Connect, Connected
<1>3. CASE \E u \in Client : Leave(u) \/ Release(u) \/ Deliver(u)
  BY <1>3 DEF Leave, Release, Deliver, Connected
<1>4. CASE \E u \in Client : BeginPut(u) \/ Put(u)
  BY <1>4
     DEF BeginPut, Enlist, Put, Grow, LoadIndex, StoreSlot, LoadTotal,
         StoreTotal, Connected
<1>5. CASE \E u \in Client : BeginGet(u) \/ CheckIndex(u) \/ CheckClosed(u)
                               \/ Advance(u)
  BY <1>5
     DEF BeginGet, CheckIndex, CheckClosed, Advance, Rotate, Connected
<1>6. CASE \E u \in Client : Remove(u)
  BY <1>6
     DEF Remove, IsInner, PullDown, Shift, IsLast, DropLoad, DropStore, FreeVictim,
         Connected
<1>7. CASE (\E u \in Client : OutOfBounds(u) \/ DoubleFree(u)) \/ UNCHANGED vars
  BY <1>7 DEF OutOfBounds, DoubleFree, Fault, Connected
<1> QED
  BY <1>2, <1>3, <1>4, <1>5, <1>6, <1>7 DEF Next, Quiescent, Get

LEMMA CountStep ==
  ASSUME IndInv, IndInv', OwnInv, RotationInv, CountInv, [Next]_vars
  PROVE  CountInv'
<1> SUFFICES ASSUME Calm', NEW t \in Client, Connected(t)'
             PROVE  consumes'[t] = Cardinality(Slots(t)')
  BY DEF CountInv
<1>1. Calm /\ ChosenInv /\ \A u \in Client : ~Grow(u)
  BY CalmBefore, GrownStep DEF IndInv, OwnInv, Calm, RotationInv
<1>2. total_connections \in Nat /\ consumes \in [Client -> Nat]
      /\ pc \in [Client -> Labels]
  BY DEF IndInv, TypeOK
<1>3. Connect(t) \/ (Connected(t) /\ record'[t] = record[t])
  BY RecordKept DEF IndInv
\* A new record is nowhere in the table.
<1>4. CASE Connect(t)
  <2>1. /\ pc[t] = "new" /\ record'[t] \notin allocated
        /\ UNCHANGED <<connections, total_connections, consumes>>
    BY <1>4 DEF Connect, At, array, ghosts, IndInv, TypeOK
  <2>2. consumes[t] = 0
    BY <1>2, <2>1 DEF OwnInv, ConsumesInv
  <2>3. \A i \in 0 .. total_connections - 1 : connections[i] \in allocated
    BY <1>1, ConsumerOpen DEF OwnInv, TableOwned
  <2>4. Slots(t)' = {}
    BY <2>1, <2>3 DEF Slots
  <2> QED
    BY <2>1, <2>2, <2>4, FS_EmptySet
<1>5. CASE Connected(t) /\ record'[t] = record[t]
  <2>1. consumes[t] = Cardinality(Slots(t))
    BY <1>1, <1>5 DEF CountInv
  <2>2. CASE Stays \/ Dispatches
    <3>1. Slots(t)' = Slots(t) /\ consumes' = consumes
      BY <1>5, <2>2 DEF Stays, Dispatches, Slots
    <3> QED
      BY <2>1, <3>1
  <2>3. CASE Registers(t)
    <3>1. Slots(t)' = Slots(t) \cup {total_connections}
      BY <1>2, <2>3 DEF Registers, Slots
    <3>2. total_connections \notin Slots(t)
      BY <1>2 DEF Slots
    <3>3. IsFiniteSet(Slots(t))
      <4>1. IsFiniteSet(0 .. total_connections - 1)
        BY <1>2, FS_Interval
      <4> QED
        BY <4>1, FS_Subset DEF Slots
    <3>4. Cardinality(Slots(t)') = Cardinality(Slots(t)) + 1
      BY <3>1, <3>2, <3>3, FS_AddElement
    <3>5. consumes'[t] = consumes[t] + 1
      BY <1>2, <2>3 DEF Registers
    <3> QED
      BY <2>1, <3>4, <3>5
  <2>4. ASSUME NEW u \in Client, u # t, Registers(u)
        PROVE  consumes'[t] = Cardinality(Slots(t)')
    <3>1. Connected(u) /\ record[u] # record[t]
      <4>1. Connected(u)
        BY <2>4 DEF Registers, Connected
      <4> QED
        BY <1>1, <1>5, <2>4, <4>1 DEF OwnInv, RecordsOwned
    <3>2. Slots(t)' = Slots(t)
      BY <1>2, <1>5, <2>4, <3>1 DEF Registers, Slots
    <3>3. consumes'[t] = consumes[t]
      BY <1>2, <2>4 DEF Registers
    <3> QED
      BY <2>1, <3>2, <3>3
  <2> QED
    BY <1>1, <2>2, <2>3, <2>4, StepOnTable
<1> QED
  BY <1>3, <1>4, <1>5

LEMMA InitCount == Init => CountInv
BY DEF Init, CountInv, Connected

\* Queue.c:91-101,173-179.  However the registrations of any number of clients
\* interleave with each other and with dispatches, none is lost, none is stored
\* twice, and nothing else is in the table, while no consumer has left.
THEOREM RegistrationsCounted == Spec => []RegisteredOnce
<1>1. /\ IndInv /\ IndInv' /\ OwnInv /\ RotationInv /\ CountInv /\ [Next]_vars
      => RotationInv' /\ CountInv'
  BY RotationStep, CountStep
<1>2. OwnInv /\ CountInv => RegisteredOnce
  BY DEF OwnInv, CountInv, RegisteredOnce, Calm, Connected, Slots, TableOwned,
         ConsumerRecords
<1>3. QED
  BY <1>1, <1>2, InitIndInv, StepIndInv, InitOwnInv, StepOwnInv, InitRotation,
     InitCount, PTL DEF Spec

-----------------------------------------------------------------------------
(* The ring of RoundRobin. *)

Ring == [i \in 1 .. total_connections |-> connections[i - 1]]

LEMMA RingIsSequence ==
  ASSUME IndInv, OwnInv, Calm
  PROVE  Ring \in Seq(Record) /\ Len(Ring) = total_connections
<1>1. total_connections \in Nat
  BY DEF IndInv, TypeOK
<1>2. \A i \in 0 .. total_connections - 1 : connections[i] \in Record
  BY ConsumerOpen DEF IndInv, TypeOK, OwnInv, TableOwned
<1>3. \A i \in 1 .. total_connections : connections[i - 1] \in Record
  BY <1>1, <1>2
<1>4. Ring \in [1 .. total_connections -> Record]
  BY <1>3 DEF Ring
<1> QED
  BY <1>1, <1>4 DEF Ring

LEMMA StepRoundRobin ==
  ASSUME IndInv, IndInv', OwnInv, RotationInv, Calm, Calm', [Next]_vars
  PROVE  [Abstract!Next]_(Abstract!vars)
<1>1. ChosenInv /\ \A t \in Client : ~Grow(t)
  BY GrownStep DEF IndInv, Calm, RotationInv
<1>2. total_connections \in Nat /\ round_robin \in Nat
  BY DEF IndInv, TypeOK
<1>3. Ring \in Seq(Record) /\ Len(Ring) = total_connections
  BY RingIsSequence
<1>4. CASE Stays
  <2>1. Ring' = Ring
    BY <1>2, <1>4 DEF Ring, Stays
  <2> QED
    BY <1>4, <2>1 DEF Stays, Ring, Abstract!vars
<1>7. \A t \in Client : Registers(t) => record[t] \in Record
  BY DEF Registers, IndInv, RecordInv
<1>5. ASSUME NEW t \in Client, Registers(t)
      PROVE  Abstract!Next
  <2>1. PICK r : r = record[t]
    OBVIOUS
  <2>2. Ring' = Append(Ring, r)
    <3>1. /\ DOMAIN Append(Ring, r) = 1 .. total_connections + 1
          /\ Append(Ring, r)[total_connections + 1] = r
          /\ \A i \in 1 .. total_connections : Append(Ring, r)[i] = Ring[i]
      BY <1>3
    <3>2. Ring' = [i \in 1 .. total_connections + 1 |-> connections[i - 1]]
      BY <1>5 DEF Ring, Registers
    <3>3. connections[(total_connections + 1) - 1] = r
      BY <1>2, <1>5, <2>1 DEF Registers
    <3>4. \A i \in 1 .. total_connections + 1 :
            Append(Ring, r)[i] = connections[i - 1]
      <4>1. \A i \in 1 .. total_connections : Ring[i] = connections[i - 1]
        BY DEF Ring
      <4>2. \A i \in 1 .. total_connections + 1 :
              i = total_connections + 1 \/ i \in 1 .. total_connections
        BY <1>2
      <4> QED
        BY <3>1, <3>3, <4>1, <4>2
    <3>5. PICK s : s = Append(Ring, r)
      OBVIOUS
    <3>6. s = [i \in 1 .. total_connections + 1 |-> s[i]]
      <4>1. s \in Seq(Record) /\ Len(s) = total_connections + 1
        BY <1>3, <1>5, <1>7, <2>1, <3>5
      <4> QED
        BY <4>1
    <3> QED
      BY <3>2, <3>4, <3>5, <3>6
  <2>3. Abstract!Register(r)
    BY <1>5, <2>1, <2>2 DEF Abstract!Register, Registers, Ring
  <2> QED
    BY <1>5, <1>7, <2>1, <2>3 DEF Abstract!Next
<1>6. CASE Dispatches
  <2>1. Ring' = Ring /\ Ring # <<>>
    BY <1>2, <1>3, <1>6 DEF Ring, Dispatches
  <2>2. Ring[round_robin + 1] = connections[round_robin]
    BY <1>2, <1>6 DEF Ring, Dispatches
  <2>3. round_robin' + 1 = IF round_robin + 1 = Len(Ring) THEN 1
                                                         ELSE (round_robin + 1) + 1
    BY <1>2, <1>3, <1>6 DEF Dispatches
  <2>4. handed' = Append(handed, Ring[round_robin + 1])
    BY <1>6, <2>2 DEF Dispatches
  <2>5. Abstract!Dispatch
    BY <2>1, <2>3, <2>4 DEF Abstract!Dispatch, Ring
  <2> QED
    BY <2>5 DEF Abstract!Next
<1> QED
  BY <1>1, <1>4, <1>5, <1>6, StepOnTable

\* Queue.c:91-101,173-179,186-210.  As long as the array has its first size and
\* no consumer leaves, the loads and stores of registrations and dispatches
\* under their two mutexes implement the ring of RoundRobin.
THEOREM ImplementsRoundRobin == Spec /\ []Calm => AbstractSpec
<1>1. Init => Abstract!Init
  BY DEF Init, Abstract!Init
<1>2. /\ IndInv /\ IndInv' /\ OwnInv /\ RotationInv /\ Calm /\ Calm'
      /\ [Next]_vars
      => [Abstract!Next]_(Abstract!vars)
  BY StepRoundRobin
<1>3. IndInv /\ IndInv' /\ OwnInv /\ RotationInv /\ [Next]_vars => RotationInv'
  BY RotationStep
<1>4. QED
  BY <1>1, <1>2, <1>3, InitIndInv, StepIndInv, InitOwnInv, StepOwnInv,
     InitRotation, PTL DEF Spec, AbstractSpec, Abstract!Spec
=============================================================================
