# A TLA+ model of the IMQP server

The repository is an AMQP 0-9-1 server in C: one thread per accepted
connection, queues in memory, round-robin dispatch to the consumers of a queue.
This directory holds TLA+ modules translated from its source, TLC
configurations that model-check them on small instances, and theorems checked
by TLAPS that hold for every value of the constants. `PROJECT.json` maps every
definition to the lines of source it stands for.

## 1. The system

| Component | State | Operations | Modules |
|---|---|---|---|
| Accept loop and descriptors (`ep1_main.c`, `close_connection`) | the process's table of descriptors | accept, start a thread, close | `Server` |
| Connection thread (`Connection.c`, `Channel.c`, `Basic.c`, frame loop of `Frame.c`) | `Connection`: socket, `closed`, `publication` (queue name, size, body); accumulated `flags` | greeting, receive a frame, process a method, a content header, a body, write a reply, close | `Session`, abstract: `Dialogue`; several of them: `Server` |
| Frame decoding (`Frame.c`, `break_*`) | none | refuse or accept each part of a frame; copy a body | `Frames`, `Deliveries` |
| Frame encoding (`Frame.c`, `build_*`, `send_*`) | none | put together answers and deliveries | `Encoding`, `Deliveries` |
| Error reporting (`Flags.c`) | none | print a connection's flags | `Printed` of `Frames`, used in `Session` |
| List of queues (`Queue.c`) | `queue_list`: array, `total_queues`, `max_queues`; `mutex_queue_declare` | declare a queue; look one up by name | `QueueList`, abstract: `Registry` |
| Consumers of a queue (`Queue.c`) | `IMQP_Queue`: array of `Connection *`, `total_connections`, `max_connections`, `round_robin`; `mutex_put_connection_in_queue`, `mutex_get_next_connection` | register a consumer; hand out the next open one and remove the closed ones met on the way | `QueueConsumers`, abstract: `RoundRobin` (consumers stay), `LeavingRing` (they may leave) |
| System calls (`super_functions.c`) | none | `Recv`, `Write`, `Malloc`; `Throw` exits the process | in `Session` and `Server` |
| Build file and scripts (`Makefile`, `mk_*`, `exec.sh`) | none | build, call an AMQP client | not modelled |

How they interact:

* The thread of a connection calls everything else synchronously. Threads meet
  only in `Queue.c` (the list of queues and the array of each queue), on the
  heap (a queue keeps pointers to `Connection` records whose owner frees them),
  and on the sockets (a publisher's thread writes a delivery to a consumer's).
* `queue.declare` appends to the list under `mutex_queue_declare` and writes
  its answer before it unlocks. `basic.consume` and a body frame search the list
  with no lock.
* `basic.consume` appends to a queue's array under
  `mutex_put_connection_in_queue`; a body frame takes the next consumer from the
  same array, and removes closed ones, under `mutex_get_next_connection`. The
  two run concurrently.
* A connection ends on an error in a frame, on the end of the stream or on
  `connection.close`; its record is then marked closed and freed. A failed
  `Recv` or `Write` ends the process.

What is hard, and where it is looked for:

| Behaviour | Where | Properties |
|---|---|---|
| Two mutexes over one array: registration, dispatch and removal interleave load by load | `Queue.c:91-101,186-229` | `IndexInTable`, `TableInitialised`, `RegisteredOnce`, `FairRotation`, `AbstractSpec`, `LeavesCleanly`, `DispatchEnds`, `DispatchAdvances` |
| Records freed under pointers that remain | `Connection.c:42-43`, `Queue.c:228` | `SafeUntilConsumerLeaves`, `NoFreedRecordRead` |
| Arrays that fill up and are resized by a count of bytes | `Queue.c:164-167,174-177` | `InBoundsUntilGrowth`, `SafeUntilGrowth` |
| A list searched without a lock while it is appended to | `Queue.c:92,187` | `Linearizable`, `DeclaredIsFound`, `SafeUntilGrowth`, `AppendOnly`, `NamesUnique` |
| A lock held while writing to a peer that may not read | `Queue.c:112,119` | `LookUpEnds`, `LookUpAdvances`, `PeerGoneEnds`, `DescriptorReturns` |
| Frames sent ahead, cut short, malformed; peers that disappear | `Frame.c:142-305` | `AnsweredInOrder`, `OnlyWholeFrames`, `EndsForOneReason`, `ThreadAdvances`, `PeerGoneEnds` |
| A message spread over three frames | `Frame.c:174,219,231`, `Basic.c:67` | `PublishedInOrder` |
| A socket closed twice, its number used again in between; descriptors at their limit | `Connection.c:42,66`, `ep1_main.c:72` | `OwnDescriptor`, `NoDescriptorLeak`, `DescriptorReturns`, `ServerStaysUp` |
| One socket written to by its own thread and by publishers; a delivery that overtakes the consume-ok | `Queue.c:81`, `Frame.c:654-663,913-927`, `Basic.c:57` | `BytesReachTheirPeer`, `AnnouncedTag` |
| A consumer that does not read | `Queue.c:190,81` | `DispatchNotBlocked` |
| One failed call, one frame or one body too large ends the process | `super_functions.c:28`, `Frame.c:269,1032` | `DownForAReason`, `ServerStaysUp` |
| Sizes: 16-bit counts, one-byte lengths, a length nobody wrote, buffers, messages of several frames | `Frame.c:231,638,705,913-927,1033,1103` | `FramedRightly`, `FitsItsBuffer`, `OneFrameIsIntact`, `OneFrameFits` |
| A protocol step of one client that depends on another one's | `Queue.c:91-127` | `DeclaredQueueIsKnown` |

`PROJECT.json` lists the hazards line by line, including those no property
covers yet.

## 2. Modules and how they correspond to the code

`QueueConsumers` — **one queue and the threads that use it.** The variables are
the fields of `IMQP_Queue`, the two mutexes, the heap of `Connection` records
(`allocated`, `closed`, and each client's own `record`) and, per client, a
program counter and the registers of the operation it is in. `capacity` is the
number of slots the allocation really has, as opposed to `max_connections`: the
first allocation is `sizeof(Connection) * INITIAL_MAX_CONNECTIONS` bytes
(`Queue.c:142`), a later one `max_connections` bytes (`Queue.c:176`). An action
is one access to memory that another thread may be writing, in the order the
build's unoptimised code makes them: `queue->total_connections += 1` is a load
(`LoadTotal`) and a store (`StoreTotal`). Registration is `BeginPut`, `Grow`,
`LoadIndex`, `StoreSlot`, `LoadTotal`, `StoreTotal`; dispatch is `BeginGet`,
`CheckIndex`, `CheckClosed`, `Advance`, `Deliver`; removal is `IsInner`,
`Shift` (one turn of the loop), `IsLast`, `DropLoad`, `DropStore`,
`FreeVictim`, after which the recursive call starts again at `CheckIndex`. A
client is a connection: `Connect` allocates and zeroes its record, `Leave`
marks it closed, `Release` frees it. An access outside the allocation and a
second free have no defined outcome; `OutOfBounds` and `DoubleFree` record them
in `fault` and nothing happens after. A freed record keeps its `closed` field
until it is allocated again.

`RoundRobin` — **what a queue promises while its consumers stay**: a ring, in
the order of registration, and whose turn it is. `QueueConsumers!AbstractSpec`
says that the loads and stores implement it, with the first
`total_connections` slots as the ring.

`LeavingRing` — **what a queue promises when consumers may leave**: the same
ring, in which a dispatch looks at the consumer whose turn it is (`Look`) and
then serves it or, if its connection has ended, takes it out and passes the turn
on (`Drop`). `QueueConsumers!LeavesCleanly` says that the loads and stores
implement it for as long as the array has not grown and `raced` is false. The
history variable `raced` remembers that a registration between loading and
storing the total (`Storing`) met a removal between the end of its loop and its
store of the total (`Dropping`): the total stored last then forgets the other's
change, and the code really loses a consumer or keeps one that is gone. TLC
finds `LeavesCleanly` violated without that premise, so nothing less than this
overlap can be left out. The mapping: while a removal pulls the table down, one
entry is in it twice, or is about to be overwritten (`Gap`); the ring (`Seats`)
is the table without it. A consumer leaves the ring at `IsInner`, when the
removal decides what to pull down; each `Shift` moves the gap up and leaves the
ring alone, and a registration meanwhile appends behind the gap.

`QueueList` — **the list of queues.** A declaration is `Declare` (lock,
allocate the list if it is the first, search it), `Grow`, `StoreEntry`,
`StoreTotal`, `Reply` (write and unlock). Its own loads need no step of their
own, since only the holder of the mutex writes the list. A lookup is `LookUp`,
then for each entry `LoadTotal`, `LoadList` (the base pointer, which `realloc`
may change: `block` tells allocations apart) and `LoadEntry`. A queue is
represented by its name, which is written before the pointer to it is stored
and never changes. `Outside` is an access beyond the allocation, to an old
allocation, or to an entry nobody wrote.

`Registry` — **what the list of queues promises**: declarations take turns and
add their name at one moment; a lookup is answered as the list is at one moment
between its begin and its answer. `QueueList!Linearizable` says that `QueueList`
implements it until the list grows: a declaration takes effect at `StoreTotal`,
a lookup at the comparison that finds its name, or at the test that ends the
loop.

`Frames` — **what a frame is refused for** in `break_frame_header`,
`receive_frame_payload`, `break_method_frame_payload` and the argument decoders
(`HeaderFlags`, `PayloadFlags`, `EndFlags`), what it is answered (`ReplyTo`)
and what `Flags.c` prints of the flags in the end (`Printed`, by the bits its
loops visit). A frame is a record with the fields those functions look at; what
is wrong with its arguments is one word (`args`). `ScrapFlags` is the decoding
of a payload of which only a part arrived: any outcome the decoder has.

`Session` — **one connection thread against its peer.** The peer may greet
rightly or wrongly, send frames without waiting, end its side between frames or
anywhere inside one, or reset the connection at any moment. Other clients
declare queues: `elsewhere` says that a thread of theirs holds
`mutex_queue_declare`, which it does until its answer is written, and
`ProcessDeclare` waits for it; from there to its own answer this thread has the
mutex (`Declaring`). A frame arrives in three pieces (header, payload, end byte)
as `receive_frame` asks for them; `Receive` has the four outcomes of `Recv` with
`MSG_WAITALL`: all of the piece, a part of it, nothing at the end of the stream,
an error. There is an action per handler, and one per `Write`. `Continue` and
`End` translate the tests of `flags & (ERRORS | CONNECTION_ENDED)` after each
call. `close_connection` of the handler (`Close`) and the end of
`process_connection` (`Finish`) are separate. `lookup` and `deliver` are
`publish`: the outcome of the search for a consumer is left open here, since it
is the subject of `QueueList` and `QueueConsumers`. `welcome`, `replies` and
`published` are histories.

`Dialogue` — **what a connection promises its peer**: requests are dealt with
one by one in order, each that calls for an answer gets that one answer, and
nothing is dealt with after the end. `Session!AnsweredInOrder` says that
`Session` implements it.

`Server` — **the whole process**: the accept loop, the table of descriptors, and
a thread per connection. `table` says whose stream a number refers to;
`socket[c]` is the number in the record of `c`, which stays there after a
`close`. `Accept` gives out the lowest free number, as POSIX says of `accept`,
and may be followed by a `pthread_create` nobody checks (`Unlucky`).
`BeginRecv` and `Get...` are the two ends of a `Recv`: one that waits holds on
to the stream it began on, even when another thread closes the number
meanwhile, while the next `Recv` or `Write` on it finds what is there then. A
frame sent before its peer ended the stream still arrives (`Readable`). A frame
whose payload does not fit the thread's stack (`GetHugeFrame`), and a body that
does not fit its record (`GetLongBody`), have no defined outcome; `down` says
which it was and nothing happens after. A declaration is `GetDeclare`,
`LockDeclare` and `SendDeclareOk`: who stands at "declare_ok" has
`mutex_queue_declare`, and everybody else waits until the answer is written.
`depth` counts the calls of
`receive_and_process_frame`, which calls itself for each frame. The queue is
`RoundRobin`, composed by `INSTANCE`: `Q!Register` is in the step that receives
basic.consume, before `DefineTag`, `FinishTag` and `SendConsumeOk`, as
`put_into_queue` comes before `send_basic_consume_ok`. A delivery is `Dispatch`
(under the mutex), `AnnounceDelivery` and `CopyTag` (the first and the last of
the reads of the consumer's tag, which its own thread may be writing) and
`WriteDelivery`.
The end of a connection is `CloseMethod` (in the handler of connection.close
only), `Close` and `Release`. `wire` is the history of what each peer was sent,
`reused` that of a number given out while a thread was about to close it again.

`Encoding` — **the frames Frame.c builds, by their sizes**: for each `build_*`
function, the payload size it announces, the bytes it writes before the end
byte, and the same for the strings inside. `message_build_n` copies `n % 2^16`
bytes, `message_build_b` keeps a length modulo 256.

`Deliveries` — **a message from its publisher's frames to its consumer's**, with
sizes: the copies of `break_body_frame_payload` and `process_body_frame` take
`publication.size` bytes, whatever the frame holds. Two threads meet: the
publisher's puts a delivery together, three frames in one buffer, and for it
reads the consumer's `consumer_tag_size` three times (`AnnounceTagSize` for the
size of the payload, `SayTagSize` for the byte before the tag, `CopyTag` for the
tag itself), and then writes it (`WriteDelivery`); the consumer's defines that
size (`DefineTag`) and answers (`AnswerConsume`, and all other answers of
`Encoding`), anywhere in between. The history `raced` of a write says that the
tag was first defined between the first and the last of its reads. The publisher
keeps to the protocol (name, size, then the body in as few frames as `frame_max`
allows).

`MCQueueConsumers`, `MCSession` and `MCServer` are the instances for TLC: the
symmetry set, the sets of frames, the connections. `QueueConsumersProofs`,
`RotationProofs` and `RemovalProofs` (which extend it), `LeavingRingProofs`,
`QueueListProofs`, `SessionProofs`, `ServerProofs` and `DeliveriesProofs` hold
the theorems.

Faulty variants, marked as such, stand next to some actions. Each is the
action with a plausible bug; putting it in the action's place makes TLC find
the property named with it in `PROJECT.json` violated.

## 3. What the runs check

| Run | Instance | Shows |
|---|---|---|
| `consumers_stay` | 3 consumers (one also publishes), 2 publishers that may leave, 5 records, 4 dispatches between registrations | Every completed `basic.consume` is in the table exactly once; every pointer handed out is to an open, allocated record; as many dispatches in a row as there are consumers serve each once, and the next round keeps the order; refinement of `RoundRobin` |
| `consumers_growth` | initial size 3, 2 consumers registering twice, one of which may leave, 1 publisher, 3 dispatches between registrations, fair | With registrations and removals under different mutexes, the index stays in the table, no total becomes negative, no unwritten slot is loaded, no access is outside the array until it grows; refinement of `LeavingRing` until then or until a registration overlaps the end of a removal; a dispatch ends, and only registrations put that off |
| `declares` | 2 clients, 3 names, 3 calls each, list of 2, a client whose peer may not read, fair | One queue per name; what was acknowledged is found; entries never move; no access outside the list until it grows; refinement of `Registry` until then; lookups end although a declaration may be stuck, within the steps the list has room for |
| `conversation` | any 3 of 10 frames: requests, publish (two queues), header (two sizes), body | Answers in order, once each, none after the end; a queue acknowledged to this peer is known to its next consume; each body is published once, with the latest name and size |
| `malformed` | any 2 of 19 frames: every handler not in the other run, every kind of refusal; one queue name, declared elsewhere too; fair | Only whole, accepted frames have an effect; one reason per end, and that is what is printed; every step of the thread is one forward; it ends when the peer is gone, unless others keep `mutex_queue_declare` from it or its delivery's reader does not read |
| `server` | 3 connections, 2 descriptors: a consumer that may leave, a publisher that closes (and may get no thread), a client that asks, declares, closes, resets or sends a frame too large; bodies that do not fit; 2 frames each | Every open connection has its own socket, in spite of the double close; no descriptor is lost; deliveries reach the consumer they are for, after its consume-ok and with its tag; of the causes modelled, none but those named ends the process |
| `server_live` | 2 connections, each publishing, declaring, closing, leaving; one consumes and may stop reading, the other asks and may get no thread; 2 frames each; fair | A stuck delivery stops no other dispatch; the descriptor of a connection that ends comes back, after its last answers and deliveries, but for the four exceptions of `DescriptorReturns` |
| `deliveries` | 3 messages of 0, 1, 2992, 2993 or 3000 bytes, names of 0 or 255 bytes, `frame_max` 3000, the tag defined at any moment | Exactly the deliveries that the first definition of the tag falls into are not as long as they say; everything fits its buffer; a message in one frame arrives whole, even after one in two; it leaves no record |
| `consumers_freed` | 1 consumer that leaves, 1 publisher | Violation, see section 6 |
| `heartbeat`, `tune_limits` | one frame | Violations, see section 6 |
| `server_down` | 2 clients that keep to the protocol | Violation, see section 6 |

**Bounds.** `MaxConsumes`, `MaxHanded`, `MaxCalls`, `MaxSent`, `MaxMessages` and
`MaxWrites` bound how often something is begun, in the guard of the action that
begins it; the theorems need none of the bounds. `MaxDepth` of `Server` is not
one of them: it stands for the calls a thread's stack holds, where the process
really ends. Each instance is large enough for what it is about: two threads
inside registration contend for its mutex while a third is inside dispatch;
three registered slots make the removal loop move an entry while another
registration runs; four dispatches with three consumers go once round and
beyond; an array of three is full after three of the four registrations, and a
list of two is shorter than the names, so that both grow; a message needs three
frames. Three connections over two descriptors make numbers be used again, the
table fill up, and a third thread come between the two closes of a second; two
frames are a consume and what follows it. Two connections are enough for what
`server_live` asks: one that does not read, and one that waits for it in each of
the ways there are (in a delivery to it, or for the mutex it holds). One name is
enough in `malformed`, since whoever declares holds the same mutex. The sizes
are those on both sides of each limit: 2992 bytes are the largest body of one
frame of 3000, 2993 the smallest of two, 3000 does not fit the record, and 255
is the longest name. `MaxHanded` counts from the last registration, so rotations
start from every table. `INITIAL_MAX_CONNECTIONS` is 1000 and
`INITIAL_MAX_CONNECTIONS_QUEUES` 120 in the code; they are constants here
because what matters is whether the array is full.

**Symmetry** is used in `consumers_stay`, over records and over clients with the
same rights, and in no run with a liveness property.

**Deadlock** is checked in every run. A state in which no thread is inside an
operation, or in which the process is gone, is one in which the system may
stop, and the action `Quiescent` marks it; everywhere else somebody has to be
able to move.

**Fairness.** `QueueConsumers!FairSpec` assumes that a thread inside a
registration or a dispatch is scheduled again: all of these steps are memory
accesses between lock and unlock, never system calls. It does not assume that
anybody starts an operation, or that a mutex is obtained. `QueueList!FairSpec`
assumes the same for declarations and lookups, and that the write of a
declare-ok ends, except for clients whose peer may not read (`Slow`).
`Session!FairSpec` assumes that the connection's thread goes on when it can, and
that its answers to its own peer end. It does not assume that the peer sends
anything, that the thread that holds `mutex_queue_declare` lets go of it (it
may be stuck in its own answer, `Queue.c:119`), that this thread gets the mutex
when others take turns, or that a delivery to a consumer ends: `PeerGoneEnds`
names these as the cases in which a thread whose peer is gone remains.
`Server!FairSpec` assumes that a thread that waits for nobody is scheduled, that
a stream that has ended is noticed by the `Recv` that waits on it, and that a
write, of an answer or a delivery, ends unless the stream it may be on is that
of a peer in `Slow`, which may stop reading (`Stuck`). It does not assume that a
thread which waits for `mutex_queue_declare` gets it when others do; nobody has
to send anything or to connect. `DescriptorReturns` is about every connection,
and its exceptions are what this leaves: the process is gone, no thread was
created, the thread is `Stuck`, or it waits for a mutex that another holds for
ever or that others take in turns. Without any one of them TLC finds a
counterexample.

## 4. What is proved

All theorems are of the specification without fairness, for every set of
clients, records, names and frames, every size and every bound, from the named
assumptions of the modules alone (roles are sets of clients, `Null` is no
client, record or descriptor, sizes are positive, descriptors and the fields of
a frame are numbers, `frame_max` is at most the one the server offers).

**`QueueConsumersProofs`.** `IndexInTable` is not inductive by itself: the
index is below the total when it is tested, but the total is then changed by a
thread that holds the other mutex. `IndInv` adds
* `MutexInv`: a thread is inside an operation iff it holds its mutex, so there
  is at most one registering and one dispatching thread;
* `PutInv`: what the registering thread has loaded is never below the total,
  which can only fall meanwhile, and leaves room for one more;
* `GetInv`: for each step of dispatch and removal, how far the index is below
  the total, or below the register the total will be set from. The total can
  only rise meanwhile, except by the removal's own store;
* `TableInv`: until the array grows it has `max_connections` slots and those
  below the total, and below what the total is about to be, are written.

From it follow `TypeCorrect` (in particular that the racing stores never make
a counter negative), `IndexCorrect`, `TableCorrect` and `BoundsCorrect`. The
race does lose registrations; the invariant shows that it does no more than
that. `SafetyUntilConsumerLeaves` needs a second invariant, `OwnInv`, about the
records: until a consumer's connection ends, the allocated ones are those of
the live threads, each of its own, no slot below the total holds one of a
thread that leaves, and removal is never entered.

**`QueueListProofs`.** `MutexInv`, `SizeInv` (the list has room for the entry a
declaration has decided to add) and, until the list grows, `TableInv` (the
names are distinct and include those acknowledged), `AdderInv` (the name being
added is not in the table yet, and is at the entry the counter will admit) and
`WalkInv`: a lookup of a name acknowledged before it began still has that name
ahead of it. `WalkInv` is what makes the lock-free search correct, and holds
because entries are only appended, which `TableOnlyAppends` states.
Theorems: `TypeCorrect`, `OneQueuePerName`, `DeclaredFound`,
`SafeBeforeGrowth`, `TableOnlyAppends`. `PassedInv` (none of the entries a
lookup has passed is the one it looks for, and it is never past the end) makes
the answer "missing" right at the moment of the last test of the loop, and with
it `TakesEffectAtOnce`: every step of `QueueList` is a step of `Registry` or
leaves its variables alone. From the same invariant `LookUpsAdvance`: the steps
a lookup has left are at most three for each entry the list has room for beyond
those it has passed, and two, and each step it takes lowers that number.

**`SessionProofs`.** `OnlyWholeFrames` looks at the frames already dealt with;
`IndInv` adds what the thread knows of the one it is at (`FrameInv`: at each
label, which of its pieces were received and accepted, if they were received
whole), that a frame of which only a part has arrived stays that way
(`CutInv`: such a peer sends no more), and that a handler runs on a frame meant
for it (`HandlerInv`). `StepKinds` sorts the steps of the thread by what they do
to the current frame, so that each part is proved once per kind and not once
per handler. `WholeFramesOnly` and `TypeCorrect` follow, and
`ImplementsDialogue`: every step of `Session` is a step of `Dialogue` or leaves
its variables alone; an answered frame is one that was sent, which `FrameInv`
provides. Further invariants lead to further theorems. `ReasonInv` (no flag
that ends a connection is raised while it goes on, and one by the step it ends
with) rests on what decoding can raise (`FewFlags`: one flag at most for each
piece) and gives `OneReason`. `KnownInv` (a queue is declared before its
declare-ok is written, and stays declared; the flag of a refused consume is
raised by nothing else) gives `DeclareOkHolds`. A third, `PubInv` (the
publication holds what the last publish and the last header frame before the
current one named), gives `PublicationsInOrder`. `ThreadOnlyAdvances`: by
`ThreadKinds` every step of the thread goes on to a later stage of the frame it
is at or is done with that frame, and by `FramesLeft` it is never past the frame
after the last one sent.

**`RotationProofs`.** For `RegistrationsCounted`, `CountInv`: the slots below
the total that hold a client's record are as many as its completed calls, which
only the store of the total changes. For `RotationIsFair` the history of
hand-outs is described in two ways: `Turned`, its last `total_connections`
entries are the table read backwards from the index, and `Rounds`, every window
of that length is the whole table and is repeated with that period. A
registration restarts the history; a hand-out extends it by the slot the index
points to, which by `Turned` was served `total_connections` hand-outs ago. The
theorem holds with a connection registered twice. For `ImplementsRoundRobin`,
which is `Spec /\ []Calm => AbstractSpec` (`Calm`: no consumer has left, the
array has not grown), every step is one of `Registers`, `Dispatches` and
`Stays`, and each of these is a step of `RoundRobin`, or a stutter, with the
first `total_connections` slots as the ring.

**`RemovalProofs`.** `ImplementsLeavingRing` is `Spec => LeavesCleanly`. Two
invariants say why the overlap of `raced` is all that can go wrong: `RaceInv`
(an overlap is remembered), and `FreshInv`, which holds until there is one: what
a thread has loaded is still so when it stores (the registration's slot and
total, the dispatch's connection, the bounds of the loop, the removal's total).
Then there is a lemma for each step, which says what becomes of `Seats`, `Turn`
and `Verdict`. The hard ones are `IsInnerStep` (the ring loses exactly the entry
whose turn it is, though the table has not changed yet), `ShiftStep` (the entry
copied down is the one above the gap, so the ring stays) and `StoreTotalStep`
(a registration appends to the ring, also while others are pulled down).
`DispatchesAdvance` bounds a dispatch by `StepsAhead`: with `n` entries in the
table, n(n + 8) steps and those left of the round under way. `LoopInv` (the
loop's counter does not pass the total) keeps it from being negative, and
`FewerEntries` is the arithmetic: the entry a removal takes away outweighs the
way back to the beginning. It holds with overlaps and after growth too.

**`LeavingRingProofs`.** That the abstract promise makes sense: the turn is
always somebody's (`TurnIsSomebodys`), and while no connection ends it is the
promise of `RoundRobin` (`PlainWhileNobodyLeaves`).

**`ServerProofs`.** `OwnDescriptor` is not inductive: `Control` adds what a
thread's label says of its record (`ThreadInv`), that somebody's turn it is
(`RingInv`), who is in the queue (`MemberInv`) and is delivered to
(`DraftInv`), and `Owned`: whoever is at a descriptor is open and has it as its
socket, or was given no thread (`Kept`, which gives `NoLeak`), and, until a
number is reused, what a thread is about to close a second time refers to
nothing (`ClosedTwice`), which is why the second close harms nobody.
`SocketIsOwn`, `NoLeak`, `Reached` and `EndsForAReason` follow. What
`EndsForAReason` says is relative to the module: of all that `Server` knows to
end the process, until a consumer leaves or a number is reused, it is a peer
that goes, a full stack, a frame or a body that is too large, or a full table of
descriptors, and never one of the many closes or writes on a number that is not
open. Memory that runs out is not among them (section 5). `TagInv` follows
the tag of a connection that consumes once through its three stages, so that a
delivery dispatched after its consume-ok reads the same tag twice; it gives
`TagAnnounced`.

**`DeliveriesProofs`.** `WiresRight`: every write is one the code may make, and
right but for those marked `raced`; the sizes follow by arithmetic. `DraftInv`:
what was read of the tag's size is the same and still so, unless the tag was
defined meanwhile, and then it is what the first read found (0) and what the
last one finds (the whole tag) that differ. It makes `EveryFrameRight` an
equivalence: a delivery has a frame that is not as long as it says if and only
if the first definition of the tag fell between its reads; defining it again
does no harm. `SendingInv`: what the delivery under way is of. `ClientInv`: the
size in the publication is that of the message under way, of which nothing has
been delivered yet if it takes one frame. `BegunInv`: no delivery is of a later
message. With `OneFrameIsIntact` and `OneFrameFits` themselves they are
inductive.

**Only model-checked.** Liveness (`DispatchEnds`, `LookUpEnds`, `PeerGoneEnds`,
`DispatchNotBlocked`, `DescriptorReturns`) and everything under fairness, since
TLAPS has no rules for `ENABLED` here. Proved of the first three is the part
that is not about fairness: a measure that every step of the thread in question
lowers, that is never negative, and that the others do not raise
(`LookUpsAdvance`), or raise only by a registration that completes
(`DispatchesAdvance`) or a frame that arrives (`ThreadOnlyAdvances`). What is
left to TLC is that the thread can always take its next step.

## 5. What is not modelled, and why

* The order of bytes in a frame and the values of its fields, apart from sizes;
  the copying of names by the decoders. (A long exchange name is copied past
  `exchange_name` (`Frame.c:545`), into `queue_name`, which is decoded next and
  overwritten.)
* In `Server`: the greeting, and frames in pieces (both in `Session`), and what
  a dispatch does with the record of a connection that has ended (the subject of
  `QueueConsumers`): the behaviour ends there, with `down = "undefined"`.
  `Server` has one queue; `QueueList` has many.
* What happens after a copy leaves the object it is made to (a message larger
  than its record), or after a payload does not fit the stack: `Deliveries`
  (`overrun`) and `Server` (`down = "overrun"`, `"huge_frame"`) note it and the
  behaviour ends there. So every theorem about what is written speaks of bodies
  the record holds.
* Memory other than `Connection` records: the record of a queue that was already
  declared leaks, and `malloc` never fails. (It is one more cause that ends the
  process, `super_functions.c:51-58`, which `DownForAReason` leaves out; so are
  the accesses outside the arrays of `Queue.c` after they grow, which are the
  subject of `QueueConsumers` and `QueueList`.)
* The output of `SNIFF_MODE` (on, `IMQP.h:18`) and `DEBUG_MODE` (off), and the
  wording of `Flags.c`. `print_queue_list` reads every table and the `closed`
  field behind every pointer in it: it adds reads, none of which changes state.
* The set-up of the listening socket (`ep1_main.c:46-66`), which happens once
  and ends the process if it fails; build file and scripts.
* Weak memory: an action's effect is seen by all threads at once.

## 6. Disagreements found

* `consumers_freed`: the record of an ended consumer is freed by its thread
  while the queue still points to it; the next dispatch reads it
  (`Connection.c:43`, `Queue.c:202`), and then frees it again (`Queue.c:228`). The
  comment at `Queue.c:223` wants to "prevent invalid memory access".
* `heartbeat`: `Flags.c:63` announces a warning for a received heartbeat; a
  heartbeat has an empty payload, for which `Recv` returns 0, and ends the
  connection as if the stream had ended (`Frame.c:271`).
* `tune_limits`: the limits of `tune-ok` are parsed out of the zeroed record
  they are to be stored in (`Frame.c:453`), so `INVALID_TUNE` (`Flags.c:42`) is
  never raised.
* `server_down`: after connection.close the socket is closed in the handler
  (`Connection.c:66`) and its number again in `process_connection`
  (`Connection.c:42`). A client accepted in between loses its socket to the second
  close, its next `Recv` fails and `Throw` (`super_functions.c:28`) ends the
  process, which `ep1_main.c:69` says is ended by its operator. (A client that
  resets its connection has the same effect by itself; `DownForAReason` lists
  the causes among what is modelled.)

## 7. Plan

The order was: the data shared by the threads first (`QueueConsumers`,
`QueueList`), then a single conversation (`Frames`, `Session`, `Dialogue`), then
the process that composes them (`Server`) and the sizes (`Encoding`,
`Deliveries`), each with its proofs. What could be added:

1. `Server` over several queues, with `QueueList` for the lookup.
2. The decoders' copies of names, with the layout of the records they go to.
3. What is left of `LeavingRing` after a registration has overlapped the end of
   a removal: the ring with one consumer lost or one too many.
4. Measures for `DispatchNotBlocked` and `DescriptorReturns` of `Server`, like
   those of `QueueConsumers`, `QueueList` and `Session`.
