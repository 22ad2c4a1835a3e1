# A verification project for ScalaTrace-TI

ScalaTrace-TI records the MPI calls of a parallel program, compresses them while the program
runs, merges the traces of all ranks when it ends, and replays the result. These TLA+ modules
model the parts where that is hard to get right, TLC checks them on small instances, and TLAPS
proves the properties of recording and replaying nonblocking messages and communicators, that folding
loops while the program runs loses nothing, that neither the exchange of traces in `MPI_Finalize` nor
their merge does, that the exchange never gets stuck, of rank lists, the encoding of endpoints and histograms, and the safety of both replays of a job's messages,
for every size.
Paths below are relative to the repository's root; `libsrc/mpi-spec` stands for
`src/record/libsrc/mpi-spec.umpi.extract`, the file of wrapper bodies.

## The system

    program -> wrappers -> Event -> Trace::appendEvent -> fold loops          (every rank, every call)
    MPI_Finalize -> barrier -> receive children's traces, LCS-merge, send to parent -> file at rank 0
    file -> Trace::inputTrace -> traverse -> replay_* -> MPI                  (deterministic replay)
    file -> Context (own and each sender's) -> histo_replay -> MPI            (probabilistic replay)

| Component | State | Operations | Talks to | What is hard, what must hold |
|---|---|---|---|---|
| Request ring, `ReqHandler.C` | ring of request handles, cursor | add, look up offset of a handle or handle at an offset, reset | wrappers, replay | MPI reuses handle values; the ring wraps. An offset names the request waited for. |
| Replay buffers, `mem_handler.C` | ring of buffers, cursor | add (frees what it overwrites), free at an offset, finalize | replay | Two rings kept in step by hand. A buffer is freed once, after its request completed. |
| Handle tables, `PtrHandler.C` | ring of user handles, list of built-ins | handle to index, index to handle, add, remove | wrappers, replay | Two MPI libraries with other handles. A call is replayed on its communicator. |
| Endpoints, `Event.h` | none | encode and decode sources, destinations, keys | wrappers, replay | Wrap-around and values that are no ranks. |
| Wrappers, `libsrc/mpi-spec` | trace, `record_req`, `record_ptr` | one per MPI call | all of the above | Calls whose wrappers are commented out leave the tables stale. |
| Parameters, `Param.C`, `ParamValue.C` | values x repetitions per set of ranks, read position | merge over time and over ranks, period compression, read | Event, Loop | No value lost, moved or counted twice. |
| Folding, `Trace.C`, `Loop.C`, `Event.C` | list of events with loop stacks and MEMBER marks | append, search a repetition, fold | Params | Long call sequences reach odd nestings. The trace reads back as the calls. |
| Merging, `Trace::LCSMergeTrace` | master and slave trace | LCS table, merge pairs, move the rest | Params, Ranklist | Each rank reads back its own calls, in order. |
| Reduction, `MPI_Finalize`, `radix_tree.c` | position of each rank, messages | barrier, receive, merge, send, write | Merging | Distributed: no deadlock, nothing lost or twice. |
| Rank lists, `Ranklist.C` | nested strided runs | merge, compress, expand, membership, count | Params, Event | The compressed list is the set. |
| Histograms, `Histogram.C`, `HistoBin.C` | five bins, extremes with ranks, average | add, smooth, merge, draw | Stat, Param | Totals and extremes survive merging. |
| Context, `replay/context.C` | next event, loop stack | next | probabilistic replay | Agrees with the recursive traversal, as any rank. |
| Statistics, `Stat*.C` | histogram per predecessor signature | record, merge | Histogram | Same path, same histogram. |
| Probabilistic replay, `histo_exec.C`, `handle_queue.C` | contexts of all senders, pending receives, tags, queue of requests | send, post receives up to a time, test, drain | Context, Timer | Receivers re-derive what senders draw; matching, completion. |
| Timer, RandMnger | time left to simulate, values drawn | simulate computation with a tester and a handler; draw | probabilistic replay | Receives are posted while time passes; both sides draw the same. |
| Operation records, `record/wrapper-engine/umpi_*.c`, `mpi_pack.c` | an operation, its arrays, a buffer | size, pack, unpack: a generated function per MPI call | (the Umpire runtime) | Three sets of functions that must agree field by field and byte by byte. |
| Approximate folding, LOOP_LCS | pending iterations | LCS of iterations, merge later | Trace | Off by default. |
| Stack signatures; Umpire queues and tables; the generator itself; scripts and data | | | | Not modelled, see below. |

The tracer is sequential within a rank: it runs inside the wrappers of the program's MPI calls.
What is concurrent are the ranks: the messages of the program when it is recorded and replayed, the
exchange of traces in `MPI_Finalize`, and senders and receivers in the probabilistic replay. Nothing is persisted but the trace file, written once at the end, so there is no crash
recovery. The other hazards are long legal call sequences, and tables at their limit; they are
listed at their lines in `PROJECT.json`.

The models follow the default build: `RETAIN_TAGS=n` (`MessageReplay`: both), `PARAM_HISTO=n`
(`HistoReplay` reads lossy traces too), `SIG_DIFF=0`, `LOOP_LCS=n`, cross-node compression on.

## The modules

| Module | Models | Extends or instantiates |
|---|---|---|
| `RequestRing` | `ReqHandler.C` as operators on a ring | |
| `BufferRing` | `mem_handler.C` | `RequestRing` |
| `CallLog` | abstract specification: a replay makes the recorded calls in order | |
| `RecordReplay` | one rank posting and waiting for requests while recorded, and the replay of its trace; refines `CallLog` | `BufferRing`, `CallLog` |
| `RecordReplay_proofs` | proofs about `RecordReplay` | `RecordReplay`, TLAPS |
| `Params` | `Param`, `ParamValue` | |
| `LoopFold` | `fastCompressLoop` and what it calls | `Params` |
| `VisitOrder` | abstract specification: the calls a folded trace stands for, in their order, without reading it | `LoopFold` |
| `LocalTrace` | one rank appending events | `VisitOrder` |
| `LocalTrace_proofs` | proofs about folding | `LocalTrace`, TLAPS |
| `TraceReader` | recursive traversal (`traverse`, used by deterministic replay) | `Params` |
| `ContextReader` | traversal by a loop stack (`Context::next`, used by probabilistic replay) | `Params` |
| `Ranklist` | rank lists of ranks merging in any order | |
| `RadixTree` | `radix_tree.c` | |
| `Reduction` | the protocol of `MPI_Finalize`, a trace being the set of ranks it holds | `RadixTree` |
| `Reduction_proofs` | proofs about `Reduction` | `Reduction`, TLAPS |
| `TraceMerge` | `LCSMergeTrace`, `inputTrace` for one rank | `Params` |
| `TraceReduce` | the protocol with real traces: every step is a step of `Reduction` and does to the traces what the code does | `LoopFold`, `TraceMerge`, `Reduction` |
| `TraceReduce_proofs` | that `TraceReduce` implements `Reduction`; proofs about merged traces | `TraceReduce`, `Reduction_proofs`, TLAPS |
| `HandleMapper` | the class, as operators on a table | |
| `CommHandles` | a rank recorded creating, using and freeing communicators, and its replay | `HandleMapper` |
| `CommHandles_proofs` | proofs about `CommHandles` | `CommHandles`, TLAPS |
| `PeerCode` | the macros of `Event.h` for sources, destinations, keys and tags | |
| `Endpoints` | the macros over all ranks of a job | `PeerCode` |
| `MessageReplay` | all ranks of a job exchanging messages, recorded and then replayed deterministically | `PeerCode` |
| `MessageReplay_proofs` | proofs about `MessageReplay` | `MessageReplay`, TLAPS |
| `HistoReplay` | all ranks in the probabilistic replay: `histo_exec.C`, `handle_queue.C`, `RandMnger.C`, the control of `Timer.C` | |
| `HistoReplay_proofs` | proofs about `HistoReplay` | `HistoReplay`, TLAPS |
| `Histogram` | `Histogram`, `HistoBin`; ranks adding and merging | |
| `OpLayout`, `OpPack`, `OpPackSize`, `OpUnpack` | the generated functions, each as the fields it handles in order | |
| `OpLookup` | the tables of these functions by operation (`main.c`, lookup) | `OpPack`, `OpPackSize`, `OpUnpack` |
| `OpPacking` | an operation recorded, packed into bytes, unpacked | `OpLookup` |
| `Encodings` | `Ranklist`, `Endpoints`, `OpPacking` and `Histogram`, which share nothing, side by side | these four |
| `Encodings_proofs` | proofs about rank lists, peers and histograms | `Encodings`, TLAPS |
| `MC*` | properties that need recursion, values of constants, symmetry | |

### How states and actions correspond to the code

*RecordReplay.* `rec`, `rep`, `mem` are `record_req`, `replay_req` and `mem_array`. `trace` holds
per event what the file holds (`op`, `offs`) and, as history, the cursor and the requests meant.
`live` and `inflight` are MPI's: a handle may be any value that names no outstanding request. A
wrapper is one action (look up, call MPI, record, reset), since nothing of the rank runs in
between. An `exit(1)` of the tracer or the replayer is phase "aborted".

*LocalTrace, LoopFold.* A node has an operation (op code with stack signature), one scalar
parameter (the length of the array) and one array parameter: all parameters of an event go through the
same two paths, `addScalarValue` and `addVectorValue`. `AppendEvent` is the whole of
`appendEvent`: append, then fold until nothing folds. A read of the trace takes a first node with
loops for those loops only; the first node is always that of `MPI_Init`, which has none. `VisitOrder`
says what the loop stacks mean without following them: a visit is a node and an iteration of each
loop around it, and of two visits the one in the earlier iteration of the outermost common loop that
tells them apart comes first.

*Params.* A parameter is a sequence of values with the ranks they belong to. `cnt`, which only
histograms read, is left out.

*Reduction, TraceReduce.* A rank's `pc` is its line in `MPI_Finalize`. Messages of a pair of ranks
stay in order; a trace is sent as a size and as nodes. A trace does not change once its rank has
begun to send it, so in `TraceReduce` the receiver takes the sender's.

*CommHandles.* A communicator is identified by the number of the call that created it, which makes
recording and replay comparable although the two libraries return other handles. Both return any
handle that names nothing at the time. `MPI_COMM_NULL`, returned to ranks left out of a split, is
added to the table like any other handle. An index of -1 makes the replay read the element
before the buffer, which may hold any handle. A communicator MPI does not know ends the replay.

*Histogram.* Values are integers with `Unit` for 1.0 and are chosen so that the divisions are
exact; a bin keeps the sum of which the code keeps the mean; averages are fractions.

*MessageReplay.* A rank enters a call and leaves it; a nonblocking call can be left at once, a
collective when all ranks are in theirs. The wrapper makes the call and records it on leaving. MPI
matches messages of one sender in order, and otherwise as it likes; with `eager` a send is complete
at once. What a rank does never depends on what it receives: a trace is what one run did.
Requests are named by their call, which is what `RecordReplay` shows of the recorded offsets.

*HistoReplay.* `stage` is where in `histo_replay` a rank is. `postRecvs` reads the time once and then
posts, so its loop is steps of its own (`posting`); `why` says which of its three callers it
returns to, since only receive calls and the end ask the context for the next send at once, while the
handler asks every context afterwards (`prepareRecvs`). The timer is modelled by what may be called:
time may be left only before a call that computes, the tester comes first, then rounds of the
busy wait (`BusyRound`), until no time remains (`EndCompute`). The heap is a set with its order
in `Due`; `Ordered` is the comparison that would read a NULL. `read` stands for the position of a
peer's context: what a context yields is shown by `ContextReader`. Random numbers are given with
the job, the same for a rank and the contexts others have of it, since both seed with `seed + rank`.
The two `MPI_Alltoall`s and the barrier of the set-up are one step of all ranks (`NotifyPeers`).

*Op\* modules.* A layout is the sequence of fields a generated function handles: a field, or an array
with the field that holds its length. `OpPacking` interprets layouts the way the functions are
printed. `Width` is `sizeof` of a field or of an element of the array: packing writes an `int` for the
length and the elements in their own widths, unpacking allocates and reads them, and a read at the wrong place or width
gives `Garbage`. The generic functions add and check the header, the size and the marks around it; an
operation larger than `MaxMsgBytes` would have to be split, which nothing does, so it is refused.

These modules stand apart from the rest. The build runs the generator and compiles its new output
(`src/record/libsrc/Makefile.libsrc:76-90, 163-164`); what is translated is the output checked in beside it, older
and cut off at its end. Nothing calls these functions while a program is traced or
replayed. They are also long: of about 16 thousand source lines that `PROJECT.json` maps, some three quarters are
theirs, and what is modelled of the tracer and the replayer proper is the other quarter, less than
four thousand lines. Arguments that the generator prints for constructors of communicators
(`mpi_pack.c:504-541`) are in no layout because no operation has them: every `set comm_constructor` of
`libsrc/mpi-spec` is in a comment, and the lookup table has 0 for every operation.

*ContextReader.* The membership cache is a plain test. A loop context is found again by the
position of its loop item where the code compares pointers.

## What is checked

| Run | Shows | Bounds |
|---|---|---|
| `record_replay` | the invariant the proofs use; offsets name their requests; buffers are freed in time and completely; a request is lost only by overflow; record and replay implement `CallLog`; a replay ends | 3 handles, rings of 2, 5 calls, arrays of 2: handles are reused, both rings wrap and overflow |
| `local_trace` | any sequence of calls is what the trace stands for, values included, and what both readers read back; loops nest and are scalar; a repeated body leaves one body | 2 operations, 14 calls: bodies of up to 7, loops nested three deep; up to 7 calls with arrays `<<1>>`, `<<1,1>>`, `<<2>>`; a window of 6, shorter than the trace |
| `encodings` | a rank list is its set, whatever the order of merges, membership and count without expansion included; ranks and `MPI_ANY_SOURCE` come back and the same pattern gives the same value; an operation unpacked is the one recorded; number, sum and extremes of a histogram's values survive, and what is drawn spans them | lists of 8 ranks: every subset, two levels of strides. Jobs of up to 4 ranks, every choice of every rank. All operations whose functions exist, with Open MPI's 64-bit widths, arrays of 0 to 2 elements, and of 756: the largest message is 3072 bytes, which one operation fills exactly and the others exceed. 3 ranks with 6 values out of 6: the least for which two occupied bins are smoothed into one |
| `reduction` | nothing lost or doubled, messages of the program and of the tracer apart, every rank leaves | 6 ranks: ranks with two children, with one, with none, three levels |
| `trace_reduce` | every rank finds the nodes it recorded in every merged trace, all, in order, with its values, and reads its own calls out of every merged trace and out of the file, by both readers; like calls share nodes | 4 ranks, 5 programs each: 625 jobs |
| `comm_handles` | a call is replayed on the communicator it was recorded on; no stale handles; loss only by overflow or by an untraced constructor | 2 handles, tables of 3, 5 calls: a freed handle is handed out again, the table wraps |
| `message_replay` | in a deterministic replay every message goes where it went, and the replay ends, for ranks that name their senders and either retain tags or received in order; the replay of ranks that take any message ends | 3 ranks; every way two messages are sent with two tags and received with named or any tags, blocking or not; wildcards, rings, collectives, messages to oneself; tags kept or not, eager or not: 1184 jobs |
| `histo_replay` | a receive is posted for every send whose time has come, and goes with the right message; buffers live until their request is complete; no rank gives up; the replay ends, the queue's destructor included | 3 ranks, three traces: random destinations drawn three times with a limit of 2, a communicator of rotated ranks, a collective; two times; eager sends with buffers of their own, synchronous sends with the shared buffer |

The bound on calls is in the guards (`MaxCalls`, `MaxLen`, `MaxMixed`, `MaxElems`). Runs that end by reaching it
are checked without deadlock; `Reduction`, `RecordReplay`, `MessageReplay` and `HistoReplay` have
liveness properties instead. `HistoReplay` reads times up to `MaxTime`, after which the clock of the
end is `Infinity`; `OpPacking` has arrays of the lengths in `Lengths`, elements of the widths in `Width`, and messages of up to `MaxMsgBytes`.

Fairness. In `RecordReplay` the replay is weakly fair: it is a sequential program, and the waits it
makes are of requests MPI completes. They never block there, so `ReplayCompletes` says that no offset makes the replay exit; that
it waits for the recorded requests is `ReplayMakesRecordedCalls`, and that such waits end, other ranks being there to send, is `ReplayEnds` of `MessageReplay`. Recording is not fair, a program may stop. In `Reduction` each
rank is weakly fair in what it can do by itself or with a message already there. A send is relied on
to return only when its message has been received: MPI may buffer it but need not. So `Completes`
holds without buffering, and the safety properties with any. In `MessageReplay` every rank and MPI are
weakly fair: processes run and messages that can be matched are. In `HistoReplay` so too, and `EndCompute` is
strongly fair: a busy wait ends because the time it waits for passes, however many rounds it makes.

Runs that end in a violation show where the code departs from what the repository says of it:

| Run | What it shows |
|---|---|
| `untraced_completion` | `MPI_Waitany`, `MPI_Waitsome`, `MPI_Test*` and `MPI_Request_free` record nothing and leave their request in the ring; a later wait on a reused handle records the offset of the old one |
| `node_input` | deterministic replay dereferences NULL for an event its rank is no member of |
| `histogram_average` | the running average is not the mean |
| `histo_split` | after `MPI_Comm_split` with two colours a rank translates another rank's destination with its own group of that index and finds itself, wrongly; it exits when it then looks for the sender in that group to post the receive |

Each is stated, with the line of documentation it contradicts, under `findings` in `PROJECT.json`.

Departures seen in passing, which the properties above exclude by name or state exactly:

- The wrappers of `MPI_Cart_create`, `MPI_Cart_sub`, `MPI_Graph_create`, `MPI_Intercomm_create` and
  `MPI_Intercomm_merge` are commented out; a communicator they create has index -1 in the trace
  (`CreateUntraced` in `CommHandles`).
- `index_to_handle(-1)` reads the element before the table (`PtrHandler.C:117`), where the comment
  above it (line 109) promises the null handle. `IndexToHandles` then gives any handle.
- `MPI_PROC_NULL`, and keys of `MPI_Comm_split` that are no ranks, are encoded like ranks
  (`Event.h:196-203`) and come back as others; `PeersKept` states which values do come back.
- With tags dropped (the default; `Event.h:206` says they "may not be relevant for replay purposes") a
  receive that took a later message first makes the replay swap the two, and with `MPI_ANY_SOURCE` before a
  receive from a named rank the replay may wait forever. `Determined` and `TakesAny` in `MessageReplay` say
  exactly which ranks are safe; without them TLC finds the deadlock.
- The generated files of `record/wrapper-engine` end in the middle of a function: packing in
  `MPI_Waitany`, unpacking and the lookup before `MPI_Type_vector`. They are built
  again with the library; `OpPacking` has the operations all of whose functions are there.
- `umpi_mpi_pack_ops.c:3069` reads `array_of_degrees[count-1]`; a graph without nodes is excluded in `Recorded`.
- `Histogram::merge` adds all values of a bin as the other histogram's minimum's rank's
  (`Histogram.C:151`), so that with one occupied bin the maximum is attributed to that rank.

## What is proved

Nothing is taken on trust but the assumptions on constants, which TLC evaluates, and the hypothesis
on the tree named below.

### Recording and replaying requests

`RecordReplay_proofs` proves for every ring size, every set of handles and any number of calls:
`IInv` is inductive (`Inductive`), and from it type correctness, `OffsetsNameTheirRequest`,
`NoBufferFreedInFlight`, `AllReclaimed`, and that recording and replaying implement `CallLog`
(`ReplayRefinesCallLog`). The run `record_replay` checks the same formulas on its instance.
`CursorsInStep`, `NoDoubleFree` and `NoReplayExit` are proved too and need no run: they follow from
`IInv`, which the run checks.

Assumed of the constants: `Size` is a positive natural number, `NullReq` is no handle and no number,
`MaxCalls` and `MaxList` are natural numbers. Assumed of MPI, in the actions: the handle of a new
request names no outstanding one; a program waits for outstanding requests or
`MPI_REQUEST_NULL`; every request is complete at `MPI_Finalize`.

The argument. None of the properties is inductive: that an offset resolves in the replay depends on
the whole history of the tracer's ring. The invariant therefore says three things.
1. *Trace.* The cursors recorded with the events form a chain: each is the one before, advanced if
   that event posted a request (`CursorChain`). Every offset names a posting event whose slot no later
   post took (`OffsetsNameTheirRequest`); a posted request is waited for once or still outstanding
   (`WaitedOnce`, `NoneForgotten`).
2. *Tracer.* The ring holds only outstanding requests, each at its event's cursor (`RingOfLive`), so
   the first match of `lookup_offset` and the last of `lookup_offsetlist` are the same slot
   (`LookupUnique`). This is where the untraced completions break it.
3. *Replayer.* After `pos` events its cursors, ring, buffers and log are functions of the trace alone
   (`ReplayInv`): an outstanding request is in the slot of its event in both rings. Hence an
   offset finds its request, `add_mem_entry` overwrites nothing in flight, a buffer is freed
   exactly when its request is waited for.

`OffsetRoundTrip` is the arithmetic of offsets and slots, `SlotKept` that a slot is safe until its
request is waited for. `RecordStep`, `ReplayPostStep`, `ReplayCompletionStep` and
`ReplayFinalizeStep` have a step per part of the invariant.

`RequestsLostByOverflowOnly` states `LostOnlyByOverflow` and is proved by counting. The cursor moves on by one slot per
request posted and never else, so an outstanding request is as many slots behind the cursor as
requests were posted since (`AllInPlace`); waits take out only what they wait for. It is lost when the
cursor is back at its slot, and then `Size` requests were posted after it.

### Folding

`LocalTrace_proofs` proves for every program, every window and every set of value vectors that a rank's
trace keeps its types through all folds (`NodesTyped`), its loops well nested (`LoopsWellNested`) and
every call: the visits of the trace are the recorded calls, in their order and with their values
(`FoldingLossless`, that is `StandsForHistory`).
Assumed: `MPI_Init` is called once, vectors are not empty, the window is a natural number.

*Nesting.* The invariant `TInv` is the first two together (`TraceInductive`). `LoopMatch` says that the loops of the nodes
folded have the lengths and iterations of those they are folded into, so merging their parameters
gives one value again (`LoopsMerged`), which `incLoopIter` and `loopMatch` read without looking
(`FoldFolds`). A fold cuts the trace at `head` and puts one body around the nodes from `first` to `head`.
Neither of the two is a member, so no body reaches over them: the bodies that remain are whole, and inside or outside
the new one (`FoldPlaced`). Nesting is thus what makes folding sound, and the marks are what keeps it. The
folds of an event are a recursion over their number; that it has a result, and that the result has
what each fold keeps, is shown for a smallest number that would not (`FoldsKeep`).

*Calls.* The trace alone is no invariant to argue with: which call a visit is depends on all folds
so far. `KInv` (`CallsKept`) therefore says that there is an assignment: call `k` is of node `w[k]`, in
iteration `c[k][l]` of each loop `l` around it, is the `nth[k]`-th call of its node, and has its values
behind the first `off[k]` of the node's. `Ordered` says that every visit is a call and that calls are in
the order of their visits; `Carried` that the node's parameters are, one after the other, those of its calls.
- A loop is named by its leader and its place from the innermost out, so a loop put around a leader
  renames none. A fold leaves the loops around the nodes that stay, one loop longer or new
  (`AroundByNode`); the two repetitions have equal loops around equal nodes (`RepeatedAlike`), and no
  loop is around both, since neither leader is a member (`NoneOver`).
- `FoldOrdered`: a call of the second repetition becomes the visit of the first repetition's node,
  with the same iterations of the inner loops and one more of the loop around both, which is
  outermost there. So all of the second repetition comes after all of the first (`RepetitionsInOrder`),
  and other pairs are as before (`PrecedesMoved`).
- `FoldCarried`: the values of two nodes merged are those of the first followed by those of the second, however
  their periods compress (`ThenExpands`, `MergeExpands`, `FoldRepeats`).
- An appended event is the last call, the only visit of its node, in no loop (`AppendKept`); a
  fold keeps the assignment (`FoldKept`), and so do all folds of an event (`AppendedKept`).
- `KeptStandsFor` leads from the assignment to `StandsForHistory`: visits before a visit are numbered by
  the calls before its call (`VisitsBefore`, `Numbered`), and the ends of values add up to `off`
  (`EndsOfCalls`).

That the two readers of the code find these visits in this order (`Lossless`, `ContextAgrees`) is
recursion over the trace, and stays with TLC, which checks all three on the same instance.

### The reduction

`Reduction_proofs` proves for every number of ranks, and for every order the messages and ranks may
take: no calls are in two places (`NoneMergedTwice`), none are lost and the file has those of
all ranks (`NothingLost`), and no rank sends while another still runs its program
(`BarrierSeparates`), no two ranks wait for each other (`NoDeadlock`), and each step
takes one rank further, so `MPI_Finalize` ends (`StepsEnd`). Seen from the file, the whole
reduction is one merge of all traces: it is written in one step, once and complete, when no
other trace is left (`WrittenAtOnce`). The hypothesis is `Tree(N)`: a rank has two
different children, of positive numbers, whose `get_parent` it is as far as there are as many ranks, and
`get_parent` gives a smaller rank whose child the rank is. It is arithmetic on
powers of two, which the provers do not have; TLC evaluates it for 4096 ranks
(`TreeChecked` in `MCTraceReduce`), hence for every smaller number.

The argument has three parts. `PInv` says what is in each channel: a rank's size, its trace, both or
nothing, sent to its parent only, the trace being what the rank still holds, since it receives
nothing after it has begun to send; a trace is live while it is kept or in that channel,
and live traces are of disjoint sets of ranks. `LInv` says that every rank's calls are in a live trace
or in the file, and that a rank that has left a child behind has received its trace
(`Collected`). When the root writes, no other trace is live (`OnlyTheRoot`): the smallest rank with
a live trace has a parent that is either the root or has sent its own trace, and both have
left their children behind. This is where the order of the tree is needed, and where a rank that does not
wait for its second child breaks the proof.

`HInv` is the handshake of a rank with its parent: what is in the channel is what the one has sent, by its
`pc`, less what the other has received, by its `pc` and `sized`. So the head of the channel is always
of the kind the parent waits for. Take the last of the ranks that wait for a child: its child, a later
rank, does not wait itself (`LastWaiting`), and has sent what its parent waits for, or may send on because
what it sent was received. If none waits, everything sent was received (`NoneWaiting`). `NeverStuck` allows a send to
return only when it was received, as `Progress` does; its disjuncts are the guards of `Progress`. What stays with TLC
of `Completes` is that a rank that can go on does, which is fairness.

`TraceReduce_proofs` proves that the reduction with real traces takes only steps of this protocol
(`ImplementsProtocol`), so `NoneTwice`, `NoneLost` and `AfterTheProgram` hold of it whatever the traces are, and so does type
correctness (`ProtocolTyped`).

### Merging

`TraceReduce_proofs` also proves what the merges do to the traces, for every number of ranks that form a
tree and all programs a rank may have run. Assumed: an event's array is not empty, `MPI_Init` and
`MPI_Finalize` are called once, and differ (`ProgramsAssumption`, `OpsAssumption`). The argument takes
from the protocol that what a rank merges is a trace of ranks none of which are in its own already
(`Received`); that is where an invariant of the distributed part carries one of the data.

1. *Types* (`TracesTyped`). A parameter of a trace in use has values of disjoint sets of ranks, together
   those of its node (`ParamOf`), and this survives `MergeParam` (`MergeParamTyped`), the alignment of loops
   (`InterMergeLoops`) and the merge of a pair (`PairTyped`). `TraceInv` says it of all traces and
   that they begin and end with the nodes of `MPI_Init` and `MPI_Finalize`, of all their ranks.
2. *Nothing is lost* (`TraceHoldsRanks`, that is `HeldIsMerged`). The table of `LCSMergeTrace` gives pairs that
   ascend in both traces (`PairsOf`, from the recursion of the table and of its reading). Two whole
   traces begin and end alike, so the first pair is of their first nodes and the last of their last ones: nothing is behind
   the last pair, which the code would leave out. So the merge is woven of both traces: node by node it
   takes one of the first, one of the second, or a pair of the same operation (`Weave`,
   `MergeWeaves`). A pair reads for each rank as its own node did: the parameter's values
   (`MergeParamKeeps`), and the loops, the outermost ones of both being aligned (`LoopsKeep`,
   `PairKeeps`). Counting a rank's nodes along the merge gives those of its trace (`CountedAlong`,
   `MergeKeeps`), and `KeptInv` says that every rank whose trace is held finds all nodes
   it recorded, in order and with its values. It is the invariant because the merge is
   repeated up the tree: it needs to be true of what was merged before, not of what was recorded.
3. *Equal calls share nodes* (`SameCallsOneTrace`). The traces of ranks that made the same calls differ
   in nothing but their ranks (`Alike`). The longest common subsequence of such traces is the diagonal
   (`LCSDiagonal`), all parameters absorb each other, and the merge is the trace with the ranks
   joined (`JoinTraces`, `SharedInv`). The file then is as long as the trace of one rank, however many there are.

`HeldIsMerged` counts a rank's nodes rather than filtering them with `InputTrace`, whose `SelectSeq` has no facts in the
prover's library. That a rank reading these nodes makes its calls (`Lossless`) is recursion over the trace
and stays with TLC.

### Rank lists

`Encodings_proofs` proves of any finite set of ranks, and any order in which their traces are merged, that a
rank list is the ranks merged into it (`ListsStayExact`, that is `ListsExact`): expanded it is these ranks, each once
and ascending; `hasMember` finds them and no others; both counts are theirs. Nothing is assumed but that ranks are
natural numbers and finitely many.

1. *Building.* A merge builds its list one rank at a time, in ascending order, and folds PRSDs after
   each. `ListOK` is what holds of the list in between: every PRSD repeats ascending sections, but the last, which may
   be a rank by itself, and PRSDs start at ascending ranks. `Holds(l, S, n)` adds that the list expands to
   `S`, in `n` numbers. A rank added extends the last PRSD or follows it (`AddSingleHolds`); a PRSD folded into an
   earlier one makes the ranks of both (`CompressedStands`), since sections make of two lists of ranks
   what they make of each (`RepeatJoined`, `SweepJoined`), and one more iteration of the outermost section is one
   more copy of what is under it. As `n` counts with repetition, `n = Cardinality(S)` says that each rank
   is there once.
2. *Expanding.* The numbers come PRSD by PRSD, not in order. `n` different numbers sorted are their set,
   ascending (`SortedIs`), so the next merge begins with what the last one made (`MergeListsHolds`).
3. *Scanning.* `hasMember` looks for the next PRSD as the next number that is not positive, from the second behind the
   start on (`NextPrsdIs`). That works because a PRSD that is followed by another has positive iterations
   and strides, which is `ListOK` again: the stride 0 of a single rank that was not the last would be taken for a PRSD.
   So the scan reads every PRSD as it was stored (`PrsdAtIs`, `HasMemberIs`).
4. *Merging.* `ListsInv` says of all ranks that they hold such a list of the ranks merged into it, or none, and that
   these sets are disjoint, so that the counters can be added up.

`Sorted` stands for `qsort` by counting, since the provers do not see what TLC's `SortSeq` does, and
the recursions of the module are recursive functions for the same reason.

### Endpoints

`Encodings_proofs` also proves both parts of `PeersKept` for every number of ranks (`PeersStayKept`): ranks and
`MPI_ANY_SOURCE` come back from the encoding of their reader, nothing else does (`RanksComeBack`), and ranks with the
same pattern record the same value (`SamePatternRecordsSame`), which the merge of their events relies on. `RemSmall` and
`ModPeriodic` are the arithmetic of C's remainder and of the wrap-around. The assumptions are those of
`ConstantsOK` and `WildcardsOK`: the wildcards are outside the ranks and their encodings.

### Histograms

`Encodings_proofs` proves three of the four properties of histograms for every number of ranks, every
set of values and any number of additions and merges in any order: the bins stay five and contiguous and hold
their values (`BinsAlwaysHoldTheirValues`), the extremes survive with a rank that added the minimum
(`ExtremesStay`), and draws find a bin and span the values (`DrawsStaySpanning`).

1. *A bin.* `GoodBin` bounds the sum of a bin by what values between its extremes, both of which occur, can add up to.
   Bounding it by `min` and `max` alone is not enough: the mean a merge computes is what is left
   without the extremes, and must lie between them again (`BinValuesAre`).
2. *The chain.* Bins follow each other from 0 on (`Chain`), so values of a lower bin are not above
   those of a higher one (`ChainOrder`), which is why `HistoBin::merge` may take the upper bin's maximum without
   comparing (`BinMergeIs`). `smooth` always has two neighbours to make one of: "closer", written with products, is the
   order of fractions (`FractionOrder`), so there are first closest ones (`ClosestExists`). It turns six bins into
   five (`SmoothKeeps`).
3. *A histogram.* `HistOK` adds that the bins' counts make `num_elems`, that the first bin that holds values has the
   minimum and the last the maximum. A value added keeps it (`AddIs`), and so do all values a merge
   adds (`MergeIs`), of which the minimum comes with the rank of the other histogram's minimum.
4. *The ranks.* `HistogramsInv` says of every rank that its histogram `Represents` the values added on the ranks merged.

Of `ConstantsOK` only `Values \subseteq Nat` and a positive `Unit` are used. Without the multiples of five, divisions
round down in the model where the code has doubles; none of the three depends on that, since a rounded mean is still
between the extremes. The sum of `ValuesKept` does, so `ValuesKept` stays with TLC.

### Communicators

`CommHandles_proofs` proves for every table size, every set of handles of either MPI library and any
number of calls that a call is replayed on the communicator it was recorded on as long as none was
lost (`ReplayedOnTheSame`), and that one is lost only to as many communicators created after it as the
table has slots, or because its constructor is untraced (`LostByOverflowOnly`). Assumed of the
constants: the table is at least as large as the list of built-ins, which are distinct and not among the handles.

Recorder and replayer never have the same handles, so their tables cannot be compared. What they share
is which communicator each slot names. The invariant says that there is a history of tables of
communicator numbers (`History`), one after each call, in which every recorded index means the
communicator of its call; that the recorder's table agrees with the last of them, and the replayer's,
until something is lost, with the one after the calls replayed (`Agree`). A table that
agrees has no handle twice, which is what makes `handle_to_index` unambiguous. Whether a constructor
returned `MPI_COMM_NULL` is in the trace, so both put in or leave out the same. The loss is counted as
in the request ring.

### Deterministic replay of messages

`MessageReplay_proofs` proves for every number of ranks and every job that a rank which names its
senders, and whose tags are retained or never decided which message a receive took, receives when
replayed what it received when recorded (`SameMessagesReceived`), however the ranks interleave and
whatever the other ranks' receives take. Assumed (`ConstantsAssumption`, `JobsAssumption`): the wildcards
are negative and outside the encodings; sends and receives name ranks or `MPI_ANY_SOURCE`; a program waits
for the receives it posts.

What is posted in a run is a function of the job and of where the ranks are (`PostedInv`), and so is what is
in the trace (`TraceInv`); a replayed call has the peer it had (`PeerKept`).
`MatchInv` says of what MPI has matched: no message and no receive is in two pairs (`Paired`); an
earlier message of a sender that fits a receive taken by a later one is taken by an earlier receive
(`NotOvertaken`); an earlier receive that fits a message taken by a later one has taken an earlier
message if it names its sender (`NotPassedOver`). The recorded run has these and has received
everything it was to receive (`RecordedInv`); the replay has them for what it has matched so far.
Suppose the replay matched a determined rank's receive with another message than the recorded run. Take
the first such receive (`SameAsRecorded`): of the two messages the earlier one is in the other run taken by
an earlier receive, on which both runs agree, so it would be in two pairs. Dropped tags add pairs that
fit; that they were posted in the order of the messages (`InOrder`) is what keeps the argument, and
is where the proof asked for more than the model first said: that the order of the messages and of their receives
agrees in both directions.

### Probabilistic replay

`HistoReplay_proofs` proves four properties for every number of ranks, every job, every limit of
drawn destinations and any times. Assumed (`JobsAssumption`): a rank's events have times that do not
decrease, `MPI_COMM_WORLD` holds all ranks in order, no rank is twice in a communicator, `rand_r` always
has another number.

1. *Buffers* (`BuffersGivenBackSafely`). The two vectors of the handle queue are in step, entry by
   entry (`VectorsInv`), through a test that erases some entries and keeps others and through the
   destructor. A request given to MPI is complete or still in the queue (`HeldInv`), and what was freed
   was complete; the buffer all synchronous sends share is given back when the queue is empty
   (`FreedInv`). `QueueInductive`, `TypesKept`.
2. *Numbers* (`ReceivesMatchSends`). Nothing in a message says which call of the sender it is of. The
   sender's tag is a count kept while it replays, the receiver's one kept while it reads the same trace
   ahead, in an order given by times. Both are the number of messages of the pair before the call: the
   sender's of those it has begun (`StagInv`), the receiver's of those it has read (`ReadInv`);
   pending receives, posted receives and messages carry that number (`PendInv`, `MsgInv`), and
   calls with the same number are the same call (`SameNumber`). `NumbersInductive`.
3. *Completeness* (`DueReceivesPosted`). Every message read of is pending or its receive posted, and
   a sender not read to its end has a message pending (`FoundInv`) except while the handler, which
   asks the contexts afterwards, posts. When nothing pending is due, what a sender has
   not been read for is later than what is pending of it, times not decreasing, hence not due either
   (`CaughtUp`). Peers are those whose destinations hold the rank (`PeersInv`), so no sender is missing.
   `ReadingInductive`.
4. *No rank gives up* (`ReplayApplies`), if every rank can translate its own destinations, those of its
   senders and these senders (`Translatable`).

2 to 4 have the hypothesis `AgreeOnGroups`: two ranks that have a communicator under the same index
have the same members there. The code relies on it without saying so: a receiver translates a
sender's destinations with its own group of that index. The proof of 2 fails without it, at the step from
what the sender draws to what the receiver reads, and the run `histo_split` shows the consequence.
The jobs of `histo_replay` satisfy it, as TLC confirms (`GroupsAgree` in `MCHistoReplay`). What a
context draws is defined by recursion over the calls. That the recursion has a result is shown for a
smallest number of calls without one (`DrawsTyped`); what it computes is not needed, since sender and
receivers draw alike (`SameDraws`).

### Only model-checked

All liveness (temporal reasoning with ENABLED is out of the prover's reach); how the readers read a
folded or merged trace (what they stand for is proved), that a repeated body leaves one body,
the number and sum of a histogram's values (`ValuesKept`), and the operation records. What recursive definitions
compute for every input (`Replay`, `ContextVisits`, folds over traces) would need induction over
data, which is out of reach as well.

## What is not modelled

- Text and packed forms of traces, parameters, lists and histograms: input and output of data, apart
  from the rank filtering of `inputTrace`, which is modelled.
- The values timers yield and `StackSig` computes: any value may occur. `HistoReplay` has the control of the timer.
- `int` overflow of iteration counts.
- The Umpire queues and tables, which the tracer does not call; the program that generates the wrappers; scripts,
  test programs and data. Of the generated files: the print functions (output only), the functions cut off at the end of a file, and those
  that copy and free an operation. Nothing calls the latter (`_copy_uop` in `util.c:389-426` is under `#if 0`), and they are not
  what packing is: they duplicate `sizeof(int)` bytes for each element whatever its type (`mpi_copy_free.c:103-110`), half of
  an array of 8-byte handles (`umpi_mpi_copy_ops.c:473-477`). The mutant `PackInts` of `Pack` makes that mistake; the run `encodings` finds it.
- Groups and datatypes: their tables are the `HandleMapper` of `CommHandles` with other built-ins. In `setupCommunicators`,
  communicators are given with the job rather than built from the groups in the trace.
- An array of no requests: a recorded `MPI_Waitall` with count 0 makes the replay exit
  (`ParamValue.C:125`).
- Histograms keyed by the preceding event, the arguments of the collectives in the deterministic replay, and
  approximate folding (off by default): see the plan.

## Plan

Done, in the order they were written: requests (`RequestRing`, `BufferRing`, `CallLog`,
`RecordReplay`), folding (`Params`, `LoopFold`, `VisitOrder`, `LocalTrace`, `TraceReader`), merging and the reduction
(`Ranklist`, `RadixTree`, `Reduction`, `TraceMerge`, `TraceReduce`), names (`HandleMapper`,
`CommHandles`, `PeerCode`, `Endpoints`), `Histogram`, `ContextReader`, the job in both replays
(`MessageReplay`, `HistoReplay`), the operation records (`Op*`), `Encodings`, and the proofs above.

Left:

1. *Statistics*: histograms keyed by predecessor, through folding and merging, which change an
   event's predecessor (`Stat::updateSig`).
2. *Group and type handles* with `HandleMapper`; the data of the collectives of `op_exec.C`.
3. *Approximate folding*: `slowCompressLoop`, pending iterations, and `cleanupLoops`.

Theorems left: `ValuesKept`, for values whose divisions are exact; that the readers find in a trace
the visits that `VisitOrder` and `HeldIsMerged` say are there.
