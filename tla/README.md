# SO-II in TLA+

A message broker over named pipes: publishers write to boxes, subscribers read
them, a manager creates, removes and lists them. The broker (`mbroker/`) takes
registrations from one pipe, hands them to workers through a bounded queue
(`producer-consumer/`) and keeps each box as a file of an in-memory file system,
TecnicoFS (`fs/`). Paths below are relative to the source tree.

## Inventory

| Component | State | Operations | What is hard | What makes it correct |
|---|---|---|---|---|
| Queue, `producer-consumer/` | ring, capacity, size, head, tail, five mutexes, two condition variables | `pcq_create`, `pcq_enqueue`, `pcq_dequeue`, `pcq_destroy` | size, head and tail each under their own mutex; the tests under yet another; lost wakeups | size within capacity, ring and size agree, first in first out, calls return |
| File system state, `fs/state.c` | inode table, block table, data, directory in block 0, open file table | allocation and release of inodes, blocks, entries and handles | inode numbers and blocks reused under open handles; names left by `malloc` | directory and inodes agree, blocks have one owner |
| File system calls, `fs/operations.c` | one mutex around every call | open, close, write, read, unlink | calls that fail half way; unsigned subtractions; deletion and truncation of open files | a file holds what was written to it, and reads stay in it |
| Broker main loop, `mbroker/mbroker.c:270` | register pipe, one worker, the queue, global buffers | read a registration, enqueue it | thread creation, join and queue block on each other | registrations are read and served |
| Session handler, `mbroker/mbroker.c:35` | session count, table of boxes, global names | publisher, subscriber, create, remove, list | globals shared by all requests and rewritten by main, ways out that release nothing, a table read before it is written | the count is that of the open pipes; a session uses no older registration; boxes are those created |
| Clients, `publisher/`, `subscriber/`, `manager/` | a pipe each | register, then stream or wait for an answer | frames and pipe names agreed by convention only; one FIFO for everybody's registrations | every frame means the same to both ends; a registration is read; what is printed is true |
| `utils/`, `Makefile` | none | logging, assertions | nothing | nothing to check |

Main and the worker share the queue and a dozen global variables (`mbroker.c:18-25`);
workers call TecnicoFS; clients and broker exchange fixed-size frames through
FIFOs. PROJECT.json lists the hazards of each component line by line.

## Modules

| Module | Models |
|---|---|
| `ProducerConsumer` | `pcq_create`, `pcq_enqueue`, `pcq_dequeue`, for any number of threads |
| `BoundedCounter` | what the queue's header promises of blocking |
| `ProducerConsumerProofs` | the theorems about the queue |
| `TecnicoFS` | `fs/state.c` and `fs/operations.c` |
| `TecnicoFSProofs` | the theorems about the file system's own state |
| `TecnicoFSRefinement` | the theorem that it implements `AbstractFS` |
| `AbstractFS` | what `fs/operations.h` promises: named sequences of bytes, and handles |
| `BrokerMain` | `main` and the worker, composed with the queue (EXTENDS `ProducerConsumer`) |
| `BrokerMainProofs` | the theorem about main's order |
| `Frames` | the registration frames of the three clients, and what the broker makes of their bytes |
| `FramesProofs` | the theorems about frames |
| `Registration` | the clients, the register pipe and the body of main's loop (EXTENDS `Frames`) |
| `SessionHandler` | `threadFun`, composed with clients and main (EXTENDS `Registration`) |
| `SessionHandlerProofs` | the theorems about sessions |
| `Broker` | the whole broker: `SessionHandler` in main's order (EXTENDS `SessionHandler`) |
| `BrokerProofs` | the theorems about the whole broker: what main's order adds |
| `MC...` | model values and symmetry sets for TLC |

An operator with a suffix (`Full_OffByOne`, `Unlink`'s `Released_Never`, ...) is
a plausible slip in the definition that follows it. No specification uses it;
PROJECT.json pairs it with a property that catches it.

### ProducerConsumer

`pc[t]` says where a thread is in its call. `lock`, `test`, `wait`, `asleep` are
the loop around `pthread_cond_wait`; `count` is the section under
`pcq_current_size_lock`, `slot` the one under the head's or the tail's lock,
`signal` the last one. Each section under a lock that guards one variable is one
step. The condition variables' mutexes are variables of the model, since a lost
wakeup is a matter of who holds them. The test in the loop reads
`pcq_current_size` without that field's mutex, while others write it: in C that
is a data race, taken here as the read of an aligned word, which sees the value
before or after a concurrent change. `pthread_cond_wait` may wake spuriously.
A NULL argument makes `pcq_enqueue` return at once: a step that changes nothing.
`lag` (stores minus loads) is a history variable; `MaxLag` stops new calls, and
no step of a call, when it is reached. Without it some threads could drive the
counter apart for ever (two consumers that both pass the test on one element
leave the counter one below zero, in `size_t`).

### TecnicoFS

Every call holds `g_library_mutex` throughout, so every call is one action, with
everything it does: `tfs_open` is `OpenExisting`, `OpenCreate`, or `OpenNoEntry`
when the inode is allocated and given back. `fs_data` is flat, so that a read
which leaves its block finds the neighbour's bytes. Block 0, the directory, is
the variable `dir`. `free_inodes` and `free_blocks` are the two allocation
tables, `open_file_table` has `Closed` for a free entry, `got` is what the last
read delivered. `alive` becomes false when an `ALWAYS_ASSERT` fails or a copy
leaves the heap; nothing happens after that. A read that goes past `fs_data` may
also survive, with arbitrary bytes. Unsigned subtraction is `Minus`, modulo
`WordSize`. A read of length 0 is left out.

`Spec` allows any sequence of calls. `CarefulSpec` is what a caller has to keep to
for the file system to work: no call deletes a file somebody has open, or empties
it while a handle stands past its start. The code does not enforce this and the
broker does not keep to it (a removal unlinks a box in use, `mbroker.c:200`); the
results under `CarefulSpec` say what rests on it.

### BrokerMain

`main_at` is the line of `main`'s two nested loops, `created` whether `s.tid`
names a thread to join, `waiting` the clients blocked opening the register pipe.
`Producers` is main, `Consumers` the one worker. `pthread_create` may fail when
`CreateMayFail`; joining what is not a thread is undefined and either fails or
ends the process. What a registration says, and what the worker does with it, is
not in this module: the worker ends when `pcq_dequeue` returns, and the result is
that it never does. It has the queue in every detail; `Broker` has the rest.

### Frames

A frame is a function from byte positions to bytes. `Packed` is the layout
`manager.c` writes and `mbroker.c` reads (a code, a path, a box name, each field
padded with zeros); `Separated` is that of `pub.c` and `sub.c`, which put a bar
before each field. `OpCode`, `PathField` and `BoxField` are what the broker takes
out at its fixed offsets, with `atoi` of one byte, and `CString` the name that the
bytes of a field spell: those before the first zero, or all of them when a name
fills its field. The sizes of the fields, 256 and 32, are constants.

### Registration

`at[c]` says where a client is: before its first `open`, in it (`knocking`),
through it (`entered`), with its pipe made, its frame written, opening its own
pipe (`opening`), having it open (`connected`), with its answer, or gone. The
subscriber opens the register pipe a second time where its own is meant, for
reading: `joining` and `listening`. A client may leave at any point (its input
ends, it is interrupted, a call fails); an older pipe of the same name may exist.

`reg` is the register pipe: the frames in it, each known by the client that wrote
it. The FIFO is the kernel's: an `open` waits for the other end, a read of an
empty one waits while somebody has it open for writing and otherwise gives 0,
and what is in it is lost with its last descriptor. `main_at` is the line of the
body of main's loop; op code, path and box name are copied in three steps, since a
worker may look at them meanwhile. The variables of the broker are not repeated:
`log` holds whose frame was in `buffer` after each read, and `OpTurn`, `PathTurns`
and `BoxTurns` say which read each global comes from, or may come from while it is
being copied (`box_turn` is separate, as a list leaves `box_name` alone). Every
element of the queue is a pointer to the one `buffer`, so the queue is its number
of elements, which is what `QueueImplementsCounter` allows.

The op code is one store. Path and box name are copied byte by byte, by `memcpy`
and without a lock, so a worker that looks meanwhile may find any byte of either
registration: `Seen` is the set of the names it can find, and `PathsFrom` the
clients whose pipes they lead to. What a name leads to is the constant `PipeAt`,
since it is not one to one: `//tmp/c` leads where `/tmp/c` does. Three things are
assumed. A name that is no client's pipe leads nowhere, so that `open` fails. A
name that fills its field runs into the variable behind it, and is what it is by
itself or too long for anything, an empty name. A worker reads a name during one of
main's copies, not during two.

### SessionHandler

`worker_at` is the worker's place in `threadFun`, `op`, `pipe` and `fhandle` its
local variables, `held` the sessions whose pipe is open. `exit`, a null pointer
and a write to a pipe without a reader all end the broker (`Die`), and a manager
that was waiting reads an end of file (`HangUp`). A comparison with
`active_sessions`, which nobody writes, may come out either way.

`BrokerMain` shows that main as it is ordered never lets a worker past its
dequeue. To say anything of the handler, `SessionHandler` lets `pthread_join` not
wait: at the head of its loop main may create a worker, if there is none, run the
body, or end the process in joining what is no thread (`JoinDies`); the body ends
it too, when it fails to open or read the register pipe (`BodyDies`). This admits
every execution of the broker and more, since the actions of `Broker` are these
with a further condition, so what is shown here holds of the broker as it is, and
also of one whose main is put right with one worker at a time. It is the latter
that makes these results worth having.

TecnicoFS is here the set of its files. That is all the handler can tell: a box
is created by `tfs_open` on a valid name and the next statement, a `strcpy` to a
null pointer, ends the broker, so while it runs no file exists, every lookup
fails, and no inode, block or handle is in use (`NoBoxes`, in the inductive
invariant of `SessionHandlerProofs`). The streaming loops of publisher and
subscriber (`mbroker.c:77-100, 131-150`) are therefore never reached and not
modelled: `worker_at = "stream"` has no successor, and `NoBoxes` says that the
broker has ended where it occurs. For the same reason no publisher fills an entry of
`active_box` and lives; `OpenPipe` has the exit for a box that is already active
(`mbroker.c:52-57`) all the same, under the count it tests.

A request with the packed layout and the code of a publisher or a subscriber is
one that none of the repository's programs writes. Without such clients the two
cases of `threadFun` that serve them could not be looked at.

### Broker

`clause` is the part of main's `for` statement that is running: its first clause
creates the worker, its condition joins it, its body is `MainBody` of
`Registration`. `created` is as in `BrokerMain`. Every action is one of
`SessionHandler` with a condition on `clause` (`JoinNoThread` is `JoinDies`,
`BodyFails` is `BodyDies`), or leaves its variables alone (`CreateFails`,
`JoinWorker`). That is how it was built, and no property of the code; it lets the
invariants of `SessionHandler` be cited for the broker. `ThreadFun` and the hanging
up are there with all their steps, and `AwaitElement`, the loop of `pcq_dequeue` on
an empty queue: it is the only step of the worker that main's order leaves to be
taken, which is what the theorems below say.

## Runs

| Run | Instance | Shows |
|---|---|---|
| `pcq_pair` | 1 producer, 1 consumer, 2 slots, 2 elements | the size stays in `0..Capacity` and is the abstract counter; size, head and tail agree; the ring strays by one slot at most and otherwise is FIFO; stored slots are what is read; with fairness, a call returns unless the other role has stopped calling |
| `pcq_many` | 1 producer, 2 consumers, 2 slots | no lost wakeup, never everybody asleep, size and ring still agree, the ring is overfilled by no more than the loads that consumers still owe |
| `pcq_garbage` | 1 and 1 | finding: a dequeue can return an unwritten slot |
| `pcq_overfill` | 2 producers, 1 consumer | finding: two producers overfill the queue |
| `fs_any` | 4 inodes, 3 blocks of 2 bytes, 3 names for 2 entries, 2 handles | directory, inodes and blocks stay consistent under any calls; the process dies only while a handle stands past the end of what it leads to, and a handle gets there only when its file is emptied |
| `fs_careful` | 3 inodes, 2 names for 2 entries, 2 byte values | no leaked block, no wrapped subtraction, no failed assertion; the file system implements `AbstractFS` |
| `fs_deleted` | as `fs_any` | finding: an open file is deleted and its handle lives on |
| `fs_past_end` | as `fs_any` | finding: a read goes past the end of a truncated file |
| `broker_main` | 2 slots, 3 clients, creation may fail | the worker never gets a registration |
| `broker_starts` | creation succeeds, fairness | finding: no registration is ever read |
| `sessions` | 2 clients, each with any of 8 requests, 2 places in the queue, fields of 5 and 3 bytes | sessions are counted and closed; globals, and the sessions served from them, torn paths included, are never older than the worker's turn, except for a box name; which registrations get lost; main does not spin; OK means the broker has died |
| `broker` | the same clients, 1 place in the queue | the broker in main's order opens and answers nobody, reads one registration more than fits its queue at most, and none once it has a worker |

What `sessions` shows is how little of the protocol can work. Once a worker runs,
the broker does not understand the publisher's and the subscriber's frames: the
path in one starts with the bar, and leads nowhere. Only copied over another it may:
`/tmp/x` half way over `|/tmp/c` is `//tmp/c`, which opens the pipe of `c`. The
manager's `create` ends the broker when the box name starts with a slash, and is
answered with an error when it does not; its `remove` prints OK whatever the
answer; its `list` reads on for ever. What does hold is in the properties: the count
of sessions is exact on every way through the handler that leaves the broker alive,
only lists keep their pipe, and mixed globals, though they let a worker use a later
registration than the one it was woken for, or a path of two, never bring back an
earlier one, except for the box name.
`LossNeedsCompany` says when a registration is lost: never that of a client that
is alone. With another one, the second frame in a read, a frame that arrives
between main's read and its close, or one that a subscriber takes, is gone.
`MainDoesNotSpin` counts main's reads: a client that closed its end without being
read costs one more read, of 0 bytes, after which the registration in `buffer`
is queued a second time.

`LagWithinOne` is tight: a lag of `Capacity + 1` is reached, when a store has
overwritten the oldest element before its load, and a lag of -1, when a load ran
ahead of its store. That is the price of changing the counter before the slot.

Bounds. Two slots are enough for head and tail to differ and to wrap; two threads in
a role are enough for one to overtake another between its test and its change.
`MaxLag = 4` is out of reach with one thread in each role. In `pcq_many` the
consumers race until the counter has gone below zero and half round its word
(`MaxLag = 10`, `WordSize = 16`). Blocks of two bytes have a start, a middle and an
end; a two-byte buffer written at offset 1 is cut short; two files with two blocks
can confuse their contents; `MaxOffset = 3` lets a stale read leave its block, after
which a write's subtraction wraps. `fs_any` has fewer entries than names and inodes,
so the directory fills before the inode table, as it does with the default
parameters; in `fs_careful` the inode table fills. Bytes are one value where no
property looks at contents. In `sessions` a field of five bytes holds a path of
three (a slash, the client, one more), the bar before it and a terminator, and so
also the second slash that a torn path may have; one of three holds a box name of
two. Two clients are enough for one to take another's place in a read, at the pipe
or in the globals, or to have its path mixed with the other's, and each may have any
request. A path torn between two clients' names a third one's pipe only when the
three names agree byte by byte with one or the other; the theorems cover it. A read
of 1024 bytes holds three frames of 290 or 291 bytes and cuts a fourth:
`FramesPerRead` bounds the frames that stand in the register pipe at once, not the
clients, and two clients do not reach it. One place in the queue of `broker` is
filled by the first read, so that the second one stays in `pcq_enqueue`. Names,
bytes, clients and threads are symmetric in the runs that say so; no liveness run
uses symmetry.

Fairness. In `FairSpec` every thread inside a call keeps taking steps (the
scheduler is not starving it, and the sections under locks are short) and only
finitely many wakeups are spurious. No call has to be made. `BrokerFairSpec` adds
main's own steps. One weak fairness condition per thread is enough for
`pcq_pair`: with one thread in each role nobody else can take a mutex for ever.
It says nothing of several threads in a role, where a mutex may always go to
somebody else.

Deadlock is checked except in the runs whose system may stop: `fs_any`,
`fs_deleted` and `fs_past_end`, where a failed assertion or a wild copy ends the
process, the three of the broker, which waits for good, and `sessions`, where the
broker may die or wait for a client that is gone.

## What is proved

With TLAPS, for every value of the constants the assumptions allow:

- `Typing`, `CounterMatchesRing`: for any threads and capacity, the types, and
  that size, head, tail and `lag` account for each other modulo the capacity and
  the word. The second is a conjunct of an inductive invariant of its own, which
  needs only how cardinalities change when one thread moves.
- `SlotsAreWritten`, `RingIsFifo`: for any threads. The first is inductive with the
  fact that a producer in its call carries an element; both rest on
  `CountMatchesRing`, by which the tail is the slot `lag` places after the head, so
  that a store reaches no slot of the ring while there is a free one.
- `NoWakeupIsLost`, `SomeThreadIsAwake`: for any threads. The first needs
  `WideEnough`: the calls in progress cannot make the counter wrap into a value
  that looks full or empty. The invariant `WakeInv` adds who may hold a condition
  variable's mutex and counts, for each role, the threads on their way to the
  elements (or places) that are there: a waiter tests under the mutex under which
  the signal comes, and the signal comes after the change.
- `SizeStaysWithinCapacity`, `RingStraysByOne`, `QueueImplementsCounter`: under
  `OneOfEach`, one thread at most in each role. The invariant `PairInv` says that
  the thread which has passed its test still finds what it tested for.
- `OneProducerKeepsRoom`, `OneConsumerIsOwed`: with one thread in one of the roles
  and any number in the other. `RoomInv` and `OwedInv` say of that thread that what
  it has tested for is still there when it changes the counter; the other role can
  only make it more. They speak of `Count`, which does not wrap, and the same lemma
  (`CountSteps`: a step adds one, takes one or lets somebody past its test) serves
  both. The two findings on the queue are what is left when neither holds.
  What `OneConsumerIsOwed` states (`NotOverdrawn`) is in no run: the program has one
  producer, and TLC agreed once with two producers and one consumer.
- `NobodyIsServed`: the broker never serves a session. The invariant `Starved`
  says that a worker exists only while main is in `pthread_join` with the queue
  empty, and that main is back at `pthread_create` only with the queue empty.
- `TypeCorrect`, `DirectoryStaysConsistent`, `RightEntryCleared`, `BlocksOwned`:
  under any calls, for any sizes of the tables and blocks. `FsInv` is their
  conjunction with `RootReserved` (inode 0 and block 0 are never given away) and
  `SizedHasBlock` (a file with bytes has a block). They
  need each other: types need a released block to be a block, which ownership
  says; ownership needs a name that is found to lead to a file, which the
  directory's consistency says; that needs the right entry to be cleared.
- `DeathExplained`, `StrandingExplained`: under any calls. A call can end the
  process only while some handle stands past the end of what it leads to: with none
  there, every copy stays inside `fs_data` and no assertion fails (`AliveNext`). And
  a handle comes to stand past its end only in a step that leaves its file empty
  (`HandlesStep`): sizes otherwise only grow (`SizesStep`), a handle that moves
  lands inside, and a new one starts inside. Together: only a truncation, or a
  creation on the inode of a deleted file, under a handle past the start can lead to
  the end of the process.
- `OffsetsStayWithinFile`, `NoBlockLost`, `NeverDies`: under `CarefulSpec`. The
  three are inductive together on top of `FsInv`: offsets inside files keep the
  subtractions from wrapping, so copies stay inside `fs_data`, and a write
  through a handle makes an owner of a file that is still in the directory.
- `FilesImplemented`: `CarefulSpec` implements `AbstractFS`, through the mapping
  `FilesOf` and `HandlesOf`. On top of those invariants, each call that succeeds is
  shown to be a call on named sequences of bytes, one lemma per call, and a creation
  that finds no entry to change nothing that shows. The files and the handles are
  first written as functions of the variables (`FilesIn`, `HandlesIn`), so that a
  step compares two pictures. Consistency of the directory makes a name and an inode
  lead to each other; ownership of blocks keeps a write off the bytes of every other
  file; that handles stay inside their files makes a write a splice of the sequence,
  and a read a part of it.
- `PackedNamesArrive`, `SeparatedPathGetsBar`, `SeparatedBoxIsEmpty`,
  `FullPathIsUnterminated`, `SubscriberHasNoCode`: what the broker finds in a frame,
  for any field sizes and names.
- `SessionTypes`, `CountIsRight`, `OthersClose`, `GlobalsAreRecent`, `OkIsTheEnd`,
  `OfRecentRegistrations`, `AloneIsHeard`, `ReadsAreBounded`: for any finite
  number of clients, requests, names and sizes, and any `PipeAt`. All but the last
  three follow from one invariant, `Inv`: no box can be found because none outlives
  its creation, so every session that ends passes the lines that close it; the
  session being served is in `held` exactly between its opening and its closing,
  which makes the count a cardinality; the elements in the queue are reads not yet
  served, so the reads number at least the turn. `RecentInv` follows the code and
  the path from the globals into the session: the case comes from one read, the path
  from one or from two in a row, and it is taken later than the case, so main is not
  behind the case's read any more except in the copy of its path. What was read
  before stays in `log`. `AloneInv` follows the
  one client through the pipe: until it leaves, main waits in `open` or in `read`
  for its frame. `ReadsInv` keeps an account of main's reads: a client brings two
  with it, one for its frame and one for the end of its writing; the frames in the
  pipe, the clients that have yet to write, those that have it open for writing
  and a read of main's that will find nothing are what is left of them.
- `NobodyIsAnswered`, `ReadsFitTheQueue`, `CreationEndsReading` are what main's
  order adds. `Inv` holds of the broker because each of its steps is one of
  `SessionHandler` or changes none of its variables (`HandlerInvariance`), and so
  do the theorems above. To it comes the invariant `Starving`: a
  worker exists only while main waits for it with the queue empty, and so its turn
  never comes. With no turn taken, the account of reads in `Inv` leaves no room for
  more reads than the queue has places, and one.

The assumptions on TecnicoFS are those of `TecnicoFS`: `WordSize` exceeds every
offset, length and address, which holds of a 64-bit `size_t`, and unused entries of
the open file table, and handles not in use, are told apart from those that stand in
a file.

Only model-checked: liveness, which is out of the prover's reach. Every safety
property the passing runs check is also proved.

## Findings

Five runs show the code differing from what it says of itself: the two of the
queue, the two of the file system and the start of the broker, each with its line
in PROJECT.json.

## Plan

Done, in this order: the queue with its proofs, TecnicoFS with its abstract
specification and its proofs, the broker's main loop, the frames, the
registrations and the session handler with their proofs, the proof that TecnicoFS
implements its abstract specification; then one thread in one of the queue's
roles, how the file system can be misused, and the broker put together.

Left: `Broker` with the queue of `BrokerMain` in place of its number of elements,
through `QueueImplementsCounter`; and the refinement of `AbstractFS` for callers
who delete open files, where a handle follows an inode that is used again.

## Not modelled

`pcq_destroy`, `state_destroy` and `tfs_destroy` (nobody calls them), allocation
failures at start-up, the artificial access delays, links and copies from outside
(declared, not implemented), printing. Of the broker, the two streaming loops, and
of the publisher the sending of messages: no execution gets there. A publisher is
not let through (`NobodyGetsThrough`); and a broker with main put right ends at the
first publisher or subscriber whose pipe it opens, as no box is there to be found.
So there is nothing of the program for a model of them to be faithful to. Pipes that
other programs made under a name that a torn or a separated path spells are not
modelled either. Of the manager, the parsing and sorting of a list that never
arrives; of all clients, arguments that are missing or too long.
