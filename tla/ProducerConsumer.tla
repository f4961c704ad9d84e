-------------------------- MODULE ProducerConsumer --------------------------
(***************************************************************************)
(* The bounded queue of producer-consumer/producer-consumer.c: a ring of   *)
(* pcq_capacity slots, a counter of elements, and one condition variable   *)
(* for each role.  A thread waits on its condition variable holding that   *)
(* variable's own mutex, but the counter, the head and the tail are each   *)
(* changed under a third, different mutex; the counter is changed before   *)
(* the slot is written or read.  One action is one critical section.       *)
(*                                                                         *)
(* The sections under pcq_current_size_lock, pcq_head_lock and             *)
(* pcq_tail_lock touch the one variable that lock guards (and one slot),   *)
(* so each is a single step here.  The two condition variable mutexes are  *)
(* state: whether a wakeup can be lost depends on who holds them.          *)
(***************************************************************************)
EXTENDS Integers, FiniteSets, Sequences

CONSTANTS
    Producers,   \* threads that call pcq_enqueue
    Consumers,   \* threads that call pcq_dequeue
    Capacity,    \* pcq_capacity
    WordSize,    \* number of values of a size_t
    Elements,    \* the non-NULL pointers that are enqueued
    Garbage,     \* what malloc leaves in a slot nobody has written
    NoThread,    \* the owner of a free mutex
    MaxLag       \* bound: no new call while |stores - loads| has reached it

Threads == Producers \cup Consumers

ASSUME ThreadsAssumption ==
    /\ Producers \cap Consumers = {}
    /\ IsFiniteSet(Producers) /\ IsFiniteSet(Consumers)
    /\ NoThread \notin Producers \cup Consumers
ASSUME SizesAssumption ==
    /\ Capacity \in Nat \ {0}          \* pcq_create refuses 0
    /\ WordSize \in Nat /\ WordSize > Capacity
    /\ MaxLag \in Nat
ASSUME GarbageAssumption == Garbage \notin Elements

VARIABLES
    current_size,   \* pcq_current_size
    head, tail,     \* pcq_head, pcq_tail
    buffer,         \* pcq_buffer
    pusher_lock,    \* owner of pcq_pusher_condvar_lock
    popper_lock,    \* owner of pcq_popper_condvar_lock
    pc,             \* where each thread is in its call
    elem,           \* the argument of an enqueue, the result of a dequeue
    lag             \* history: slots stored minus slots loaded

vars == <<current_size, head, tail, buffer, pusher_lock, popper_lock,
          pc, elem, lag>>

Slots == 0 .. Capacity - 1

\* Where a thread can be.  "lock", "test" and "wait" are the while loop around
\* pthread_cond_wait, "asleep" is blocked inside it; "count" changes the size,
\* "slot" the ring, "signal" wakes the other role.
Labels == {"idle", "lock", "test", "wait", "asleep", "count", "slot", "signal"}

At(S, L) == {t \in S : pc[t] \in L}

\* The arithmetic of the fields.  Each operator with a suffix is a plausible
\* slip in the line its namesake models; the runs show what it would break.
NextSlot_NoWrap(s) == s + 1
NextSlot(s) == (s + 1) % Capacity

OneMore_Forgotten(n) == n
OneMore(n) == (n + 1) % WordSize

\* size_t: one below zero is WordSize - 1.
OneLess(n) == (n + WordSize - 1) % WordSize

Full_OffByOne == current_size = Capacity + 1
Full == current_size = Capacity
Empty == current_size = 0

-----------------------------------------------------------------------------
Init ==
    /\ current_size = 0 /\ head = 0 /\ tail = 0
    /\ buffer = [s \in Slots |-> Garbage]
    /\ pusher_lock = NoThread /\ popper_lock = NoThread
    /\ pc = [t \in Threads |-> "idle"]
    /\ elem = [t \in Threads |-> Garbage]
    /\ lag = 0

\* The end of a call: signal one thread of S asleep on the condition variable,
\* if there is one, while its mutex is free.
SignalOne_Nobody(t, S) == pc' = [pc EXCEPT ![t] = "idle"]
SignalOne(t, S) ==
    \/ \E s \in At(S, {"asleep"}) :
          pc' = [pc EXCEPT ![t] = "idle", ![s] = "lock"]
    \/ At(S, {"asleep"}) = {} /\ pc' = [pc EXCEPT ![t] = "idle"]

\* pcq_enqueue(elem) is called; a NULL argument returns -1 and changes nothing.
Enqueue(p) ==
    /\ pc[p] = "idle" /\ lag < MaxLag
    /\ \E e \in Elements : elem' = [elem EXCEPT ![p] = e]
    /\ pc' = [pc EXCEPT ![p] = "lock"]
    /\ UNCHANGED <<current_size, head, tail, buffer, pusher_lock, popper_lock, lag>>

\* Take the mutex, on entry or on the way out of pthread_cond_wait.
LockPusher(p) ==
    /\ pc[p] = "lock" /\ pusher_lock = NoThread
    /\ pusher_lock' = p
    /\ pc' = [pc EXCEPT ![p] = "test"]
    /\ UNCHANGED <<current_size, head, tail, buffer, popper_lock, elem, lag>>

\* The while condition, read without pcq_current_size_lock: stay in the loop,
\* or leave it and release the mutex.
TestFull(p) ==
    /\ pc[p] = "test"
    /\ \/ /\ Full
          /\ pc' = [pc EXCEPT ![p] = "wait"]
          /\ UNCHANGED pusher_lock
       \/ /\ ~Full
          /\ pc' = [pc EXCEPT ![p] = "count"]
          /\ pusher_lock' = NoThread
    /\ UNCHANGED <<current_size, head, tail, buffer, popper_lock, elem, lag>>

\* pthread_cond_wait releases the mutex and blocks in one step.
SleepFull(p) ==
    /\ pc[p] = "wait"
    /\ pc' = [pc EXCEPT ![p] = "asleep"]
    /\ pusher_lock' = NoThread
    /\ UNCHANGED <<current_size, head, tail, buffer, popper_lock, elem, lag>>

CountUp(p) ==
    /\ pc[p] = "count"
    /\ current_size' = OneMore(current_size)
    /\ pc' = [pc EXCEPT ![p] = "slot"]
    /\ UNCHANGED <<head, tail, buffer, pusher_lock, popper_lock, elem, lag>>

\* Inserting "at the front", as the header words it.
Store_AtFront(p) ==
    /\ pc[p] = "slot"
    /\ buffer' = [buffer EXCEPT ![head] = elem[p]]
    /\ tail' = NextSlot(tail)
    /\ lag' = lag + 1
    /\ pc' = [pc EXCEPT ![p] = "signal"]
    /\ UNCHANGED <<current_size, head, pusher_lock, popper_lock, elem>>
Store(p) ==
    /\ pc[p] = "slot"
    /\ buffer' = [buffer EXCEPT ![tail] = elem[p]]
    /\ tail' = NextSlot(tail)
    /\ lag' = lag + 1
    /\ pc' = [pc EXCEPT ![p] = "signal"]
    /\ UNCHANGED <<current_size, head, pusher_lock, popper_lock, elem>>

\* Signalling without the mutex.
SignalPopper_Unlocked(p) ==
    /\ pc[p] = "signal"
    /\ SignalOne(p, Consumers)
    /\ UNCHANGED <<current_size, head, tail, buffer, pusher_lock, popper_lock, elem, lag>>
SignalPopper(p) ==
    /\ pc[p] = "signal" /\ popper_lock = NoThread
    /\ SignalOne(p, Consumers)
    /\ UNCHANGED <<current_size, head, tail, buffer, pusher_lock, popper_lock, elem, lag>>

-----------------------------------------------------------------------------
Dequeue(c) ==
    /\ pc[c] = "idle" /\ -lag < MaxLag
    /\ pc' = [pc EXCEPT ![c] = "lock"]
    /\ UNCHANGED <<current_size, head, tail, buffer, pusher_lock, popper_lock, elem, lag>>

LockPopper(c) ==
    /\ pc[c] = "lock" /\ popper_lock = NoThread
    /\ popper_lock' = c
    /\ pc' = [pc EXCEPT ![c] = "test"]
    /\ UNCHANGED <<current_size, head, tail, buffer, pusher_lock, elem, lag>>

TestEmpty(c) ==
    /\ pc[c] = "test"
    /\ \/ /\ Empty
          /\ pc' = [pc EXCEPT ![c] = "wait"]
          /\ UNCHANGED popper_lock
       \/ /\ ~Empty
          /\ pc' = [pc EXCEPT ![c] = "count"]
          /\ popper_lock' = NoThread
    /\ UNCHANGED <<current_size, head, tail, buffer, pusher_lock, elem, lag>>

SleepEmpty(c) ==
    /\ pc[c] = "wait"
    /\ pc' = [pc EXCEPT ![c] = "asleep"]
    /\ popper_lock' = NoThread
    /\ UNCHANGED <<current_size, head, tail, buffer, pusher_lock, elem, lag>>

CountDown(c) ==
    /\ pc[c] = "count"
    /\ current_size' = OneLess(current_size)
    /\ pc' = [pc EXCEPT ![c] = "slot"]
    /\ UNCHANGED <<head, tail, buffer, pusher_lock, popper_lock, elem, lag>>

Load(c) ==
    /\ pc[c] = "slot"
    /\ elem' = [elem EXCEPT ![c] = buffer[head]]
    /\ head' = NextSlot(head)
    /\ lag' = lag - 1
    /\ pc' = [pc EXCEPT ![c] = "signal"]
    /\ UNCHANGED <<current_size, tail, buffer, pusher_lock, popper_lock>>

SignalPusher(c) ==
    /\ pc[c] = "signal" /\ pusher_lock = NoThread
    /\ SignalOne(c, Producers)
    /\ UNCHANGED <<current_size, head, tail, buffer, pusher_lock, popper_lock, elem, lag>>

-----------------------------------------------------------------------------
\* pthread_cond_wait may return without a signal.
SpuriousWakeup(t) ==
    /\ pc[t] = "asleep"
    /\ pc' = [pc EXCEPT ![t] = "lock"]
    /\ UNCHANGED <<current_size, head, tail, buffer, pusher_lock, popper_lock, elem, lag>>

ProducerStep(p) ==
    \/ LockPusher(p) \/ TestFull(p) \/ SleepFull(p)
    \/ CountUp(p) \/ Store(p) \/ SignalPopper(p)

ConsumerStep(c) ==
    \/ LockPopper(c) \/ TestEmpty(c) \/ SleepEmpty(c)
    \/ CountDown(c) \/ Load(c) \/ SignalPusher(c)

Next ==
    \/ \E p \in Producers : Enqueue(p) \/ ProducerStep(p)
    \/ \E c \in Consumers : Dequeue(c) \/ ConsumerStep(c)
    \/ \E t \in Threads : SpuriousWakeup(t)

Spec == Init /\ [][Next]_vars

\* Every thread inside a call keeps running; nobody has to make a call, and
\* only finitely many wakeups are spurious.
Fairness ==
    /\ \A p \in Producers : WF_vars(ProducerStep(p))
    /\ \A c \in Consumers : WF_vars(ConsumerStep(c))
    /\ <>[][\A t \in Threads : ~SpuriousWakeup(t)]_vars

FairSpec == Spec /\ Fairness

-----------------------------------------------------------------------------
(* Properties of any number of threads *)

TypeOK ==
    /\ current_size \in 0 .. WordSize - 1
    /\ head \in Slots /\ tail \in Slots
    /\ buffer \in [Slots -> Elements \cup {Garbage}]
    /\ pusher_lock \in Threads \cup {NoThread}
    /\ popper_lock \in Threads \cup {NoThread}
    /\ pc \in [Threads -> Labels]
    /\ elem \in [Threads -> Elements \cup {Garbage}]
    /\ lag \in Int

\* The elements the counter stands for: what the ring holds, plus those counted
\* and not stored yet, minus those discounted and not loaded yet.
Count == lag + Cardinality(At(Producers, {"slot"}))
             - Cardinality(At(Consumers, {"slot"}))

\* Counter and ring are changed under different mutexes, in separate steps, and
\* still account for each other whenever they are looked at: the counter is the
\* number above in a size_t, and the distance from head to tail is what was
\* stored and not loaded.  (producer-consumer.c:62-69, 86-93.)
CountMatchesRing ==
    /\ current_size = Count % WordSize
    /\ (tail - head - lag) % Capacity = 0

Waiting(S) == At(S, {"wait", "asleep"})

\* No wakeup is lost, for any number of threads: while a consumer waits, every
\* counted element has a thread on its way to it, either a producer that has
\* still to signal or a consumer that will test the counter or has tested it.
\* While a producer waits, the same holds of every free place.  The counter is
\* changed outside the mutex of the condition variable, so this rests on the
\* signal coming after the change and under that mutex
\* (producer-consumer.c:56-73, 80-97).
NoLostWakeup ==
    /\ Waiting(Consumers) # {} =>
          Count <= Cardinality(At(Producers, {"slot", "signal"}))
                   + Cardinality(At(Consumers, {"lock", "test", "count"}))
    /\ Waiting(Producers) # {} =>
          Capacity - Count <= Cardinality(At(Consumers, {"slot", "signal"}))
                   + Cardinality(At(Producers, {"lock", "test", "count"}))

\* The queue never stops with every thread asleep, one role on a full queue and
\* the other on an empty one (producer-consumer.c:58, 82).
NotAllAsleep == \E t \in Threads : pc[t] # "asleep"

-----------------------------------------------------------------------------
(* Properties of a role with one thread, whatever the other role has *)

\* One producer never overfills the queue, however many consumers race with it:
\* what is stored and not loaded exceeds the slots by no more than the elements
\* that consumers have been admitted to and not loaded yet
\* (producer-consumer.c:57-64).
NotOverfilled == Count <= Capacity

\* One consumer never overdraws the queue, however many producers there are: a
\* load that runs ahead is owed a store by a producer that has counted it, even
\* when two producers have overfilled the queue (producer-consumer.c:81-88).
NotOverdrawn == Count >= 0

-----------------------------------------------------------------------------
(* Properties of one producer with one consumer *)

\* The test of the counter and its change are in different critical sections
\* (producer-consumer.c:57 and 63, 81 and 87), yet with one thread in each role
\* the counter neither passes the capacity nor wraps below zero.
SizeWithinCapacity == current_size \in 0 .. Capacity

\* The ring strays from the counter by at most one slot each way: a load may
\* run ahead of the store it was promised, and a store may overwrite the oldest
\* slot before its load (producer-consumer.c:62-69, 86-93).
LagWithinOne == lag \in -1 .. Capacity + 1

\* Whatever races occurred, the slots from head up to tail have been written:
\* malloc's content is read only by a load that runs ahead of its store.
ContentsWritten ==
    \A i \in 0 .. lag - 1 : buffer[(head + i) % Capacity] \in Elements

\* The ring read from head to tail, when no race is in progress.
InRing == lag \in 0 .. Capacity
Contents == [i \in 1 .. lag |-> buffer[(head + i - 1) % Capacity]]

Stores(p) == pc[p] = "slot" /\ pc'[p] = "signal"
Loads(c)  == pc[c] = "slot" /\ pc'[c] = "signal"

\* Outside a race the ring is a first-in first-out queue: a store appends, a
\* load takes the oldest, and every other step of every thread leaves the
\* contents alone (producer-consumer.c:67-68, 91-92).
FifoStep ==
    (InRing /\ InRing') =>
        /\ \A p \in Producers :
              Stores(p) => Contents' = Append(Contents, elem[p])
        /\ \A c \in Consumers :
              Loads(c) => Contents = <<elem'[c]>> \o Contents'
        /\ lag' = lag => Contents' = Contents
FifoOutsideRaces == [][FifoStep]_vars

\* The counter with the two while loops is the bounded counter the header
\* promises: a call is admitted only when there is space, or an element, at the
\* moment it is admitted (producer-consumer.h:42-50).
Counter == INSTANCE BoundedCounter WITH
    count <- current_size,
    entering <- At(Threads, {"lock", "test", "wait", "asleep", "count"})
ImplementsCounter == Counter!BSpec

\* A call to pcq_enqueue returns, unless the queue is full and its consumer has
\* stopped calling (producer-consumer.c:57-75).
EnqueueReturns ==
    \A p \in Producers :
        pc[p] # "idle" ~> \/ pc[p] = "idle"
                          \/ Full /\ \A c \in Consumers : pc[c] = "idle"

\* A call to pcq_dequeue returns, unless the queue is empty and its producer
\* has stopped calling (producer-consumer.c:81-99).
DequeueReturns ==
    \A c \in Consumers :
        pc[c] # "idle" ~> \/ pc[c] = "idle"
                          \/ Empty /\ \A p \in Producers : pc[p] = "idle"

-----------------------------------------------------------------------------
(* What the header says and the code does not do *)

\* A dequeue returns an element that was inserted (producer-consumer.h:47-49).
DequeuesAnElement ==
    \A c \in Consumers : pc[c] = "signal" => elem[c] \in Elements

=============================================================================
