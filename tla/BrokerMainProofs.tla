-------------------------- MODULE BrokerMainProofs --------------------------
(***************************************************************************)
(* Why the broker serves nobody.  A worker exists only while main is in    *)
(* pthread_join, and it finds the queue empty: main enqueues only after a  *)
(* pthread_create that failed, and after that it never gets back to        *)
(* pthread_create.                                                         *)
(***************************************************************************)
EXTENDS BrokerMain, TLAPS

Looping == {"idle", "lock", "test", "wait", "asleep"}

\* The inductive invariant.
Starved ==
    /\ pc \in [Threads -> Labels]
    /\ pc[Worker] \in Looping
    /\ ~created => pc[Worker] = "idle"
    /\ created => main_at = "join" /\ current_size = 0 /\ pc[Main] = "idle"
    /\ main_at = "create" =>
          ~created /\ current_size = 0 /\ pc[Main] = "idle"

\* main and the worker are two threads, and the only ones.
LEMMA TwoThreads == /\ Threads = {Main, Worker} /\ Main # Worker
                    /\ Producers = {Main} /\ Consumers = {Worker}
BY ThreadsAssumption, RolesAssumption DEF Threads

\* Before anything runs there is no worker.
LEMMA StarvedInit == BrokerInit => Starved
BY TwoThreads DEF BrokerInit, Init, Starved, Looping, Labels

\* The steps of main outside the queue keep the worker starved.
LEMMA StarvedByMain == Starved /\ MainStep => Starved'
<1> SUFFICES ASSUME Starved, MainStep PROVE Starved'
  OBVIOUS
<1> USE TwoThreads
<1>1. CASE CreateWorker
  BY <1>1 DEF CreateWorker, Dequeue, Starved, Looping, Labels
<1>2. CASE CreateFails
  BY <1>2 DEF CreateFails, Starved, vars
<1>3. CASE Join
  BY <1>3 DEF Join, Starved, Looping, vars
<1>4. CASE ReadRegistration
  BY <1>4 DEF ReadRegistration, Enqueue, Starved, Looping, Labels
<1>5. CASE EnqueueReturned
  BY <1>5 DEF EnqueueReturned, Starved, vars
<1> QED BY <1>1, <1>2, <1>3, <1>4, <1>5 DEF MainStep

\* main inside pcq_enqueue: then there is no worker to wake.
LEMMA StarvedByProducer == Starved /\ MainInQueue => Starved'
<1> SUFFICES ASSUME Starved, MainInQueue PROVE Starved'
  OBVIOUS
<1> USE TwoThreads
<1>1. pc[Main] # "idle" /\ ~created /\ main_at # "create"
  <2>1. pc[Main] # "idle"
    BY DEF MainInQueue, ProducerStep, LockPusher, TestFull, SleepFull,
           CountUp, Store, SignalPopper
  <2> QED BY <2>1 DEF Starved
<1>2. pc' \in [Threads -> Labels] /\ pc'[Worker] = pc[Worker]
  <2>1. CASE SignalPopper(Main)
    <3>1. At(Consumers, {"asleep"}) = {}
      BY <1>1 DEF At, Starved
    <3> QED BY <2>1, <3>1 DEF SignalPopper, SignalOne, Starved, Labels
  <2>2. CASE LockPusher(Main) \/ TestFull(Main) \/ SleepFull(Main)
             \/ CountUp(Main) \/ Store(Main)
    BY <2>2 DEF LockPusher, TestFull, SleepFull, CountUp, Store, Starved, Labels
  <2> QED BY <2>1, <2>2 DEF MainInQueue, ProducerStep
<1> QED BY <1>1, <1>2 DEF MainInQueue, mainVars, Starved

\* The worker inside pcq_dequeue: the queue is empty, so it stays in its loop.
LEMMA StarvedByConsumer == Starved /\ WorkerInQueue => Starved'
<1> SUFFICES ASSUME Starved, WorkerInQueue PROVE Starved'
  OBVIOUS
<1> USE TwoThreads
<1>1. created /\ current_size = 0
  BY DEF WorkerInQueue, ConsumerStep, LockPopper, TestEmpty, SleepEmpty,
         CountDown, Load, SignalPusher, Starved
<1>2. LockPopper(Worker) \/ TestEmpty(Worker) \/ SleepEmpty(Worker)
  BY DEF WorkerInQueue, ConsumerStep, CountDown, Load, SignalPusher, Starved,
         Looping
<1>3. /\ pc' \in [Threads -> Labels] /\ pc'[Worker] \in Looping
      /\ pc'[Main] = pc[Main] /\ current_size' = current_size
  BY <1>1, <1>2 DEF LockPopper, TestEmpty, SleepEmpty, Empty, Starved, Looping,
                    Labels
<1> QED BY <1>1, <1>3 DEF WorkerInQueue, mainVars, Starved

\* A spurious wakeup sends the worker back to its test.
LEMMA StarvedBySpurious == Starved /\ Spurious => Starved'
<1> SUFFICES ASSUME Starved, NEW t \in Threads, SpuriousWakeup(t),
                    UNCHANGED mainVars
             PROVE  Starved'
  BY DEF Spurious
<1> QED BY TwoThreads DEF SpuriousWakeup, mainVars, Starved, Looping, Labels

\* Starved is preserved by every step of the broker.
LEMMA StarvedNext == Starved /\ [BrokerNext]_brokerVars => Starved'
<1> SUFFICES ASSUME Starved, [BrokerNext]_brokerVars PROVE Starved'
  OBVIOUS
<1>1. CASE ClientOpens
  BY <1>1 DEF ClientOpens, Starved, vars
<1>2. CASE UNCHANGED brokerVars
  BY <1>2 DEF brokerVars, vars, mainVars, Starved
<1> QED BY <1>1, <1>2, StarvedByMain, StarvedByProducer, StarvedByConsumer,
           StarvedBySpurious DEF BrokerNext

\* No session is ever served, whatever the queue's capacity and however many
\* clients come (mbroker.c:37, 294-316).
THEOREM NobodyIsServed == BrokerSpec => []NoSessionServed
<1>1. Starved => NoSessionServed
  BY DEF Starved, Looping, NoSessionServed
<1> QED BY <1>1, StarvedInit, StarvedNext, PTL DEF BrokerSpec

=============================================================================
