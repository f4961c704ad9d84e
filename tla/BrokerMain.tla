----------------------------- MODULE BrokerMain -----------------------------
(***************************************************************************)
(* How main of mbroker/mbroker.c feeds the queue and the worker drains it. *)
(* The for statement creates the worker in its first clause and joins it   *)
(* in its condition; registrations are read in its body.  So main waits    *)
(* for the worker to end before it reads what the worker waits for.        *)
(*                                                                         *)
(* Producers is main alone, and Consumers the worker: a second worker is   *)
(* created only when the first has been joined.  A session takes no step   *)
(* of its own here: the worker ends when its pcq_dequeue returns.          *)
(***************************************************************************)
EXTENDS ProducerConsumer

CONSTANTS
    Main, Worker,
    MaxWaiting,         \* bound: clients waiting at the register pipe
    CreateMayFail       \* whether pthread_create can run out of threads

ASSUME RolesAssumption == Producers = {Main} /\ Consumers = {Worker}

VARIABLES
    main_at,    \* where main is
    created,    \* s.tid names a thread that was not joined
    waiting     \* clients blocked in open of the register pipe

mainVars == <<main_at, created, waiting>>
brokerVars == <<vars, mainVars>>

BrokerInit ==
    /\ Init
    /\ main_at = "create" /\ created = FALSE /\ waiting = 0

\* pthread_create: the worker starts with pcq_dequeue.
CreateWorker ==
    /\ main_at = "create"
    /\ main_at' = "join" /\ created' = TRUE
    /\ Dequeue(Worker)
    /\ UNCHANGED waiting

\* Its result is not looked at: pthread_join is called in any case.
CreateFails ==
    /\ CreateMayFail /\ main_at = "create"
    /\ main_at' = "join"
    /\ UNCHANGED <<vars, created, waiting>>

\* pthread_join waits for the worker to end and gives 0: that ends the for
\* loop, and the while loop around it starts it over.  Of what is not a thread
\* it is undefined: it may give an error, on which the body runs, or the
\* process dies.
Join_NotAwaited ==
    /\ main_at = "join"
    /\ main_at' = "open"
    /\ UNCHANGED <<vars, created, waiting>>
Join ==
    /\ main_at = "join"
    /\ created => pc[Worker] = "idle"
    /\ main_at' \in (IF created THEN {"create"} ELSE {"open", "dead"})
    /\ created' = FALSE
    /\ UNCHANGED <<vars, waiting>>

\* The open of the register pipe returns when a client has opened it too.  Its
\* message is read into buffer, and pcq_enqueue is called.
ReadRegistration ==
    /\ main_at = "open" /\ waiting > 0
    /\ waiting' = waiting - 1
    /\ main_at' = "enqueue"
    /\ Enqueue(Main)
    /\ UNCHANGED created

EnqueueReturned ==
    /\ main_at = "enqueue" /\ pc[Main] = "idle"
    /\ main_at' = "join"
    /\ UNCHANGED <<vars, created, waiting>>

\* A client opens the register pipe, and blocks until the broker does.
ClientOpens ==
    /\ waiting < MaxWaiting
    /\ waiting' = waiting + 1
    /\ UNCHANGED <<vars, main_at, created>>

MainStep ==
    \/ CreateWorker \/ CreateFails \/ Join
    \/ ReadRegistration \/ EnqueueReturned

MainInQueue == ProducerStep(Main) /\ UNCHANGED mainVars
WorkerInQueue == ConsumerStep(Worker) /\ UNCHANGED mainVars
Spurious == (\E t \in Threads : SpuriousWakeup(t)) /\ UNCHANGED mainVars

BrokerNext ==
    MainStep \/ MainInQueue \/ WorkerInQueue \/ Spurious \/ ClientOpens

BrokerSpec == BrokerInit /\ [][BrokerNext]_brokerVars

\* Both threads run; clients need not come, and spurious wakeups end.
BrokerFairSpec ==
    /\ BrokerSpec
    /\ WF_brokerVars(MainStep)
    /\ WF_brokerVars(MainInQueue)
    /\ WF_brokerVars(WorkerInQueue)
    /\ <>[][~Spurious]_brokerVars

-----------------------------------------------------------------------------
\* No session is ever served: the worker never leaves the loop of pcq_dequeue,
\* whether or not threads can be created, although main does read and enqueue
\* registrations when they cannot (mbroker.c:37, 294-316).
NoSessionServed == pc[Worker] \in {"idle", "lock", "test", "wait", "asleep"}

\* Registrations are read, as the comment on the body of the loop has it
\* (mbroker.c:302).
RegistrationsAreRead == waiting > 0 ~> main_at = "enqueue"

=============================================================================
