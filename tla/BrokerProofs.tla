---------------------------- MODULE BrokerProofs ----------------------------
(***************************************************************************)
(* The broker gets nobody through.                                         *)
(***************************************************************************)
EXTENDS Broker, SessionHandlerProofs

-----------------------------------------------------------------------------
(* Every step of the broker is one that SessionHandler has, or shows there  *)
(* as none, so what is proved there of every state holds here.             *)

LEMMA StepIsHandlers ==
    ASSUME [BrokerNext]_brokerVars
    PROVE  [Next]_vars
<1>1. CASE Create \/ JoinNoThread \/ BodyFails
  BY <1>1 DEF Create, JoinNoThread, BodyFails, Next, Worker
<1>2. CASE CreateFails \/ JoinWorker
  BY <1>2 DEF CreateFails, JoinWorker
<1>3. CASE Body
  BY <1>3 DEF Body, Next
<1>4. CASE ThreadFun
  BY <1>4 DEF ThreadFun, AwaitElement, Next, Worker
<1>5. CASE \E c \in Clients : Client(c)
  BY <1>5 DEF Client, Next
<1>6. CASE UNCHANGED brokerVars
  BY <1>6 DEF brokerVars
<1> QED BY <1>1, <1>2, <1>3, <1>4, <1>5, <1>6 DEF BrokerNext

LEMMA HandlerInvariance == BrokerSpec => []Inv
<1>1. BrokerInit => Init
  BY DEF BrokerInit
<1>2. BrokerSpec => Spec
  BY <1>1, StepIsHandlers, PTL DEF BrokerSpec, Spec
<1> QED BY <1>2, Invariance, PTL

-----------------------------------------------------------------------------
(* A worker exists only while main waits for it with the queue empty, so it *)
(* stays in its dequeue: main enqueues only after a creation that failed,   *)
(* and from then on it does not get back to pthread_create.                 *)

Starving ==
    /\ worker_at = IF created THEN "dequeue" ELSE "none"
    /\ created => clause = "join" /\ queued = 0
    /\ clause = "create" => ~created /\ queued = 0
    /\ clause # "body" => main_at = "loop"
    /\ turn = 0

LEMMA StarvingStep ==
    ASSUME TypeOK, Starving, [BrokerNext]_brokerVars
    PROVE  Starving'
<1>1. CASE Create
  BY <1>1 DEF Create, CreateWorker, Starving, regVars, mainVars
<1>2. CASE CreateFails
  BY <1>2 DEF CreateFails, Starving, vars, regVars, mainVars, handlerVars
<1>3. CASE JoinWorker
  BY <1>3 DEF JoinWorker, Starving, vars, regVars, mainVars, handlerVars
<1>4. CASE JoinNoThread \/ BodyFails
  BY <1>4 DEF JoinNoThread, JoinDies, BodyFails, BodyDies, Starving, forVars,
     mainVars, handlerVars
<1>5. CASE Body
  BY <1>5 DEF Body, Starving, handlerVars
<1>6. CASE ThreadFun
  <2>1. CASE AwaitElement
    <3>1. UNCHANGED forVars /\ UNCHANGED vars
      BY <1>6, <2>1 DEF ThreadFun, AwaitElement
    <3> QED BY <3>1 DEF Starving, forVars, vars, regVars, mainVars, handlerVars
  <2>2. CASE ~AwaitElement
    BY <1>6, <2>2 DEF ThreadFun, Starving, Dequeue, CheckActive, Switch, OpenPipe,
       Connect, OpenBox, CreateBox, RemoveBox, ListBoxes, Answer, Finish
  <2> QED BY <2>1, <2>2
<1>7. ASSUME NEW c \in Clients, Client(c)
      PROVE  Starving'
  <2>1. /\ UNCHANGED <<queued, worker_at, turn, clause, created>>
        /\ main_at = "loop" => main_at' = "loop"
    BY <1>7 DEF Client, ClientStep, Knock, MakePipe, Write, CloseTx, Join,
       Listen, Leave, HangUp, mainVars, handlerVars, forVars
  <2> QED BY <2>1 DEF Starving
<1>8. CASE UNCHANGED brokerVars
  BY <1>8 DEF brokerVars, forVars, vars, regVars, mainVars, handlerVars, Starving
<1> QED BY <1>1, <1>2, <1>3, <1>4, <1>5, <1>6, <1>7, <1>8 DEF BrokerNext

LEMMA GetsThroughStep ==
    ASSUME TypeOK, Starving, NobodyGetsThrough, [BrokerNext]_brokerVars
    PROVE  NobodyGetsThrough'
<1>1. ASSUME UNCHANGED <<held, boxes, at, said>>
      PROVE  NobodyGetsThrough'
  BY <1>1 DEF NobodyGetsThrough
<1>2. CASE /\ MainBody \/ \E c \in Clients : ClientStep(c)
           /\ UNCHANGED handlerVars
  <2>1. held' = held /\ boxes' = boxes
    BY <1>2 DEF handlerVars
  <2> QED BY <1>2, <2>1, OutsideSteps, OutsideConnectsNobody DEF NobodyGetsThrough
<1>3. CASE Create \/ CreateFails \/ JoinWorker \/ JoinNoThread \/ BodyFails
  BY <1>1, <1>3 DEF Create, CreateWorker, CreateFails, JoinWorker, JoinNoThread,
     JoinDies, BodyFails, BodyDies, vars, regVars, clientVars, handlerVars
<1>4. CASE ThreadFun
  <2>1. CASE AwaitElement
    BY <1>1, <2>1 DEF AwaitElement, vars, regVars, clientVars, handlerVars
  <2>2. CASE ~AwaitElement
    BY <1>1, <1>4, <2>2 DEF ThreadFun, Starving, Dequeue, CheckActive, Switch,
       OpenPipe, Connect, OpenBox, CreateBox, RemoveBox, ListBoxes, Answer, Finish,
       clientVars
  <2> QED BY <2>1, <2>2
<1>5. CASE \E c \in Clients : HangUp(c)
  BY <1>5 DEF HangUp, AwaitsAnswer, NobodyGetsThrough
<1>6. CASE UNCHANGED brokerVars
  BY <1>1, <1>6 DEF brokerVars, vars, regVars, clientVars, handlerVars
<1> QED BY <1>2, <1>3, <1>4, <1>5, <1>6 DEF BrokerNext, Body, Client

LEMMA BrokerInvariance ==
    BrokerSpec => [](Inv /\ Starving /\ NobodyGetsThrough)
<1>1. BrokerSpec => []Inv
  BY HandlerInvariance
<1>2. BrokerInit => Starving /\ NobodyGetsThrough
  BY DEF BrokerInit, Init, RegInit, Starving, NobodyGetsThrough
<1>3. Inv /\ Starving /\ NobodyGetsThrough /\ [BrokerNext]_brokerVars
        => (Starving /\ NobodyGetsThrough)'
  BY StarvingStep, GetsThroughStep DEF Inv
<1> QED BY <1>1, <1>2, <1>3, PTL DEF BrokerSpec

\* No pipe is opened and nothing is answered (mbroker.c:37, 294).
THEOREM NobodyIsAnswered == BrokerSpec => []NobodyGetsThrough
BY BrokerInvariance, PTL

\* The broker reads one registration more than its queue has places, at most:
\* every read is still in the queue, or on its way there (mbroker.c:304, 315).
THEOREM ReadsFitTheQueue == BrokerSpec => []ReadsOnlyWhatFits
<1>1. Inv /\ Starving => ReadsOnlyWhatFits
  <2> SUFFICES ASSUME Inv, Starving PROVE ReadsOnlyWhatFits
    OBVIOUS
  <2>1. /\ Len(log) \in Nat /\ queued \in 0 .. Capacity /\ Capacity \in Nat
        /\ turn = 0
        /\ turn + queued = Len(log) - (IF InBody THEN 1 ELSE 0)
    BY ClientsAssumption DEF Inv, TypeOK, Turns, Starving
  <2> QED BY <2>1 DEF ReadsOnlyWhatFits
<1> QED BY <1>1, BrokerInvariance, PTL

\* With a worker created, main reads no more (mbroker.c:294, 304).
THEOREM CreationEndsReading == BrokerSpec => NoReadAfterCreation
<1>1. Starving /\ [BrokerNext]_brokerVars
        => [created => created' /\ UNCHANGED log]_brokerVars
  <2> SUFFICES ASSUME Starving, BrokerNext, created
               PROVE  created' /\ UNCHANGED log
    BY DEF brokerVars
  <2>1. clause = "join" /\ worker_at = "dequeue" /\ queued = 0
    BY DEF Starving
  <2>2. CASE ThreadFun
    BY <2>1, <2>2 DEF ThreadFun, AwaitElement, Dequeue, CheckActive, Switch,
       OpenPipe, Connect, OpenBox, CreateBox, RemoveBox, ListBoxes, Answer, Finish,
       forVars, vars, regVars, mainVars
  <2>3. ASSUME NEW c \in Clients, Client(c)
        PROVE  created' /\ UNCHANGED log
    BY <2>3 DEF Client, ClientStep, Knock, MakePipe, Write, CloseTx, Join,
       Listen, Leave, HangUp, mainVars, forVars
  <2> QED BY <2>1, <2>2, <2>3 DEF BrokerNext, Create, CreateFails, JoinWorker,
             JoinNoThread, Body, BodyFails
<1> QED BY <1>1, BrokerInvariance, PTL DEF BrokerSpec, NoReadAfterCreation

=============================================================================
