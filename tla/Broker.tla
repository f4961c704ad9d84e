------------------------------- MODULE Broker -------------------------------
(***************************************************************************)
(* The broker as main of mbroker/mbroker.c orders it, with its clients:    *)
(* SessionHandler with the for statement around the body put back.  Its    *)
(* first clause creates the worker, once; its condition joins it, before   *)
(* each run of the body.                                                   *)
(***************************************************************************)
EXTENDS SessionHandler

VARIABLES
    clause,     \* the part of the for statement that main is in
    created     \* s.tid names a thread that was not joined

forVars == <<clause, created>>
brokerVars == <<vars, forVars>>

BrokerInit == Init /\ clause = "create" /\ created = FALSE

Create ==
    /\ clause = "create" /\ CreateWorker
    /\ clause' = "join" /\ created' = TRUE

\* The result of pthread_create is not looked at.
CreateFails ==
    /\ alive /\ clause = "create"
    /\ clause' = "join"
    /\ UNCHANGED <<vars, created>>

\* pthread_join of the worker waits for its end and gives 0, which ends the for
\* statement; the while around it starts it over.  Where there is no thread it
\* may give an error, on which the body runs.
JoinWorker_NotAwaited ==
    /\ alive /\ clause = "join"
    /\ clause' = "body"
    /\ UNCHANGED <<vars, created>>
JoinWorker ==
    /\ alive /\ clause = "join"
    /\ created => worker_at = "none"
    /\ clause' = IF created THEN "create" ELSE "body"
    /\ created' = FALSE
    /\ UNCHANGED vars

\* Or it ends the process.
JoinNoThread ==
    /\ clause = "join" /\ ~created /\ JoinDies
    /\ UNCHANGED forVars

\* The condition again, when the body is through.
Body ==
    /\ clause = "body" /\ MainBody
    /\ clause' = IF main_at' = "loop" THEN "join" ELSE "body"
    /\ UNCHANGED <<created, handlerVars>>

BodyFails ==
    /\ clause = "body" /\ BodyDies
    /\ UNCHANGED forVars

\* In pcq_dequeue the worker sleeps while the queue is empty; a wakeup with nothing
\* to take lets it test again, and nothing else.
AwaitElement ==
    /\ alive /\ worker_at = "dequeue" /\ queued = 0
    /\ UNCHANGED vars

ThreadFun ==
    /\ \/ AwaitElement
       \/ Dequeue \/ CheckActive \/ Switch \/ OpenPipe \/ Connect \/ OpenBox
       \/ CreateBox \/ RemoveBox \/ ListBoxes \/ Answer \/ Finish
    /\ UNCHANGED forVars

Client(c) ==
    /\ (ClientStep(c) /\ UNCHANGED handlerVars) \/ HangUp(c)
    /\ UNCHANGED forVars

BrokerNext ==
    \/ Create \/ CreateFails \/ JoinWorker \/ JoinNoThread
    \/ Body \/ BodyFails \/ ThreadFun \/ \E c \in Clients : Client(c)

BrokerSpec == BrokerInit /\ [][BrokerNext]_brokerVars

-----------------------------------------------------------------------------
\* The broker opens nobody's pipe and answers nobody: no client gets past the
\* open of its own pipe, and no manager prints anything (mbroker.c:37, 294).
NobodyGetsThrough ==
    /\ held = {} /\ boxes = {}
    /\ \A c \in Clients :
        at[c] \notin {"connected", "answered"} /\ said[c] = "nothing"

\* In all its life it reads as many registrations as the queue has places, and
\* one more, which pcq_enqueue never gets rid of (mbroker.c:304, 315).
ReadsOnlyWhatFits == Len(log) <= Capacity + 1

\* Once a worker could be created no registration is read any more, whoever comes
\* (mbroker.c:294, 304).
NoReadAfterCreation == [][created => created' /\ UNCHANGED log]_brokerVars

=============================================================================
