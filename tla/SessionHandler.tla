--------------------------- MODULE SessionHandler ---------------------------
(***************************************************************************)
(* threadFun of mbroker/mbroker.c with the clients and main's loop body.   *)
(*                                                                         *)
(* BrokerMain shows that main, as it is ordered, lets no worker past its   *)
(* dequeue.  Here pthread_join does not wait: where main loops it may      *)
(* create a worker, if the last one has ended, or run the body.  Every     *)
(* execution of the broker is among these (Broker); the others are what    *)
(* its code does once a worker and the body get to run together.           *)
(*                                                                         *)
(* TecnicoFS is the set of its files: until one is created every lookup    *)
(* fails, and no inode, block or handle is in use.                         *)
(***************************************************************************)
EXTENDS Registration

VARIABLES
    worker_at,              \* where the worker is
    turn,                   \* history: how many elements were dequeued
    op,                     \* the case the worker took
    pipe,                   \* whose pipe it has opened, or is opening
    fhandle,                \* what the file system gave it
    num_active_sessions, num_active_box,
    held,                   \* sessions whose pipe the broker has open
    boxes                   \* the files of TecnicoFS

handlerVars == <<worker_at, turn, op, pipe, fhandle, num_active_sessions,
                 num_active_box, held, boxes>>
vars == <<regVars, handlerVars>>

Init ==
    /\ RegInit
    /\ worker_at = "none" /\ turn = 0 /\ op = 0 /\ pipe = Nobody /\ fhandle = -1
    /\ num_active_sessions = 0 /\ num_active_box = 0
    /\ held = {} /\ boxes = {}

-----------------------------------------------------------------------------
\* exit or a signal: the kernel closes what the broker had open.
Die == alive' = FALSE /\ reg' = Kept(reg)
Survive == UNCHANGED <<alive, reg>>

This == [turn |-> turn, op |-> op, pipe |-> pipe]

\* What the second byte of the answer is, and what a manager makes of it: create
\* takes a zero for success, and remove looks at a byte it never reads.
AnswerByte ==
    CASE op = 3 -> IF fhandle = -1 THEN "-" ELSE "0"
      [] op = 5 -> IF fhandle = -1 THEN "\\377" ELSE Nul
Says_Inverted(c, byte) ==
    IF asks[c].kind = "create" /\ byte = Nul THEN "ERROR" ELSE "OK"
Says(c, byte) ==
    IF asks[c].kind = "create" /\ byte # Nul THEN "ERROR" ELSE "OK"

\* create and remove wait for one answer; a list manager reads on for ever,
\* since it looks for the end of the list one byte at a time.
AwaitsAnswer(c) == at[c] = "connected" /\ asks[c].kind \in {"create", "remove"}

\* The client that has its own pipe open, or is opening it, at the end opposite
\* to the broker's: a publisher to write, the others to read.
IsOtherEnd(c) ==
    /\ at[c] \in {"opening", "connected", "answered"} /\ ~Listens(c)
    /\ (op = 1) <=> (asks[c].kind = "pub")

-----------------------------------------------------------------------------
(* The worker. *)

CreateWorker ==
    /\ alive /\ worker_at = "none" /\ main_at = "loop"
    /\ worker_at' = "dequeue"
    /\ UNCHANGED <<regVars, turn, op, pipe, fhandle, num_active_sessions,
                   num_active_box, held, boxes>>

\* pthread_join of what is not a thread, after a creation that failed, may end
\* the process.
JoinDies ==
    /\ alive /\ worker_at = "none" /\ main_at = "loop"
    /\ UNCHANGED <<clientVars, mainVars, handlerVars>>
    /\ Die

\* The body ends it when open or read of the register pipe fails.
BodyDies ==
    /\ alive /\ main_at \in {"loop", "open", "read"}
    /\ UNCHANGED <<clientVars, mainVars, handlerVars>>
    /\ Die

Dequeue ==
    /\ alive /\ worker_at = "dequeue" /\ queued > 0
    /\ queued' = queued - 1 /\ turn' = turn + 1
    /\ worker_at' = "check"
    /\ UNCHANGED <<clientVars, reg, main_at, log, box_turn, alive, op, pipe,
                   fhandle, num_active_sessions, num_active_box, held, boxes>>

\* The path is compared with entries of active_sessions, which nobody writes:
\* whatever malloc left there decides, as soon as a session counts.
CheckActive ==
    /\ alive /\ worker_at = "check"
    /\ worker_at' = "switch"
    /\ UNCHANGED <<clientVars, mainVars, turn, op, pipe, fhandle,
                   num_active_sessions, num_active_box, held, boxes>>
    /\ Survive \/ (num_active_sessions > 0 /\ Die)

Switch ==
    /\ alive /\ worker_at = "switch"
    /\ op' = OpOf(Entry(OpTurn))
    /\ worker_at' = IF op' \in {1, 2, 3, 5, 7} THEN "open" ELSE "none"
    /\ UNCHANGED <<regVars, turn, pipe, fhandle, num_active_sessions,
                   num_active_box, held, boxes>>

\* open of the client's pipe: fails unless the path leads to one, and otherwise
\* waits for the other end.  A publisher's box may be taken for active before
\* that, by an entry of active_box that some publisher filled.
OpenPipe ==
    /\ alive /\ worker_at = "open"
    /\ pipe' \in PathsSeen
    /\ worker_at' = "connect"
    /\ UNCHANGED <<clientVars, mainVars, turn, op, fhandle,
                   num_active_sessions, num_active_box, held, boxes>>
    /\ \/ pipe' \in pipes /\ Survive
       \/ (pipe' \notin pipes \/ (op = 1 /\ num_active_box > 0)) /\ Die

Connect ==
    /\ alive /\ worker_at = "connect" /\ pipe \in Clients /\ IsOtherEnd(pipe)
    /\ at' = IF at[pipe] = "opening" THEN [at EXCEPT ![pipe] = "connected"] ELSE at
    /\ num_active_sessions' = num_active_sessions + 1
    /\ held' = held \union {This}
    /\ worker_at' = "serve"
    /\ UNCHANGED <<asks, said, pipes, reg, mainVars, alive, turn, op, pipe,
                   fhandle, num_active_box, boxes>>

\* Publisher and subscriber: a new entry of active_box points to box_name (so
\* every entry names the same box, and a subscriber's finds the first), and the
\* file must be there.  Streaming is not modelled: no broker lives to have a file.
OpenBox ==
    /\ alive /\ worker_at = "serve" /\ op \in {1, 2}
    /\ num_active_box' = IF op = 1 \/ num_active_box = 0
                         THEN num_active_box + 1 ELSE num_active_box
    /\ worker_at' = "stream"
    /\ UNCHANGED <<clientVars, mainVars, turn, op, pipe, fhandle,
                   num_active_sessions, held, boxes>>
    /\ \E b \in BoxesSeen : IF b \in boxes THEN Survive ELSE Die

\* A valid name is a slash and more.  The file is created, and then its name is
\* copied to active_box[].name, a null pointer.
CreateBox ==
    /\ alive /\ worker_at = "serve" /\ op = 3
    /\ worker_at' = "answer"
    /\ UNCHANGED <<clientVars, mainVars, turn, op, pipe, num_active_sessions,
                   num_active_box, held>>
    /\ \E b \in BoxesSeen :
        IF 2 \in DOMAIN b /\ b[1] = "/"
        THEN boxes' = boxes \union {b} /\ fhandle' = 0 /\ Die
        ELSE fhandle' = -1 /\ UNCHANGED boxes /\ Survive

RemoveBox ==
    /\ alive /\ worker_at = "serve" /\ op = 5
    /\ \E b \in BoxesSeen :
        /\ fhandle' = IF b \in boxes THEN 0 ELSE -1
        /\ boxes' = boxes \ {b}
    /\ worker_at' = "answer"
    /\ UNCHANGED <<regVars, turn, op, pipe, num_active_sessions,
                   num_active_box, held>>

\* Only the first box is written, and not if it is the last.  The session stays
\* counted and its pipe open.
ListBoxes ==
    /\ alive /\ worker_at = "serve" /\ op = 7
    /\ worker_at' = "none"
    /\ UNCHANGED <<clientVars, mainVars, turn, op, pipe, fhandle,
                   num_active_sessions, num_active_box, held, boxes>>
    /\ IF num_active_box > 1 /\ at[pipe] = "gone" THEN Die ELSE Survive

\* write to a pipe that nobody reads ends the broker.
Answer ==
    /\ alive /\ worker_at = "answer"
    /\ IF AwaitsAnswer(pipe)
       THEN /\ at' = [at EXCEPT ![pipe] = "answered"]
            /\ said' = [said EXCEPT ![pipe] = Says(pipe, AnswerByte)]
       ELSE UNCHANGED <<at, said>>
    /\ worker_at' = "finish"
    /\ UNCHANGED <<asks, pipes, mainVars, turn, op, pipe, fhandle,
                   num_active_sessions, num_active_box, held, boxes>>
    /\ IF at[pipe] = "gone" THEN Die ELSE Survive

\* tfs_close, close, and the count; a removal drops the first entry of
\* active_box, which is named as every other is.
Finish_Uncounted ==
    /\ alive /\ worker_at = "finish"
    /\ held' = held \ {This}
    /\ num_active_box' = IF op = 5 /\ num_active_box > 0
                         THEN num_active_box - 1 ELSE num_active_box
    /\ worker_at' = "none"
    /\ UNCHANGED <<regVars, turn, op, pipe, fhandle, boxes,
                   num_active_sessions>>
Finish_NotClosed ==
    /\ alive /\ worker_at = "finish"
    /\ num_active_sessions' = num_active_sessions - 1
    /\ num_active_box' = IF op = 5 /\ num_active_box > 0
                         THEN num_active_box - 1 ELSE num_active_box
    /\ worker_at' = "none"
    /\ UNCHANGED <<regVars, turn, op, pipe, fhandle, held, boxes>>
Finish ==
    /\ alive /\ worker_at = "finish"
    /\ num_active_sessions' = num_active_sessions - 1
    /\ held' = held \ {This}
    /\ num_active_box' = IF op = 5 /\ num_active_box > 0
                         THEN num_active_box - 1 ELSE num_active_box
    /\ worker_at' = "none"
    /\ UNCHANGED <<regVars, turn, op, pipe, fhandle, boxes>>

Worker ==
    \/ CreateWorker \/ JoinDies \/ BodyDies \/ Dequeue \/ CheckActive \/ Switch
    \/ OpenPipe \/ Connect \/ OpenBox \/ CreateBox \/ RemoveBox \/ ListBoxes
    \/ Answer \/ Finish

\* The end of a broker that had the client's pipe open reads as an empty answer.
HangUp(c) ==
    /\ ~alive /\ AwaitsAnswer(c)
    /\ at' = [at EXCEPT ![c] = "answered"]
    /\ said' = [said EXCEPT ![c] = Says(c, Nul)]
    /\ UNCHANGED <<asks, pipes, reg, mainVars, alive, handlerVars>>

Next ==
    \/ (MainBody \/ \E c \in Clients : ClientStep(c)) /\ UNCHANGED handlerVars
    \/ Worker
    \/ \E c \in Clients : HangUp(c)

Spec == Init /\ [][Next]_vars

-----------------------------------------------------------------------------
TypeOK ==
    /\ asks \in [Clients -> Requests]
    /\ at \in [Clients -> {"start", "knocking", "entered", "made", "written",
                           "opening", "joining", "listening", "connected",
                           "answered", "gone"}]
    /\ said \in [Clients -> {"nothing", "OK", "ERROR"}]
    /\ pipes \subseteq Clients /\ reg \in Seq(Clients)
    /\ main_at \in {"loop", "open", "read", "op", "path", "box", "close",
                    "enqueue"}
    /\ log \in Seq(Clients \union {Nobody})
    /\ box_turn \in Nat /\ queued \in 0 .. Capacity /\ alive \in BOOLEAN
    /\ worker_at \in {"none", "dequeue", "check", "switch", "open", "connect",
                      "serve", "stream", "answer", "finish"}
    /\ turn \in Nat /\ op \in 0 .. 9 /\ pipe \in Clients \union {Nobody}
    /\ fhandle \in {-1, 0}
    /\ num_active_sessions \in Nat /\ num_active_box \in Nat
    /\ held \subseteq [turn : Nat, op : 0 .. 9, pipe : Clients]
    /\ boxes \subseteq Seq(Char \union {Bar})

\* num_active_sessions counts the sessions whose pipe is open, on every way
\* through threadFun that leaves the broker running (mbroker.c:160, 186, 235).
SessionsCounted == alive => num_active_sessions = Cardinality(held)

\* A pipe stays open after its session only when that was a list
\* (mbroker.c:259); create and remove close theirs, whatever main has made of
\* the globals meanwhile (mbroker.c:185, 215).
OnlyListsLinger ==
    alive => \A h \in held :
                \/ h.op = 7
                \/ h = This /\ worker_at \in {"serve", "answer", "finish"}

\* A session may be served with the globals of a later registration, never with
\* those of an earlier one; but a list leaves the box name of an earlier one
\* (mbroker.c:308-315).
NotOlderThanTurn ==
    turn > 0 => /\ \A n \in {OpTurn} \union PathTurns : n >= turn
                /\ OpOf(Entry(turn)) # 7 => \A n \in BoxTurns : n >= turn

\* So the sessions that have their pipe open took their case from a registration
\* at least as late as the one they were woken for, and their path from one or,
\* byte by byte, from two in a row that are as late; at most one of the two is
\* before the case's (mbroker.c:37, 49, 155, 308-310).
SessionsAreRecent ==
    \A h \in held : \E m, n \in h.turn .. Len(log) :
        /\ h.op = OpOf(Entry(m))
        /\ n >= m - 1
        /\ \/ h.pipe \in PathsFrom({n})
           \/ n < Len(log) /\ h.pipe \in PathsFrom({n, n + 1})

\* A registration that was written and that main neither has read nor will read:
\* its client waits for the broker for ever.
Lost(c) ==
    /\ at[c] \in {"written", "opening"} /\ ~Listens(c) /\ alive
    /\ \A i \in DOMAIN reg : reg[i] # c
    /\ \A i \in DOMAIN log : log[i] # c

\* A client that is alone does not lose its registration.  Another one that came
\* may cost it its place: both frames in one read (mbroker.c:304), a frame
\* written just before close (mbroker.c:313), a subscriber that reads it
\* (sub.c:88).
LossNeedsCompany ==
    \A c \in Clients : Lost(c) => \E d \in Clients \ {c} : at[d] # "start"

\* main reads at most twice for each client that came, once its frame and once
\* the end of its writing: an empty register pipe does not make it spin, with
\* the registration before served again and again (mbroker.c:296-315).
MainDoesNotSpin ==
    Len(log) <= 2 * Cardinality({c \in Clients : at[c] # "start"})

\* A manager that creates a box prints OK only when the broker has died
\* (manager.c:115).
OkMeansBrokerGone ==
    \A c \in Clients : asks[c].kind = "create" /\ said[c] = "OK" => ~alive

=============================================================================
