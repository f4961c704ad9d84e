------------------------ MODULE SessionHandlerProofs ------------------------
(***************************************************************************)
(* Theorems about the broker's sessions, for any clients, requests, names, *)
(* field sizes and capacity of the queue.                                  *)
(***************************************************************************)
EXTENDS SessionHandler, FramesProofs, FiniteSetTheorems, TLAPS

\* The session in progress is held open and is the latest.
Sessions ==
    /\ IsFiniteSet(held)
    /\ \A h \in held : h.turn <= turn
    /\ worker_at \in {"check", "switch", "open", "connect"} =>
        \A h \in held : h.turn < turn
    /\ alive /\ worker_at \in {"serve", "answer", "finish"} =>
        This \in held /\ pipe \in Clients
    /\ worker_at = "answer" => op \in {3, 5}

\* What was read, enqueued and dequeued accounts for each other, and box_name
\* comes from the last frame with a box that was copied.
Copying == main_at \in {"op", "path", "box"}
InBody == Copying \/ main_at \in {"close", "enqueue"}
Turns ==
    /\ box_turn <= Len(log)
    /\ turn + queued = Len(log) - (IF InBody THEN 1 ELSE 0)
    /\ \A k \in 1 .. Len(log) :
        OpOf(log[k]) # 7 /\ (Copying => k < Len(log)) => k <= box_turn

\* Whoever creates a box ends the broker (mbroker.c:175), so a running one has
\* none, and no session of a publisher or a subscriber gets past OpenBox.
NoBoxes ==
    alive => /\ boxes = {} /\ num_active_box = 0
             /\ worker_at # "stream" /\ fhandle = -1

Inv ==
    /\ TypeOK /\ Sessions /\ SessionsCounted /\ NoBoxes
    /\ OnlyListsLinger /\ Turns /\ OkMeansBrokerGone

-----------------------------------------------------------------------------
(* What main and the worker take from a frame. *)

\* A registration gives a digit for its code.
LEMMA OpRange == \A c : OpOf(c) \in 0 .. 9
BY OpCodeRange DEF OpOf, OpCode

\* After each read the buffer is a client's, or still empty.
LEMMA EntryRange ==
    ASSUME TypeOK, NEW n \in 0 .. Len(log)
    PROVE  Entry(n) \in Clients \union {Nobody}
BY DEF TypeOK, Entry

\* What is seen of a field is a string of characters and bars, whatever mixture
\* of registrations it is.
LEMMA ByteRange ==
    ASSUME TypeOK, NEW c \in Clients \union {Nobody},
           NEW i \in 1 .. PIPE_NAME_SIZE + BOX_NAME_SIZE
    PROVE  ByteOf(c, i) \in Char \union {Bar, Nul}
<1>1. CASE c # Nobody
  <2>1. /\ asks[c] \in [kind : Kinds, packed : BOOLEAN, box : Seq(Char)]
        /\ asks[c].kind \in Managers => asks[c].packed
        /\ Path[c] \in Seq(Char)
    BY <1>1, ClientsAssumption DEF TypeOK
  <2>2. \E code : \/ Frame(c) = Packed(code, Path[c], asks[c].box)
                  \/ Frame(c) = Separated(code, Path[c], asks[c].box)
    BY <2>1 DEF Frame, Kinds, Managers
  <2> QED BY <1>1, <2>1, <2>2, FrameBytes DEF ByteOf
<1> QED BY <1>1 DEF ByteOf

LEMMA BoxesRange ==
    ASSUME TypeOK, Turns
    PROVE  BoxesSeen \subseteq Seq(Char \union {Bar})
<1> DEFINE from == PIPE_NAME_SIZE + 1
           Bytes(n) == [k \in 1 .. BOX_NAME_SIZE |->
                            ByteOf(Entry(n[k]), from + k - 1)]
           S == Char \union {Bar, Nul}
<1>0. PIPE_NAME_SIZE \in Nat /\ BOX_NAME_SIZE \in Nat
  BY SizesAssumption
<1>1. BoxTurns \subseteq 0 .. Len(log)
  BY DEF TypeOK, Turns, BoxTurns
<1>2. ASSUME NEW n \in [1 .. BOX_NAME_SIZE -> BoxTurns]
      PROVE  CString(Bytes(n)) \in Seq(S \ {Nul})
  <2>1. ASSUME NEW k \in 1 .. BOX_NAME_SIZE
        PROVE  ByteOf(Entry(n[k]), from + k - 1) \in S
    <3>1. n[k] \in 0 .. Len(log)
      BY <1>1
    <3>2. Entry(n[k]) \in Clients \union {Nobody}
      BY <3>1, EntryRange
    <3>3. from + k - 1 \in 1 .. PIPE_NAME_SIZE + BOX_NAME_SIZE
      BY <1>0
    <3> QED BY <3>2, <3>3, ByteRange
  <2>2. Bytes(n) \in [1 .. BOX_NAME_SIZE -> S]
    BY <2>1
  <2> HIDE DEF Bytes, S
  <2> QED BY <1>0, <2>2, CStringRange
<1>3. S \ {Nul} = Char \union {Bar}
  BY CharAssumption DEF Bar, Nul
<1>4. <<>> \in Seq(S \ {Nul})
  OBVIOUS
<1>5. BoxesSeen \subseteq {CString(Bytes(n)) : n \in [1 .. BOX_NAME_SIZE -> BoxTurns]}
                            \union {<<>>}
  BY DEF BoxesSeen, Seen
<1> QED BY <1>2, <1>3, <1>4, <1>5

\* The pipe the worker opens is a client's or none.
LEMMA PathsRange == PathsSeen \subseteq Clients \union {Nobody}
BY DEF PathsSeen, PathsFrom, PipeOf

-----------------------------------------------------------------------------
(* The steps of main and of the clients leave the broker's life and what was *)
(* asked alone.                                                              *)

LEMMA OutsideSteps ==
    ASSUME MainBody \/ \E c \in Clients : ClientStep(c)
    PROVE  alive' = alive /\ asks' = asks /\ said' = said
<1>1. CASE MainBody
  BY <1>1 DEF MainBody, Open, Read, Copy, CloseFd, Enqueue, clientVars
<1>2. CASE \E c \in Clients : ClientStep(c)
  BY <1>2 DEF ClientStep, Knock, MakePipe, Write, CloseTx, Join, Listen, Leave,
              clientVars, mainVars
<1> QED BY <1>1, <1>2

-----------------------------------------------------------------------------
(* Types. *)

LEMMA TypeOfClientStep ==
    ASSUME TypeOK, NEW c \in Clients, ClientStep(c), UNCHANGED handlerVars
    PROVE  TypeOK'
<1>0. /\ at' \in [Clients -> {"start", "knocking", "entered", "made", "written",
                              "opening", "joining", "listening", "connected",
                              "answered", "gone"}]
      /\ reg' \in Seq(Clients) /\ pipes' \subseteq Clients
      /\ main_at' \in {"loop", "open", "read", "op", "path", "box", "close",
                       "enqueue"}
      /\ UNCHANGED <<asks, said, log, box_turn, queued, alive>>
  <2> USE DEF TypeOK
  <2>1. CASE Knock(c)
    BY <2>1 DEF Knock
  <2>2. CASE MakePipe(c)
    BY <2>2 DEF MakePipe, mainVars
  <2>3. CASE Write(c)
    BY <2>3 DEF Write, mainVars
  <2>4. CASE CloseTx(c)
    BY <2>4 DEF CloseTx, mainVars, Kept
  <2>5. CASE Join(c)
    BY <2>5 DEF Join, LetIn, mainVars
  <2>6. CASE Listen(c)
    BY <2>6 DEF Listen, clientVars, mainVars
  <2>7. CASE Leave(c)
    BY <2>7 DEF Leave, mainVars, Kept
  <2> QED BY <2>1, <2>2, <2>3, <2>4, <2>5, <2>6, <2>7 DEF ClientStep
<1> QED BY <1>0 DEF TypeOK, handlerVars

LEMMA TypeOfMainBody ==
    ASSUME TypeOK, MainBody, UNCHANGED handlerVars
    PROVE  TypeOK'
<1>0. /\ at' \in [Clients -> {"start", "knocking", "entered", "made", "written",
                              "opening", "joining", "listening", "connected",
                              "answered", "gone"}]
      /\ reg' \in Seq(Clients) /\ log' \in Seq(Clients \union {Nobody})
      /\ main_at' \in {"loop", "open", "read", "op", "path", "box", "close",
                       "enqueue"}
      /\ box_turn' \in Nat /\ queued' \in 0 .. Capacity
      /\ UNCHANGED <<asks, said, pipes, alive>>
  <2> USE DEF TypeOK
  <2>1. CASE Open
    BY <2>1 DEF Open, LetIn
  <2>2. CASE Read
    <3>1. Entry(Len(log)) \in Clients \union {Nobody}
      BY EntryRange
    <3>2. reg # <<>> => Head(reg) \in Clients
      OBVIOUS
    <3>3. PICK e \in Clients \union {Nobody} : log' = Append(log, e)
      BY <2>2, <3>1, <3>2 DEF Read
    <3> QED BY <2>2, <3>3 DEF Read, clientVars
  <2>3. CASE Copy
    BY <2>3 DEF Copy, clientVars
  <2>4. CASE CloseFd
    BY <2>4 DEF CloseFd, clientVars, Kept
  <2>5. CASE Enqueue
    BY <2>5, ClientsAssumption DEF Enqueue, clientVars
  <2> QED BY <2>1, <2>2, <2>3, <2>4, <2>5 DEF MainBody
<1> QED BY <1>0 DEF TypeOK, handlerVars

LEMMA TypeOfWorker ==
    ASSUME Inv, Worker
    PROVE  TypeOK'
<1> USE DEF Inv
<1>1. Survive \/ Die => alive' \in BOOLEAN /\ reg' \in Seq(Clients)
  <2>1. alive \in BOOLEAN /\ reg \in Seq(Clients)
    BY DEF TypeOK
  <2>2. Kept(reg) \in Seq(Clients)
    BY <2>1 DEF Kept
  <2>3. CASE Survive
    BY <2>1, <2>3 DEF Survive
  <2>4. CASE Die
    BY <2>2, <2>4 DEF Die
  <2> QED BY <2>3, <2>4
<1>2. CASE CreateWorker
  BY <1>2 DEF TypeOK, CreateWorker, regVars, clientVars, mainVars
<1>14. CASE JoinDies \/ BodyDies
  BY <1>1, <1>14 DEF TypeOK, JoinDies, BodyDies, clientVars, mainVars, handlerVars
<1>3. CASE Dequeue
  <2>1. queued' \in 0 .. Capacity /\ turn' \in Nat
    BY <1>3, ClientsAssumption DEF TypeOK, Dequeue
  <2> QED BY <1>3, <2>1 DEF TypeOK, Dequeue, clientVars
<1>4. CASE CheckActive
  BY <1>1, <1>4 DEF TypeOK, CheckActive, clientVars, mainVars
<1>5. CASE Switch
  <2>1. op' \in 0 .. 9
    BY <1>5, OpRange DEF Switch
  <2> QED BY <1>5, <2>1 DEF TypeOK, Switch, regVars, clientVars, mainVars
<1>6. CASE OpenPipe
  <2>1. pipe' \in Clients \union {Nobody}
    BY <1>6, PathsRange DEF OpenPipe
  <2>2. Survive \/ Die
    BY <1>6 DEF OpenPipe
  <2> QED BY <1>1, <1>6, <2>1, <2>2 DEF TypeOK, OpenPipe, clientVars, mainVars
<1>7. CASE Connect
  <2>1. This \in [turn : Nat, op : 0 .. 9, pipe : Clients]
    BY <1>7 DEF TypeOK, Connect, This
  <2> QED BY <1>7, <2>1 DEF TypeOK, Connect, mainVars
<1>8. CASE OpenBox
  <2>1. Survive \/ Die
    BY <1>8 DEF OpenBox
  <2>2. num_active_box' \in Nat
    BY <1>8 DEF TypeOK, OpenBox
  <2> QED BY <1>1, <1>8, <2>1, <2>2 DEF TypeOK, OpenBox, clientVars, mainVars
<1>9. CASE CreateBox
  <2>1. Survive \/ Die
    BY <1>9 DEF CreateBox
  <2>2. fhandle' \in {-1, 0} /\ boxes' \subseteq Seq(Char \union {Bar})
    BY <1>9, BoxesRange DEF TypeOK, CreateBox
  <2> QED BY <1>1, <1>9, <2>1, <2>2 DEF TypeOK, CreateBox, clientVars, mainVars
<1>10. CASE RemoveBox
  <2>1. fhandle' \in {-1, 0} /\ boxes' \subseteq boxes
    BY <1>10 DEF RemoveBox
  <2> QED BY <1>10, <2>1 DEF TypeOK, RemoveBox, regVars, clientVars, mainVars
<1>11. CASE ListBoxes
  <2>1. Survive \/ Die
    BY <1>11 DEF ListBoxes
  <2> QED BY <1>1, <1>11, <2>1 DEF TypeOK, ListBoxes, clientVars, mainVars
<1>12. CASE Answer
  <2>1. Survive \/ Die
    BY <1>12 DEF Answer
  <2>2. /\ at' \in [Clients -> {"start", "knocking", "entered", "made",
                                "written", "opening", "joining", "listening",
                                "connected", "answered", "gone"}]
        /\ said' \in [Clients -> {"nothing", "OK", "ERROR"}]
    <3>1. Says(pipe, AnswerByte) \in {"OK", "ERROR"}
      BY DEF Says
    <3> QED BY <1>12, <3>1 DEF TypeOK, Answer
  <2> QED BY <1>1, <1>12, <2>1, <2>2 DEF TypeOK, Answer, mainVars
<1>13. CASE Finish
  <2>1. Cardinality(held) # 0
    <3>1. IsFiniteSet(held) /\ This \in held
      BY <1>13 DEF Sessions, Finish
    <3> QED BY <3>1, FS_EmptySet
  <2>2. num_active_sessions' \in Nat
    BY <1>13, <2>1 DEF TypeOK, SessionsCounted, Finish
  <2>3. num_active_box' \in Nat
    BY <1>13 DEF TypeOK, Finish
  <2> QED BY <1>13, <2>2, <2>3 DEF TypeOK, Finish, regVars, clientVars, mainVars
<1> QED BY <1>2, <1>3, <1>4, <1>5, <1>6, <1>7, <1>8, <1>9, <1>10, <1>11, <1>12,
           <1>13, <1>14 DEF Worker

LEMMA TypeStep == Inv /\ [Next]_vars => TypeOK'
<1> SUFFICES ASSUME Inv, [Next]_vars PROVE TypeOK'
  OBVIOUS
<1>1. CASE Worker
  BY <1>1, TypeOfWorker
<1>2. CASE MainBody /\ UNCHANGED handlerVars
  BY <1>2, TypeOfMainBody DEF Inv
<1>3. ASSUME NEW c \in Clients, ClientStep(c), UNCHANGED handlerVars
      PROVE  TypeOK'
  BY <1>3, TypeOfClientStep DEF Inv
<1>4. ASSUME NEW c \in Clients, HangUp(c)
      PROVE  TypeOK'
  <2>1. Says(c, Nul) \in {"OK", "ERROR"}
    BY DEF Says
  <2> QED BY <1>4, <2>1 DEF Inv, TypeOK, HangUp, mainVars, handlerVars
<1>5. CASE UNCHANGED vars
  BY <1>5 DEF Inv, TypeOK, vars, regVars, clientVars, mainVars, handlerVars
<1> QED BY <1>1, <1>2, <1>3, <1>4, <1>5 DEF Next

-----------------------------------------------------------------------------
(* Sessions.  A step is the worker's, or leaves its variables alone. *)

LEMMA StepKinds ==
    ASSUME [Next]_vars
    PROVE  Worker \/ (UNCHANGED <<handlerVars, alive, asks>>)
<1>1. CASE (MainBody \/ \E c \in Clients : ClientStep(c)) /\ UNCHANGED handlerVars
  BY <1>1, OutsideSteps
<1>2. CASE \E c \in Clients : HangUp(c)
  BY <1>2 DEF HangUp
<1>3. CASE UNCHANGED vars
  BY <1>3 DEF vars, regVars, clientVars
<1> QED BY <1>1, <1>2, <1>3 DEF Next

LEMMA SessionsStep == Inv /\ [Next]_vars => Sessions'
<1> SUFFICES ASSUME Inv, [Next]_vars PROVE Sessions'
  OBVIOUS
<1>1. /\ turn \in Nat /\ IsFiniteSet(held)
      /\ \A h \in held : h.turn \in Nat /\ h.turn <= turn
      /\ worker_at \in {"check", "switch", "open", "connect"} =>
          \A h \in held : h.turn < turn
      /\ alive /\ worker_at \in {"serve", "answer", "finish"} =>
          This \in held /\ pipe \in Clients
      /\ worker_at = "answer" => op \in {3, 5}
  BY DEF Inv, TypeOK, Sessions
<1>2. CASE UNCHANGED <<handlerVars, alive, asks>>
  BY <1>1, <1>2 DEF Sessions, This, handlerVars
<1>3. CASE CreateWorker
  BY <1>1, <1>3 DEF Sessions, CreateWorker
<1>15. CASE JoinDies \/ BodyDies
  BY <1>1, <1>15 DEF Sessions, JoinDies, BodyDies, Die, handlerVars
<1>4. CASE Dequeue
  BY <1>1, <1>4 DEF Sessions, Dequeue
<1>5. CASE CheckActive
  BY <1>1, <1>5 DEF Sessions, CheckActive
<1>6. CASE Switch
  <2>1. worker_at' \in {"open", "none"}
    BY <1>6 DEF Switch
  <2> QED BY <1>1, <1>6, <2>1 DEF Sessions, Switch
<1>7. CASE OpenPipe
  BY <1>1, <1>7 DEF Sessions, OpenPipe
<1>8. CASE Connect
  <2>1. This' = This /\ This.turn = turn
    BY <1>8 DEF Connect, This
  <2>2. IsFiniteSet(held')
    BY <1>1, <1>8, FS_AddElement DEF Connect
  <2>3. \A h \in held' : h.turn <= turn
    BY <1>1, <1>8, <2>1 DEF Connect
  <2> QED BY <1>8, <2>1, <2>2, <2>3 DEF Sessions, Connect
<1>9. CASE OpenBox
  BY <1>1, <1>9 DEF Sessions, OpenBox, This
<1>10. CASE CreateBox
  <2>1. This' = This
    BY <1>10 DEF CreateBox, This
  <2>2. alive' => alive
    BY <1>10 DEF CreateBox
  <2> QED BY <1>1, <1>10, <2>1, <2>2 DEF Sessions, CreateBox
<1>11. CASE RemoveBox
  <2>1. This' = This
    BY <1>11 DEF RemoveBox, This
  <2> QED BY <1>1, <1>11, <2>1 DEF Sessions, RemoveBox, regVars
<1>12. CASE ListBoxes
  BY <1>1, <1>12 DEF Sessions, ListBoxes
<1>13. CASE Answer
  <2>1. This' = This
    BY <1>13 DEF Answer, This
  <2>2. alive' => alive
    BY <1>13 DEF Answer
  <2> QED BY <1>1, <1>13, <2>1, <2>2 DEF Sessions, Answer
<1>14. CASE Finish
  <2>1. IsFiniteSet(held')
    BY <1>1, <1>14, FS_RemoveElement DEF Finish
  <2> QED BY <1>1, <1>14, <2>1 DEF Sessions, Finish
<1> QED BY <1>2, <1>3, <1>4, <1>5, <1>6, <1>7, <1>8, <1>9, <1>10, <1>11, <1>12,
           <1>13, <1>14, <1>15, StepKinds DEF Worker

LEMMA CountStep == Inv /\ [Next]_vars => SessionsCounted'
<1> SUFFICES ASSUME Inv, [Next]_vars PROVE SessionsCounted'
  OBVIOUS
<1>1. alive => num_active_sessions = Cardinality(held)
  BY DEF Inv, SessionsCounted
<1>2. CASE alive' = alive /\ UNCHANGED <<held, num_active_sessions>>
  BY <1>1, <1>2 DEF SessionsCounted
<1>3. CASE UNCHANGED <<held, num_active_sessions>> /\ alive
  BY <1>1, <1>3 DEF SessionsCounted
<1>4. CASE Connect
  <2>1. This \notin held
    <3>1. This.turn = turn /\ turn \in Nat
      BY DEF This, Inv, TypeOK
    <3>2. \A h \in held : h.turn < turn
      BY <1>4 DEF Inv, Sessions, Connect
    <3> QED BY <3>1, <3>2
  <2>2. Cardinality(held') = Cardinality(held) + 1
    BY <1>4, <2>1, FS_AddElement DEF Inv, Sessions, Connect
  <2> QED BY <1>1, <1>4, <2>2 DEF SessionsCounted, Connect
<1>5. CASE Finish
  <2>1. This \in held /\ IsFiniteSet(held)
    BY <1>5 DEF Inv, Sessions, Finish
  <2>2. Cardinality(held') = Cardinality(held) - 1
    BY <1>5, <2>1, FS_RemoveElement DEF Finish
  <2> QED BY <1>1, <1>5, <2>2 DEF SessionsCounted, Finish
<1>6. CASE UNCHANGED <<handlerVars, alive, asks>>
  BY <1>2, <1>6 DEF handlerVars
<1>7. CASE Worker /\ ~Connect /\ ~Finish
  BY <1>3, <1>7 DEF Worker, CreateWorker, JoinDies, BodyDies, Dequeue, CheckActive,
     Switch, OpenPipe, OpenBox, CreateBox, RemoveBox, ListBoxes, Answer,
     handlerVars
<1> QED BY <1>4, <1>5, <1>6, <1>7, StepKinds

LEMMA NoBoxStep == Inv /\ [Next]_vars => NoBoxes'
<1> SUFFICES ASSUME Inv, [Next]_vars, alive' PROVE NoBoxes'
  BY DEF NoBoxes
<1>1. alive => /\ boxes = {} /\ num_active_box = 0
               /\ worker_at # "stream" /\ fhandle = -1
  BY DEF Inv, NoBoxes
<1>2. ~Die
  BY DEF Die
<1>3. CASE UNCHANGED <<handlerVars, alive, asks>>
  BY <1>1, <1>3 DEF NoBoxes, handlerVars
<1>4. CASE CreateWorker
  BY <1>1, <1>4 DEF NoBoxes, CreateWorker
<1>5. CASE Dequeue \/ CheckActive \/ OpenPipe \/ Connect \/ ListBoxes \/ Answer
  BY <1>1, <1>5 DEF NoBoxes, Dequeue, CheckActive, OpenPipe, Connect,
     ListBoxes, Answer
<1>6. CASE Switch
  <2>1. worker_at' # "stream"
    BY <1>6 DEF Switch
  <2> QED BY <1>1, <1>6, <2>1 DEF NoBoxes, Switch
<1>7. CASE OpenBox
  BY <1>1, <1>2, <1>7 DEF OpenBox
<1>8. CASE CreateBox
  BY <1>1, <1>2, <1>8 DEF NoBoxes, CreateBox
<1>9. CASE RemoveBox
  BY <1>1, <1>9 DEF NoBoxes, RemoveBox
<1>10. CASE Finish
  BY <1>1, <1>10 DEF NoBoxes, Finish
<1> QED BY <1>2, <1>3, <1>4, <1>5, <1>6, <1>7, <1>8, <1>9, <1>10, StepKinds
        DEF Worker, JoinDies, BodyDies

LEMMA LingerStep == Inv /\ [Next]_vars => OnlyListsLinger'
<1> SUFFICES ASSUME Inv, [Next]_vars, alive' PROVE OnlyListsLinger'
  BY DEF OnlyListsLinger
<1>1. alive => \A h \in held :
                \/ h.op = 7
                \/ h = This /\ worker_at \in {"serve", "answer", "finish"}
  BY DEF Inv, OnlyListsLinger
<1>2. ~Die
  BY DEF Die
<1>3. CASE UNCHANGED <<handlerVars, alive, asks>>
  BY <1>1, <1>3 DEF OnlyListsLinger, This, handlerVars
<1>4. CASE CreateWorker \/ Dequeue \/ CheckActive \/ Switch \/ OpenPipe
  BY <1>1, <1>4 DEF OnlyListsLinger, CreateWorker, Dequeue, CheckActive, Switch,
     OpenPipe
<1>5. CASE Connect
  <2>1. This' = This
    BY <1>5 DEF Connect, This
  <2> QED BY <1>1, <1>5, <2>1 DEF OnlyListsLinger, Connect
<1>6. CASE OpenBox
  BY <1>2, <1>6 DEF OpenBox, Inv, NoBoxes
<1>7. CASE CreateBox \/ RemoveBox \/ Answer
  <2>1. This' = This /\ held' = held /\ alive
    BY <1>7 DEF CreateBox, RemoveBox, Answer, This
  <2>2. worker_at' \in {"answer", "finish"}
    BY <1>7 DEF CreateBox, RemoveBox, Answer
  <2> QED BY <1>1, <2>1, <2>2 DEF OnlyListsLinger
<1>8. CASE ListBoxes
  <2>1. This.op = 7 /\ held' = held /\ alive
    BY <1>8 DEF ListBoxes, This
  <2> QED BY <1>1, <2>1 DEF OnlyListsLinger
<1>9. CASE Finish
  BY <1>1, <1>9 DEF OnlyListsLinger, Finish
<1> QED BY <1>2, <1>3, <1>4, <1>5, <1>6, <1>7, <1>8, <1>9, StepKinds
        DEF Worker, JoinDies, BodyDies

-----------------------------------------------------------------------------
(* What managers print. *)

LEMMA OkStep == Inv /\ [Next]_vars => OkMeansBrokerGone'
<1> SUFFICES ASSUME Inv, [Next]_vars,
                    NEW c \in Clients, asks'[c].kind = "create",
                    said'[c] = "OK", alive'
             PROVE  FALSE
  BY DEF OkMeansBrokerGone
<1>1. ~(asks[c].kind = "create" /\ said[c] = "OK" /\ alive)
  BY DEF Inv, OkMeansBrokerGone
<1>2. CASE MainBody \/ \E d \in Clients : ClientStep(d)
  BY <1>1, <1>2, OutsideSteps
<1>3. CASE Answer
  <2>1. alive /\ asks' = asks /\ op \in {3, 5} /\ fhandle = -1
    BY <1>3 DEF Answer, Inv, Sessions, NoBoxes
  <2>2. AnswerByte # Nul
    BY <2>1 DEF AnswerByte, Nul
  <2>3. asks[c].kind = "create" => Says(c, AnswerByte) # "OK"
    BY <2>2 DEF Says
  <2>4. said \in [Clients -> {"nothing", "OK", "ERROR"}]
    BY DEF Inv, TypeOK
  <2> QED BY <1>1, <1>3, <2>1, <2>3, <2>4 DEF Answer
<1>4. CASE \E d \in Clients : HangUp(d)
  BY <1>4 DEF HangUp
<1>5. CASE UNCHANGED vars
  BY <1>1, <1>5 DEF vars, regVars, clientVars
<1>6. CASE Worker /\ ~Answer
  <2>1. said' = said /\ asks' = asks /\ alive
    BY <1>6 DEF Worker, CreateWorker, JoinDies, BodyDies, Dequeue, CheckActive, Switch,
       OpenPipe, Connect, OpenBox, CreateBox, RemoveBox, ListBoxes, Finish,
       regVars, clientVars, handlerVars
  <2> QED BY <1>1, <2>1
<1> QED BY <1>2, <1>3, <1>4, <1>5, <1>6 DEF Next

-----------------------------------------------------------------------------
(* Who is connected. *)

LEMMA AsksStay == ASSUME [Next]_vars PROVE asks' = asks
<1>1. CASE MainBody \/ \E c \in Clients : ClientStep(c)
  BY <1>1, OutsideSteps
<1>2. CASE Worker
  BY <1>2 DEF Worker, CreateWorker, JoinDies, BodyDies, Dequeue, CheckActive, Switch,
     OpenPipe, Connect, OpenBox, CreateBox, RemoveBox, ListBoxes, Answer,
     Finish, regVars, clientVars, handlerVars
<1>3. CASE \E c \in Clients : HangUp(c)
  BY <1>3 DEF HangUp
<1>4. CASE UNCHANGED vars
  BY <1>4 DEF vars, regVars, clientVars
<1> QED BY <1>1, <1>2, <1>3, <1>4 DEF Next

\* Clients and main connect nobody.
LEMMA OutsideConnectsNobody ==
    ASSUME TypeOK, MainBody \/ \E d \in Clients : ClientStep(d),
           NEW c \in Clients, at'[c] \in {"connected", "answered"}
    PROVE  at[c] \in {"connected", "answered"}
<1> at \in [Clients -> {"start", "knocking", "entered", "made", "written",
                        "opening", "joining", "listening", "connected",
                        "answered", "gone"}]
  BY DEF TypeOK
<1>1. CASE Open
  BY <1>1 DEF Open, LetIn
<1>2. CASE Read \/ Copy \/ CloseFd \/ Enqueue
  BY <1>2 DEF Read, Copy, CloseFd, Enqueue, clientVars
<1>3. ASSUME NEW d \in Clients, ClientStep(d)
      PROVE  at[c] \in {"connected", "answered"}
  <2>1. CASE Knock(d)
    BY <2>1 DEF Knock
  <2>2. CASE MakePipe(d)
    BY <2>2 DEF MakePipe
  <2>3. CASE Write(d)
    BY <2>3 DEF Write
  <2>4. CASE CloseTx(d)
    BY <2>4 DEF CloseTx
  <2>5. CASE Join(d)
    BY <2>5 DEF Join, LetIn
  <2>6. CASE Listen(d)
    BY <2>6 DEF Listen, clientVars
  <2>7. CASE Leave(d)
    BY <2>7 DEF Leave
  <2> QED BY <1>3, <2>1, <2>2, <2>3, <2>4, <2>5, <2>6, <2>7 DEF ClientStep
<1> QED BY <1>1, <1>2, <1>3 DEF MainBody

-----------------------------------------------------------------------------
(* Turns. *)

LEMMA OpStays == ASSUME asks' = asks PROVE \A c : OpOf(c)' = OpOf(c)
BY DEF OpOf, Frame

LEMMA TurnsStep == Inv /\ [Next]_vars => Turns'
<1> SUFFICES ASSUME Inv, [Next]_vars PROVE Turns'
  OBVIOUS
<1>0. \A c : OpOf(c)' = OpOf(c)
  BY AsksStay, OpStays
<1>1. /\ log \in Seq(Clients \union {Nobody}) /\ Len(log) \in Nat
      /\ box_turn \in Nat /\ turn \in Nat /\ queued \in Nat
  BY ClientsAssumption DEF Inv, TypeOK
<1>2. /\ box_turn <= Len(log)
      /\ turn + queued = Len(log) - (IF InBody THEN 1 ELSE 0)
      /\ \A k \in 1 .. Len(log) :
          OpOf(log[k]) # 7 /\ (Copying => k < Len(log)) => k <= box_turn
  BY DEF Inv, Turns
<1>3. CASE /\ UNCHANGED <<log, box_turn>> /\ turn' + queued' = turn + queued
           /\ InBody' = InBody /\ Copying' = Copying
  BY <1>0, <1>2, <1>3 DEF Turns
<1>4. CASE Read
  <2>1. PICK e : log' = Append(log, e)
    BY <1>4 DEF Read
  <2>2. ~InBody /\ ~Copying /\ InBody' /\ Copying'
    BY <1>4 DEF Read, InBody, Copying
  <2>3. /\ Len(log') = Len(log) + 1
        /\ \A k \in 1 .. Len(log) : log'[k] = log[k]
    BY <1>1, <2>1
  <2>4. UNCHANGED <<box_turn, queued>>
    BY <1>4 DEF Read
  <2>5. turn' = turn
    <3>1. alive /\ main_at = "read" /\ main_at' = "op"
      BY <1>4 DEF Read
    <3>2. UNCHANGED handlerVars
      BY <3>1 DEF Next, Worker, CreateWorker, JoinDies, BodyDies, Dequeue, CheckActive,
         Switch, OpenPipe, Connect, OpenBox, CreateBox, RemoveBox, ListBoxes,
         Answer, Finish, HangUp, vars, regVars, clientVars, mainVars,
         handlerVars
    <3> QED BY <3>2 DEF handlerVars
  <2>6. turn' + queued' = Len(log') - (IF InBody' THEN 1 ELSE 0)
    BY <1>1, <1>2, <2>2, <2>3, <2>4, <2>5
  <2>7. ASSUME NEW k \in 1 .. Len(log'), OpOf(log[k]) # 7, k < Len(log')
        PROVE  k <= box_turn
    BY <1>1, <1>2, <2>2, <2>3, <2>7
  <2> QED BY <1>0, <1>1, <1>2, <2>2, <2>3, <2>4, <2>6, <2>7 DEF Turns
<1>5. CASE Copy
  <2>1. turn' = turn
    <3>1. alive /\ main_at # main_at' /\ main_at # "open" /\ queued' = queued
      BY <1>5 DEF Copy
    <3>2. UNCHANGED handlerVars
      BY <3>1 DEF Next, Worker, CreateWorker, JoinDies, BodyDies, Dequeue, CheckActive,
         Switch, OpenPipe, Connect, OpenBox, CreateBox, RemoveBox, ListBoxes,
         Answer, Finish, HangUp, vars, regVars, clientVars, mainVars,
         handlerVars
    <3> QED BY <3>2 DEF handlerVars
  <2>2. InBody /\ InBody' /\ Copying /\ UNCHANGED <<log, queued>>
    BY <1>5 DEF Copy, InBody, Copying
  <2>3. Len(log) # 0 /\ Entry(Len(log)) = log[Len(log)]
    BY <1>1, <1>2, <2>2 DEF Entry
  <2>4. CASE main_at = "box" /\ OpOf(log[Len(log)]) # 7
    <3>1. box_turn' = Len(log) /\ ~Copying'
      BY <1>5, <2>3, <2>4 DEF Copy, Copying
    <3> QED BY <1>0, <1>1, <1>2, <2>1, <2>2, <3>1 DEF Turns
  <2>5. CASE main_at = "box" /\ OpOf(log[Len(log)]) = 7
    <3>1. box_turn' = box_turn /\ ~Copying'
      BY <1>5, <2>3, <2>5 DEF Copy, Copying
    <3>2. ASSUME NEW k \in 1 .. Len(log), OpOf(log[k]) # 7
          PROVE  k <= box_turn
      BY <1>1, <1>2, <2>2, <2>5, <3>2
    <3> QED BY <1>0, <1>1, <1>2, <2>1, <2>2, <3>1, <3>2 DEF Turns
  <2>6. CASE main_at # "box"
    <3>1. box_turn' = box_turn /\ Copying'
      BY <1>5, <2>6 DEF Copy, Copying
    <3> QED BY <1>0, <1>1, <1>2, <2>1, <2>2, <3>1 DEF Turns
  <2> QED BY <2>4, <2>5, <2>6
<1>6. CASE MainBody /\ ~Read /\ ~Copy /\ UNCHANGED handlerVars
  <2>1. CASE Open
    BY <1>3, <1>6, <2>1 DEF Open, InBody, Copying, handlerVars
  <2>2. CASE CloseFd
    BY <1>3, <1>6, <2>2 DEF CloseFd, InBody, Copying, handlerVars
  <2>3. CASE Enqueue
    <3>1. InBody /\ ~InBody' /\ ~Copying /\ ~Copying'
      BY <2>3 DEF Enqueue, InBody, Copying
    <3>2. UNCHANGED <<log, box_turn, turn>> /\ queued' = queued + 1
      BY <1>6, <2>3 DEF Enqueue, handlerVars
    <3> QED BY <1>0, <1>1, <1>2, <3>1, <3>2 DEF Turns
  <2> QED BY <1>6, <2>1, <2>2, <2>3 DEF MainBody
<1>7. ASSUME NEW c \in Clients, ClientStep(c), UNCHANGED handlerVars
      PROVE  Turns'
  <2>1. UNCHANGED <<log, box_turn, queued, turn>>
    BY <1>7 DEF ClientStep, Knock, MakePipe, Write, CloseTx, Join, Listen,
       Leave, mainVars, handlerVars
  <2>2. main_at' = main_at \/ (main_at = "open" /\ main_at' = "read")
    BY <1>7 DEF ClientStep, Knock, MakePipe, Write, CloseTx, Join, Listen,
       Leave, mainVars
  <2>3. InBody' = InBody /\ Copying' = Copying
    BY <2>2 DEF InBody, Copying
  <2> QED BY <1>3, <2>1, <2>3
<1>8. CASE Worker
  <2>1. UNCHANGED <<log, box_turn, main_at>>
    BY <1>8 DEF Worker, CreateWorker, JoinDies, BodyDies, Dequeue, CheckActive, Switch,
       OpenPipe, Connect, OpenBox, CreateBox, RemoveBox, ListBoxes, Answer,
       Finish, regVars, mainVars, handlerVars
  <2>2. turn' + queued' = turn + queued
    <3>1. CASE Dequeue
      BY <1>1, <3>1 DEF Dequeue
    <3>2. CASE ~Dequeue
      BY <1>8, <3>2 DEF Worker, CreateWorker, JoinDies, BodyDies, CheckActive, Switch,
         OpenPipe, Connect, OpenBox, CreateBox, RemoveBox, ListBoxes, Answer,
         Finish, regVars, mainVars, handlerVars
    <3> QED BY <3>1, <3>2
  <2>3. InBody' = InBody /\ Copying' = Copying
    BY <2>1 DEF InBody, Copying
  <2> QED BY <1>3, <2>1, <2>2, <2>3
<1>9. CASE (\E c \in Clients : HangUp(c)) \/ UNCHANGED vars
  <2>1. UNCHANGED <<log, box_turn, main_at, queued, turn>>
    BY <1>9 DEF HangUp, vars, regVars, mainVars, handlerVars
  <2>2. InBody' = InBody /\ Copying' = Copying
    BY <2>1 DEF InBody, Copying
  <2> QED BY <1>3, <2>1, <2>2
<1> QED BY <1>4, <1>5, <1>6, <1>7, <1>8, <1>9 DEF Next

\* What the invariant says of the frames a session's globals come from.
LEMMA TurnsImplyNotOlder == TypeOK /\ Turns => NotOlderThanTurn
<1> SUFFICES ASSUME TypeOK, Turns, turn > 0
             PROVE  /\ \A n \in {OpTurn} \union PathTurns : n >= turn
                    /\ OpOf(Entry(turn)) # 7 => \A n \in BoxTurns : n >= turn
  BY DEF NotOlderThanTurn
<1>1. /\ Len(log) \in Nat /\ box_turn \in Nat /\ turn \in Nat /\ queued \in Nat
  BY ClientsAssumption DEF TypeOK
<1>2. turn <= Len(log) /\ (InBody => turn <= Len(log) - 1)
  BY <1>1 DEF Turns
<1>3. \A n \in {OpTurn} \union PathTurns : n >= turn
  BY <1>1, <1>2 DEF OpTurn, PathTurns, InBody, Copying
<1>4. ASSUME OpOf(Entry(turn)) # 7
      PROVE  \A n \in BoxTurns : n >= turn
  <2>1. Entry(turn) = log[turn]
    BY DEF Entry
  <2>2. turn \in 1 .. Len(log) /\ (Copying => turn < Len(log))
    BY <1>1, <1>2 DEF InBody
  <2>3. turn <= box_turn
    BY <1>4, <2>1, <2>2 DEF Turns
  <2> QED BY <1>1, <1>2, <2>3 DEF BoxTurns
<1> QED BY <1>3, <1>4

-----------------------------------------------------------------------------
LEMMA InitInv == Init => Inv
<1> SUFFICES ASSUME Init PROVE Inv
  OBVIOUS
<1> USE DEF Init, RegInit
<1>1. TypeOK
  BY ClientsAssumption DEF TypeOK
<1>2. Sessions
  BY FS_EmptySet DEF Sessions
<1>3. SessionsCounted
  BY FS_EmptySet DEF SessionsCounted
<1>4. NoBoxes /\ OnlyListsLinger
  BY DEF NoBoxes, OnlyListsLinger
<1>5. Turns
  BY DEF Turns, InBody, Copying
<1>6. OkMeansBrokerGone
  BY DEF OkMeansBrokerGone
<1> QED BY <1>1, <1>2, <1>3, <1>4, <1>5, <1>6 DEF Inv

LEMMA Invariance == Spec => []Inv
<1>1. Inv /\ [Next]_vars => Inv'
  BY TypeStep, SessionsStep, CountStep, NoBoxStep, LingerStep, TurnsStep, OkStep
     DEF Inv
<1> QED BY <1>1, InitInv, PTL DEF Spec

\* Every variable keeps its type.
THEOREM SessionTypes == Spec => []TypeOK
<1>1. Inv => TypeOK
  BY DEF Inv
<1> QED BY <1>1, Invariance, PTL

\* The count of sessions is that of the open pipes (mbroker.c:160, 186).
THEOREM CountIsRight == Spec => []SessionsCounted
<1>1. Inv => SessionsCounted
  BY DEF Inv
<1> QED BY <1>1, Invariance, PTL

\* Only lists leave a pipe open behind them (mbroker.c:259).
THEOREM OthersClose == Spec => []OnlyListsLinger
<1>1. Inv => OnlyListsLinger
  BY DEF Inv
<1> QED BY <1>1, Invariance, PTL

\* A session's globals are never those of an earlier registration
\* (mbroker.c:308-315).
THEOREM GlobalsAreRecent == Spec => []NotOlderThanTurn
<1>1. Inv => NotOlderThanTurn
  BY TurnsImplyNotOlder DEF Inv
<1> QED BY <1>1, Invariance, PTL

\* A create that prints OK has lost its broker (manager.c:115).
THEOREM OkIsTheEnd == Spec => []OkMeansBrokerGone
<1>1. Inv => OkMeansBrokerGone
  BY DEF Inv
<1> QED BY <1>1, Invariance, PTL

-----------------------------------------------------------------------------
(* Where a session's case and path come from. *)

\* The n-th registration gives op, and gives pipe alone or with the next.
GivesOp(n) == op = OpOf(Entry(n))
Leads(p, n) == \/ p \in PathsFrom({n})
               \/ n < Len(log) /\ p \in PathsFrom({n, n + 1})
Recent(o, p, t) == \E m, n \in t .. Len(log) :
    o = OpOf(Entry(m)) /\ n >= m - 1 /\ Leads(p, n)

\* What the worker took is from its turn or later, already before its pipe opens,
\* and main does not go back behind it.
RecentInv ==
    /\ worker_at = "open" =>
        \E m \in turn .. Len(log) : GivesOp(m) /\ m <= OpTurn
    /\ worker_at = "connect" /\ pipe \in Clients => Recent(op, pipe, turn)
    /\ SessionsAreRecent

\* The globals are those of reads from the worker's turn on.
LEMMA TurnsInLog ==
    ASSUME TypeOK, Turns
    PROVE  {OpTurn} \union PathTurns \subseteq turn .. Len(log)
<1>1. /\ Len(log) \in Nat /\ turn \in Nat /\ queued \in Nat
      /\ turn + queued = Len(log) - (IF InBody THEN 1 ELSE 0)
  BY ClientsAssumption DEF TypeOK, Turns
<1> QED BY <1>1 DEF OpTurn, PathTurns, InBody, Copying

\* The path is that of one read, or a mixture of it and the next.
LEMMA PathTurnsInRow ==
    ASSUME TypeOK, Turns
    PROVE  \E n \in turn .. Len(log) :
              /\ n >= OpTurn - 1
              /\ PathTurns = {n} \/ (n < Len(log) /\ PathTurns = {n, n + 1})
<1>1. /\ Len(log) \in Nat /\ turn \in Nat /\ queued \in Nat
      /\ turn + queued = Len(log) - (IF InBody THEN 1 ELSE 0)
  BY ClientsAssumption DEF TypeOK, Turns
<1>2. CASE main_at \in {"op", "path"}
  <2>1. Len(log) - 1 \in turn .. Len(log) /\ (Len(log) - 1) + 1 = Len(log)
    BY <1>1, <1>2 DEF InBody, Copying
  <2>2. /\ Len(log) - 1 >= OpTurn - 1
        /\ \/ PathTurns = {Len(log) - 1}
           \/ /\ Len(log) - 1 < Len(log)
              /\ PathTurns = {Len(log) - 1, (Len(log) - 1) + 1}
    BY <1>1, <1>2, <2>1 DEF OpTurn, PathTurns
  <2> QED BY <2>1, <2>2
<1>3. CASE main_at \notin {"op", "path"}
  <2>1. Len(log) \in turn .. Len(log)
    BY <1>1
  <2>2. PathTurns = {Len(log)} /\ OpTurn = Len(log)
    BY <1>3 DEF PathTurns, OpTurn
  <2> QED BY <1>1, <2>1, <2>2
<1> QED BY <1>2, <1>3

\* What was read stays what it was.
LEMMA LogGrows ==
    ASSUME TypeOK, [Next]_vars
    PROVE  /\ Len(log) \in Nat /\ Len(log') \in Nat /\ Len(log) <= Len(log')
           /\ \A n \in 0 .. Len(log) : Entry(n)' = Entry(n)
           /\ OpTurn \in Int /\ OpTurn' \in Int /\ OpTurn <= OpTurn'
<1>1. log \in Seq(Clients \union {Nobody})
  BY DEF TypeOK
<1>2. \/ log' = log /\ (main_at' = "op" => main_at = "op")
      \/ main_at # "op" /\ \E e : log' = Append(log, e)
  <2>1. CASE MainBody
    BY <2>1 DEF MainBody, Open, Read, Copy, CloseFd, Enqueue
  <2>2. CASE \E c \in Clients : ClientStep(c)
    BY <2>2 DEF ClientStep, Knock, MakePipe, Write, CloseTx, Join, Listen,
       Leave, mainVars
  <2>3. CASE Worker
    BY <2>3 DEF Worker, CreateWorker, JoinDies, BodyDies, Dequeue, CheckActive,
       Switch, OpenPipe, Connect, OpenBox, CreateBox, RemoveBox, ListBoxes,
       Answer, Finish, regVars, mainVars
  <2>4. CASE (\E c \in Clients : HangUp(c)) \/ UNCHANGED vars
    BY <2>4 DEF HangUp, vars, regVars, mainVars
  <2> QED BY <2>1, <2>2, <2>3, <2>4 DEF Next
<1>3. Len(log) \in Nat /\ Len(log') \in Nat /\ Len(log) <= Len(log')
  BY <1>1, <1>2
<1>4. \A n \in 0 .. Len(log) : Entry(n)' = Entry(n)
  BY <1>1, <1>2 DEF Entry
<1>5. OpTurn \in Int /\ OpTurn' \in Int /\ OpTurn <= OpTurn'
  BY <1>1, <1>2, <1>3 DEF OpTurn
<1> QED BY <1>3, <1>4, <1>5

LEMMA OpsStay ==
    ASSUME TypeOK, [Next]_vars, NEW n \in 0 .. Len(log)
    PROVE  OpOf(Entry(n))' = OpOf(Entry(n))
<1>1. asks' = asks /\ Entry(n)' = Entry(n)
  BY AsksStay, LogGrows
<1> QED BY <1>1 DEF OpOf, Frame

LEMMA PathsStay ==
    ASSUME TypeOK, [Next]_vars, NEW turns \in SUBSET (0 .. Len(log))
    PROVE  PathsFrom(turns)' = PathsFrom(turns)
<1> DEFINE N == [1 .. PIPE_NAME_SIZE -> turns]
           Bytes(n) == [k \in 1 .. PIPE_NAME_SIZE |-> ByteOf(Entry(n[k]), 1 + k - 1)]
           found == {CString(Bytes(n)) : n \in N}
<1>1. ASSUME NEW n \in N
      PROVE  Bytes(n)' = Bytes(n)
  <2>1. ASSUME NEW k \in 1 .. PIPE_NAME_SIZE
        PROVE  ByteOf(Entry(n[k]), 1 + k - 1)' = ByteOf(Entry(n[k]), 1 + k - 1)
    <3>1. n[k] \in 0 .. Len(log)
      OBVIOUS
    <3>2. asks' = asks /\ Entry(n[k])' = Entry(n[k])
      BY <3>1, AsksStay, LogGrows
    <3> QED BY <3>2 DEF ByteOf, Frame
  <2> QED BY <2>1
<1>2. found' = found
  <2> HIDE DEF Bytes, N
  <2>1. found' = {CString(Bytes(n)') : n \in N}
    BY DEF CString, N
  <2> QED BY <1>1, <2>1
<1>3. Seen(turns, 1, PIPE_NAME_SIZE)' = Seen(turns, 1, PIPE_NAME_SIZE)
  <2>1. Seen(turns, 1, PIPE_NAME_SIZE) =
            found \union {<<>> : s \in {t \in found : PIPE_NAME_SIZE \in DOMAIN t}}
    BY DEF Seen
  <2>2. Seen(turns, 1, PIPE_NAME_SIZE)' =
            found' \union {<<>> : s \in {t \in found' : PIPE_NAME_SIZE \in DOMAIN t}}
    BY DEF Seen
  <2> HIDE DEF found
  <2> QED BY <1>2, <2>1, <2>2
<1> QED BY <1>3 DEF PathsFrom, PipeOf

\* So what was recent stays recent.
LEMMA LeadsStay ==
    ASSUME TypeOK, [Next]_vars, NEW p, NEW n \in 0 .. Len(log), Leads(p, n)
    PROVE  Leads(p, n)'
<1>1. /\ Len(log) \in Nat /\ Len(log') \in Nat /\ Len(log) <= Len(log')
  BY LogGrows
<1>2. PathsFrom({n})' = PathsFrom({n})
  <2>1. {n} \in SUBSET (0 .. Len(log))
    OBVIOUS
  <2> QED BY <2>1, PathsStay
<1>3. n < Len(log) => PathsFrom({n, n + 1})' = PathsFrom({n, n + 1})
  <2> SUFFICES ASSUME n < Len(log) PROVE PathsFrom({n, n + 1})' = PathsFrom({n, n + 1})
    OBVIOUS
  <2>1. {n, n + 1} \in SUBSET (0 .. Len(log))
    BY <1>1
  <2> QED BY <2>1, PathsStay
<1> QED BY <1>1, <1>2, <1>3 DEF Leads

LEMMA RecentStays ==
    ASSUME TypeOK, [Next]_vars, NEW o, NEW p, NEW t \in Nat, Recent(o, p, t)
    PROVE  Recent(o, p, t)'
<1>1. PICK m \in t .. Len(log), n \in t .. Len(log) :
        o = OpOf(Entry(m)) /\ n >= m - 1 /\ Leads(p, n)
  BY DEF Recent
<1>2. /\ m \in 0 .. Len(log) /\ n \in 0 .. Len(log)
      /\ m \in t .. Len(log') /\ n \in t .. Len(log')
  BY LogGrows
<1>3. o = OpOf(Entry(m))' /\ Leads(p, n)'
  BY <1>1, <1>2, OpsStay, LeadsStay
<1> QED BY <1>1, <1>2, <1>3 DEF Recent

LEMMA RecentStep == Inv /\ RecentInv /\ [Next]_vars => RecentInv'
<1> SUFFICES ASSUME Inv, RecentInv, [Next]_vars PROVE RecentInv'
  OBVIOUS
<1>0. TypeOK /\ Turns /\ turn \in Nat /\ SessionsAreRecent
  BY DEF Inv, TypeOK, RecentInv
<1>h. ASSUME NEW h \in held
      PROVE  Recent(h.op, h.pipe, h.turn)'
  <2>1. Recent(h.op, h.pipe, h.turn) /\ h.turn \in Nat
    BY <1>0 DEF SessionsAreRecent, Recent, Leads, TypeOK
  <2> QED BY <1>0, <2>1, RecentStays
<1>s. SessionsAreRecent' <=> \A h \in held' : Recent(h.op, h.pipe, h.turn)'
  BY DEF SessionsAreRecent, Recent, Leads
<1>1. ASSUME held' \subseteq held
      PROVE  SessionsAreRecent'
  BY <1>1, <1>h, <1>s
<1>2. ASSUME turn' = turn, op' = op,
             \E m \in turn .. Len(log) : GivesOp(m) /\ m <= OpTurn
      PROVE  (\E m \in turn .. Len(log) : GivesOp(m) /\ m <= OpTurn)'
  <2>1. PICK m \in turn .. Len(log) : GivesOp(m) /\ m <= OpTurn
    BY <1>2
  <2>2. m \in 0 .. Len(log) /\ m \in turn .. Len(log') /\ m <= OpTurn'
    BY <1>0, <2>1, LogGrows
  <2>3. GivesOp(m)'
    BY <1>0, <1>2, <2>1, <2>2, OpsStay DEF GivesOp
  <2> QED BY <1>2, <2>2, <2>3
<1>3. ASSUME turn' = turn, op' = op, pipe' = pipe, Recent(op, pipe, turn)
      PROVE  Recent(op, pipe, turn)'
  <2>1. PICK o, p, t : o = op /\ p = pipe /\ t = turn
    OBVIOUS
  <2>2. Recent(o, p, t)'
    BY <1>0, <1>3, <2>1, RecentStays
  <2> QED BY <1>3, <2>1, <2>2 DEF Recent
<1>4. CASE UNCHANGED <<handlerVars, alive, asks>>
  BY <1>1, <1>2, <1>3, <1>4 DEF RecentInv, handlerVars
<1>5. CASE Switch
  <2>1. ASSUME worker_at' = "open"
        PROVE  (\E m \in turn .. Len(log) : GivesOp(m) /\ m <= OpTurn)'
    <3>1. OpTurn \in turn .. Len(log)
      BY <1>0, TurnsInLog
    <3>2. op' = OpOf(Entry(OpTurn)) /\ turn' = turn
      BY <1>5 DEF Switch
    <3>3. PICK m \in turn .. Len(log) : m = OpTurn /\ op' = OpOf(Entry(m))
      BY <3>1, <3>2
    <3>4. m \in 0 .. Len(log) /\ m \in turn .. Len(log') /\ m <= OpTurn'
      BY <1>0, <3>3, LogGrows
    <3>5. GivesOp(m)'
      BY <1>0, <3>3, <3>4, OpsStay DEF GivesOp
    <3> QED BY <3>2, <3>4, <3>5
  <2>2. worker_at' \in {"open", "none"} /\ held' = held
    BY <1>5 DEF Switch
  <2> QED BY <1>1, <2>1, <2>2 DEF RecentInv
<1>6. CASE OpenPipe
  <2>1. /\ worker_at = "open" /\ worker_at' = "connect" /\ pipe' \in PathsSeen
        /\ held' = held /\ turn' = turn /\ op' = op
    BY <1>6 DEF OpenPipe
  <2>2. PICK m \in turn .. Len(log) : GivesOp(m) /\ m <= OpTurn
    BY <2>1 DEF RecentInv
  <2>3. PICK n \in turn .. Len(log) :
          /\ n >= OpTurn - 1
          /\ PathTurns = {n} \/ (n < Len(log) /\ PathTurns = {n, n + 1})
    BY <1>0, PathTurnsInRow
  <2>4. PICK o, p, t : o = op /\ p = pipe' /\ t = turn
    OBVIOUS
  <2>5. Leads(p, n)
    BY <2>1, <2>3, <2>4 DEF Leads, PathsSeen
  <2>6. n >= m - 1
    BY <1>0, <2>2, <2>3, LogGrows
  <2>7. Recent(o, p, t)
    BY <2>2, <2>4, <2>5, <2>6 DEF Recent, GivesOp
  <2>8. Recent(o, p, t)'
    BY <1>0, <2>4, <2>7, RecentStays
  <2>9. Recent(op, pipe, turn)'
    BY <2>1, <2>4, <2>8 DEF Recent
  <2> QED BY <1>1, <2>1, <2>9 DEF RecentInv
<1>7. CASE Connect
  <2>1. /\ worker_at = "connect" /\ pipe \in Clients /\ worker_at' = "serve"
        /\ held' = held \union {This}
    BY <1>7 DEF Connect
  <2>2. PICK h : h = This
    OBVIOUS
  <2>3. Recent(h.op, h.pipe, h.turn) /\ h.turn \in Nat
    BY <1>0, <2>1, <2>2 DEF RecentInv, This
  <2>4. Recent(h.op, h.pipe, h.turn)'
    BY <1>0, <2>3, RecentStays
  <2>5. SessionsAreRecent'
    BY <1>h, <1>s, <2>1, <2>2, <2>4
  <2> QED BY <2>1, <2>5 DEF RecentInv
<1>8. CASE Worker /\ ~Switch /\ ~OpenPipe /\ ~Connect
  <2>1. \/ worker_at' \notin {"open", "connect"}
        \/ UNCHANGED <<worker_at, turn, op, pipe>>
    BY <1>8 DEF Worker, CreateWorker, JoinDies, BodyDies, Dequeue, CheckActive,
       OpenBox, CreateBox, RemoveBox, ListBoxes, Answer, Finish, handlerVars
  <2>2. held' \subseteq held
    BY <1>8 DEF Worker, CreateWorker, JoinDies, BodyDies, Dequeue, CheckActive,
       OpenBox, CreateBox, RemoveBox, ListBoxes, Answer, Finish, handlerVars
  <2> QED BY <1>1, <1>2, <1>3, <2>1, <2>2 DEF RecentInv
<1> QED BY <1>4, <1>5, <1>6, <1>7, <1>8, StepKinds

\* A session is of registrations no older than the one it was woken for
\* (mbroker.c:37, 49, 155, 308-310).
THEOREM OfRecentRegistrations == Spec => []SessionsAreRecent
<1>1. Init => RecentInv
  BY DEF Init, RecentInv, SessionsAreRecent
<1>2. Inv /\ RecentInv /\ [Next]_vars => RecentInv'
  BY RecentStep
<1>3. RecentInv => SessionsAreRecent
  BY DEF RecentInv
<1> QED BY <1>1, <1>2, <1>3, Invariance, PTL DEF Spec

-----------------------------------------------------------------------------
(* A client that is alone at the register pipe. *)

Alone(c) == \A d \in Clients \ {c} : at[d] = "start"

\* While it is alone main waits for it: with the register pipe open as soon as
\* it has entered, until its frame was read.
AloneInv ==
    alive => \A c \in Clients : Alone(c) =>
        /\ at[c] = "start" => /\ main_at \in {"loop", "open"}
                              /\ reg = <<>> /\ log = <<>> /\ queued = 0
        /\ at[c] = "knocking" => /\ main_at = "loop"
                                 /\ reg = <<>> /\ log = <<>> /\ queued = 0
        /\ at[c] \in {"entered", "made"} => /\ main_at = "read"
                                            /\ reg = <<>> /\ log = <<>>
                                            /\ queued = 0
        /\ at[c] \in {"written", "opening"} =>
            \/ main_at = "read" /\ reg = <<c>>
            \/ \E i \in DOMAIN log : log[i] = c

LEMMA AloneImplies == TypeOK /\ AloneInv => LossNeedsCompany
<1> SUFFICES ASSUME TypeOK, AloneInv PROVE LossNeedsCompany
  OBVIOUS
<1> SUFFICES ASSUME NEW c \in Clients, Lost(c), Alone(c) PROVE FALSE
  BY DEF LossNeedsCompany, Alone
<1>1. \/ reg = <<c>>
      \/ \E i \in DOMAIN log : log[i] = c
  BY DEF AloneInv, Lost
<1>2. ~\E i \in DOMAIN log : log[i] = c
  BY DEF Lost
<1>3. reg = <<c>> => 1 \in DOMAIN reg /\ reg[1] = c
  OBVIOUS
<1> QED BY <1>1, <1>2, <1>3 DEF Lost

\* Whoever has left its start does not come back to it.
LEMMA StartIsLeft ==
    ASSUME TypeOK, [Next]_vars, NEW c \in Clients, at'[c] = "start"
    PROVE  at[c] = "start"
<1> at \in [Clients -> {"start", "knocking", "entered", "made", "written",
                        "opening", "joining", "listening", "connected",
                        "answered", "gone"}]
  BY DEF TypeOK
<1>1. CASE MainBody
  <2>1. CASE Open
    BY <2>1 DEF Open, LetIn
  <2>2. CASE Read \/ Copy \/ CloseFd \/ Enqueue
    BY <2>2 DEF Read, Copy, CloseFd, Enqueue, clientVars
  <2> QED BY <1>1, <2>1, <2>2 DEF MainBody
<1>2. ASSUME NEW d \in Clients, ClientStep(d)
      PROVE  at[c] = "start"
  <2>1. CASE Knock(d)
    BY <2>1 DEF Knock
  <2>2. CASE MakePipe(d)
    BY <2>2 DEF MakePipe
  <2>3. CASE Write(d)
    BY <2>3 DEF Write
  <2>4. CASE CloseTx(d)
    BY <2>4 DEF CloseTx
  <2>5. CASE Join(d)
    BY <2>5 DEF Join, LetIn
  <2>6. CASE Listen(d)
    BY <2>6 DEF Listen, clientVars
  <2>7. CASE Leave(d)
    BY <2>7 DEF Leave
  <2> QED BY <1>2, <2>1, <2>2, <2>3, <2>4, <2>5, <2>6, <2>7 DEF ClientStep
<1>3. CASE Worker
  <2>1. CASE Connect
    BY <2>1 DEF Connect
  <2>2. CASE Answer
    BY <2>2 DEF Answer
  <2>3. CASE ~Connect /\ ~Answer
    BY <1>3, <2>3 DEF Worker, CreateWorker, JoinDies, BodyDies, Dequeue, CheckActive,
       Switch, OpenPipe, OpenBox, CreateBox, RemoveBox, ListBoxes, Finish,
       regVars, clientVars, handlerVars
  <2> QED BY <2>1, <2>2, <2>3
<1>4. ASSUME NEW d \in Clients, HangUp(d)
      PROVE  at[c] = "start"
  BY <1>4 DEF HangUp
<1>5. CASE UNCHANGED vars
  BY <1>5 DEF vars, regVars, clientVars
<1> QED BY <1>1, <1>2, <1>3, <1>4, <1>5 DEF Next

LEMMA AloneStep == Inv /\ AloneInv /\ [Next]_vars => AloneInv'
<1> SUFFICES ASSUME Inv, AloneInv, [Next]_vars, alive',
                    NEW c \in Clients, Alone(c)'
             PROVE  /\ at'[c] = "start" =>
                        /\ main_at' \in {"loop", "open"}
                        /\ reg' = <<>> /\ log' = <<>> /\ queued' = 0
                    /\ at'[c] = "knocking" =>
                        /\ main_at' = "loop"
                        /\ reg' = <<>> /\ log' = <<>> /\ queued' = 0
                    /\ at'[c] \in {"entered", "made"} =>
                        /\ main_at' = "read"
                        /\ reg' = <<>> /\ log' = <<>> /\ queued' = 0
                    /\ at'[c] \in {"written", "opening"} =>
                        \/ main_at' = "read" /\ reg' = <<c>>
                        \/ \E i \in DOMAIN log' : log'[i] = c
  BY DEF AloneInv
<1>0. \A d \in Clients \ {c} : at'[d] = "start" /\ at[d] = "start"
  BY StartIsLeft DEF Alone, Inv
<1>1. alive
  BY DEF Next, MainBody, Open, Read, Copy, CloseFd, Enqueue, Worker,
     CreateWorker, JoinDies, BodyDies, Dequeue, CheckActive, Switch, OpenPipe, Connect,
     OpenBox, CreateBox, RemoveBox, ListBoxes, Answer, Finish, HangUp,
     ClientStep, Knock, MakePipe, Write, CloseTx, Join, Listen, Leave, vars,
     regVars, handlerVars
<1>2. /\ at[c] = "start" => /\ main_at \in {"loop", "open"}
                            /\ reg = <<>> /\ log = <<>> /\ queued = 0
      /\ at[c] = "knocking" => /\ main_at = "loop"
                               /\ reg = <<>> /\ log = <<>> /\ queued = 0
      /\ at[c] \in {"entered", "made"} => /\ main_at = "read"
                                          /\ reg = <<>> /\ log = <<>>
                                          /\ queued = 0
      /\ at[c] \in {"written", "opening"} =>
          \/ main_at = "read" /\ reg = <<c>>
          \/ \E i \in DOMAIN log : log[i] = c
  BY <1>0, <1>1 DEF AloneInv, Alone
<1>3. /\ at \in [Clients -> {"start", "knocking", "entered", "made", "written",
                             "opening", "joining", "listening", "connected",
                             "answered", "gone"}]
      /\ log \in Seq(Clients \union {Nobody}) /\ reg \in Seq(Clients)
      /\ queued \in Nat
  BY ClientsAssumption DEF Inv, TypeOK
<1>4. CASE Open
  <2>1. at[c] = "start" => ~HasWriter
    BY <1>0 DEF HasWriter, Writes
  <2>2. at[c] = "knocking" => HasWriter
    BY DEF HasWriter, Writes
  <2> QED BY <1>2, <1>3, <1>4, <2>1, <2>2 DEF Open, LetIn
<1>5. CASE Read
  <2>1. at[c] \notin {"start", "knocking"}
    BY <1>2, <1>5 DEF Read
  <2>2. at[c] \notin {"entered", "made"}
    BY <1>2, <1>5 DEF Read, HasWriter, Writes
  <2>3. at' = at
    BY <1>5 DEF Read, clientVars
  <2>4. PICK e : log' = Append(log, e) /\ (reg # <<>> => e = Head(reg))
    BY <1>5 DEF Read
  <2>5. CASE reg = <<c>>
    <3>1. log'[Len(log) + 1] = c /\ Len(log) + 1 \in DOMAIN log'
      BY <1>3, <2>4, <2>5
    <3> QED BY <2>1, <2>2, <2>3, <3>1
  <2>6. ASSUME NEW i \in DOMAIN log, log[i] = c
        PROVE  i \in DOMAIN log' /\ log'[i] = c
    BY <1>3, <2>4, <2>6
  <2> QED BY <1>2, <2>1, <2>2, <2>3, <2>5, <2>6
<1>6. CASE Copy \/ CloseFd \/ Enqueue
  BY <1>2, <1>6 DEF Copy, CloseFd, Enqueue, clientVars
<1>7. ASSUME NEW d \in Clients, ClientStep(d)
      PROVE  /\ at'[c] = "start" =>
                 /\ main_at' \in {"loop", "open"}
                 /\ reg' = <<>> /\ log' = <<>> /\ queued' = 0
             /\ at'[c] = "knocking" =>
                 /\ main_at' = "loop"
                 /\ reg' = <<>> /\ log' = <<>> /\ queued' = 0
             /\ at'[c] \in {"entered", "made"} =>
                 /\ main_at' = "read"
                 /\ reg' = <<>> /\ log' = <<>> /\ queued' = 0
             /\ at'[c] \in {"written", "opening"} =>
                 \/ main_at' = "read" /\ reg' = <<c>>
                 \/ \E i \in DOMAIN log' : log'[i] = c
  <2>1. d = c
    <3>1. d # c => at[d] = "start" /\ at'[d] = "start"
      BY <1>0
    <3> QED BY <1>3, <1>7, <3>1 DEF ClientStep, Knock, MakePipe, Write, CloseTx,
               Join, Listen, Leave
  <2>2. CASE Knock(c)
    <3>1. HasReader <=> main_at = "open"
      BY <1>0, <1>1, <1>2, <2>2 DEF HasReader, BrokerReads, Knock
    <3> QED BY <1>2, <1>3, <2>2, <3>1 DEF Knock
  <2>3. CASE MakePipe(c)
    BY <1>2, <1>3, <2>3 DEF MakePipe, mainVars
  <2>4. CASE Write(c)
    BY <1>2, <1>3, <2>4 DEF Write, mainVars
  <2>5. CASE CloseTx(c)
    <3>1. main_at' = main_at /\ log' = log /\ alive' = alive
      BY <2>5 DEF CloseTx, mainVars
    <3>2. main_at = "read" => reg' = reg
      BY <1>1, <2>5, <3>1 DEF CloseTx, Kept, HasReader, BrokerReads
    <3>3. at'[c] = "opening" /\ at[c] = "written"
      BY <1>3, <2>5 DEF CloseTx
    <3> QED BY <1>2, <3>1, <3>2, <3>3
  <2>6. CASE Join(c)
    BY <1>2, <1>3, <2>6 DEF Join, LetIn
  <2>7. CASE Listen(c)
    BY <1>2, <1>3, <2>7 DEF Listen, clientVars
  <2>8. CASE Leave(c)
    BY <1>3, <2>8 DEF Leave
  <2> QED BY <1>7, <2>1, <2>2, <2>3, <2>4, <2>5, <2>6, <2>7, <2>8 DEF ClientStep
<1>8. CASE Worker
  <2>1. reg' = reg /\ log' = log /\ main_at' = main_at
    BY <1>8 DEF Worker, CreateWorker, JoinDies, BodyDies, Dequeue, CheckActive, Switch,
       OpenPipe, Connect, OpenBox, CreateBox, RemoveBox, ListBoxes, Answer,
       Finish, Die, Survive, regVars, mainVars, handlerVars
  <2>2. at'[c] = at[c] \/ at'[c] \in {"connected", "answered"}
    <3>1. CASE Connect
      BY <1>3, <3>1 DEF Connect
    <3>2. CASE Answer
      BY <1>3, <3>2 DEF Answer
    <3>3. CASE ~Connect /\ ~Answer
      BY <1>8, <3>3 DEF Worker, CreateWorker, JoinDies, BodyDies, Dequeue, CheckActive,
         Switch, OpenPipe, OpenBox, CreateBox, RemoveBox, ListBoxes, Finish,
         regVars, clientVars, handlerVars
    <3> QED BY <3>1, <3>2, <3>3
  <2>3. queued' = queued \/ queued > 0
    BY <1>8 DEF Worker, CreateWorker, JoinDies, BodyDies, Dequeue, CheckActive, Switch,
       OpenPipe, Connect, OpenBox, CreateBox, RemoveBox, ListBoxes, Answer,
       Finish, regVars, mainVars, handlerVars
  <2> QED BY <1>2, <1>3, <2>1, <2>2, <2>3
<1>9. CASE (\E d \in Clients : HangUp(d)) \/ UNCHANGED vars
  BY <1>1, <1>2, <1>9 DEF HangUp, vars, regVars, clientVars, mainVars
<1> QED BY <1>4, <1>5, <1>6, <1>7, <1>8, <1>9 DEF Next, MainBody

\* A client that is alone does not lose its registration (mbroker.c:296-313).
THEOREM AloneIsHeard == Spec => []LossNeedsCompany
<1>1. Init => AloneInv
  BY DEF Init, RegInit, AloneInv
<1>2. Inv /\ AloneInv /\ [Next]_vars => AloneInv'
  BY AloneStep
<1>3. Inv /\ AloneInv => LossNeedsCompany
  BY AloneImplies DEF Inv
<1> QED BY <1>1, <1>2, <1>3, Invariance, PTL DEF Spec

-----------------------------------------------------------------------------
(* main does not read for ever.  A client is worth two reads: one is used up *)
(* by its frame, the other by the end of its writing, which main may find    *)
(* without a frame.                                                          *)

Came == {c \in Clients : at[c] # "start"}
Unwrote == {c \in Clients : at[c] \in {"knocking", "entered", "made"}}
Writers == {c \in Clients : Writes(c)}
EndRead == IF main_at = "read" /\ ~HasWriter THEN 1 ELSE 0

ReadsInv ==
    Len(log) + Len(reg) + Cardinality(Unwrote) + Cardinality(Writers) + EndRead
        <= 2 * Cardinality(Came)

\* The counts are numbers, and somebody writes when there are writers.
LEMMA Counts ==
    /\ IsFiniteSet(Came) /\ IsFiniteSet(Unwrote) /\ IsFiniteSet(Writers)
    /\ Cardinality(Came) \in Nat /\ Cardinality(Unwrote) \in Nat
    /\ Cardinality(Writers) \in Nat
    /\ HasWriter <=> Writers # {}
    /\ EndRead \in {0, 1} /\ (EndRead = 1 <=> main_at = "read" /\ Writers = {})
<1>1. HasWriter <=> Writers # {}
  BY DEF HasWriter, Writers
<1>2. /\ Came \in SUBSET Clients /\ Unwrote \in SUBSET Clients
      /\ Writers \in SUBSET Clients
  BY DEF Came, Unwrote, Writers
<1>3. IsFiniteSet(Came) /\ IsFiniteSet(Unwrote) /\ IsFiniteSet(Writers)
  BY <1>2, ClientsAssumption, FS_Subset
<1>4. /\ Cardinality(Came) \in Nat /\ Cardinality(Unwrote) \in Nat
      /\ Cardinality(Writers) \in Nat
  BY <1>3, FS_CardinalityType
<1>5. EndRead \in {0, 1} /\ (EndRead = 1 <=> main_at = "read" /\ Writers = {})
  BY <1>1 DEF EndRead
<1> QED BY <1>1, <1>3, <1>4, <1>5

LEMMA CountsNext ==
    ( /\ IsFiniteSet(Came) /\ IsFiniteSet(Unwrote) /\ IsFiniteSet(Writers)
      /\ Cardinality(Came) \in Nat /\ Cardinality(Unwrote) \in Nat
      /\ Cardinality(Writers) \in Nat
      /\ HasWriter <=> Writers # {}
      /\ EndRead \in {0, 1}
         /\ (EndRead = 1 <=> main_at = "read" /\ Writers = {}) )'
BY Counts, PTL

\* When clients only finish, and main starts no read without a writer, what is
\* left to be read does not grow.
LEMMA NothingGrows ==
    ASSUME ReadsInv, Came' = Came, Unwrote' \subseteq Unwrote,
           Writers' \subseteq Writers,
           log' = log, log \in Seq(Clients \union {Nobody}),
           reg \in Seq(Clients), reg' \in {reg, <<>>},
           main_at' = "read" => main_at = "read" \/ HasWriter'
    PROVE  ReadsInv'
<1>1. /\ Cardinality(Unwrote') <= Cardinality(Unwrote)
      /\ Cardinality(Writers') <= Cardinality(Writers)
  BY Counts, FS_Subset
<1>2. /\ Len(reg) \in Nat /\ Len(log) \in Nat /\ Len(log') = Len(log)
      /\ Len(reg') \in Nat /\ Len(reg') <= Len(reg)
  OBVIOUS
<1>3. Cardinality(Writers') + EndRead' <= Cardinality(Writers) + EndRead
  <2>1. CASE EndRead' = 0
    BY <1>1, <2>1, Counts, CountsNext
  <2>2. CASE EndRead' = 1
    <3>1. Writers' = {} /\ main_at = "read"
      BY <2>2, CountsNext
    <3>2. Cardinality(Writers') = 0
      BY <3>1, FS_EmptySet
    <3>3. Writers = {} => EndRead = 1
      BY <3>1, Counts
    <3>4. Writers # {} => Cardinality(Writers) > 0
      BY Counts, FS_EmptySet
    <3> QED BY <2>2, <3>2, <3>3, <3>4, Counts
  <2> QED BY <2>1, <2>2, CountsNext
<1>4. Cardinality(Came') = Cardinality(Came)
  OBVIOUS
<1>5. PICK a, b, c, d, e, f, g, n :
         /\ a = Cardinality(Unwrote) /\ b = Cardinality(Unwrote')
         /\ c = Cardinality(Writers) /\ d = Cardinality(Writers')
         /\ e = EndRead /\ f = EndRead' /\ g = Len(reg) /\ n = Len(reg')
  OBVIOUS
<1>6. /\ a \in Nat /\ b \in Nat /\ c \in Nat /\ d \in Nat /\ g \in Nat /\ n \in Nat
      /\ e \in {0, 1} /\ f \in {0, 1} /\ b <= a /\ d + f <= c + e /\ n <= g
  BY <1>1, <1>2, <1>3, <1>5, Counts, CountsNext
<1>7. PICK l, m : l = Len(log) /\ m = Cardinality(Came) /\ l \in Nat /\ m \in Nat
  BY <1>2, Counts
<1>8. l + g + a + c + e <= 2 * m
  BY <1>5, <1>7 DEF ReadsInv
<1>9. l + n + b + d + f <= 2 * m
  BY ONLY <1>6, <1>7, <1>8
<1>10. ReadsInv' <=> Len(log') + Len(reg') + Cardinality(Unwrote')
                        + Cardinality(Writers') + EndRead' <= 2 * Cardinality(Came')
  BY DEF ReadsInv
<1> QED BY <1>2, <1>4, <1>5, <1>7, <1>9, <1>10

\* How a client goes on without a new claim on main's reads.
Onward(a, b) ==
    \/ b = a
    \/ a # "start" /\ b = "gone"
    \/ <<a, b>> \in {<<"knocking", "entered">>, <<"entered", "made">>,
                     <<"written", "opening">>, <<"opening", "joining">>,
                     <<"opening", "listening">>, <<"joining", "listening">>,
                     <<"opening", "connected">>, <<"connected", "answered">>}

LEMMA OnwardKeeps ==
    ASSUME asks' = asks, \A c \in Clients : Onward(at[c], at'[c])
    PROVE  /\ Came' = Came /\ Unwrote' \subseteq Unwrote
           /\ Writers' \subseteq Writers
<1>1. ASSUME NEW c \in Clients
      PROVE  /\ at'[c] # "start" <=> at[c] # "start"
             /\ at'[c] \in {"knocking", "entered", "made"}
                    => at[c] \in {"knocking", "entered", "made"}
             /\ Writes(c)' => Writes(c)
  <2>1. Onward(at[c], at'[c])
    OBVIOUS
  <2>2. PICK a, b : a = at[c] /\ b = at'[c]
    OBVIOUS
  <2> QED BY <2>1, <2>2 DEF Onward, Writes
<1> QED BY <1>1 DEF Came, Unwrote, Writers

\* Whatever only takes clients onward keeps the balance.
LEMMA OnwardStep ==
    ASSUME Inv, ReadsInv, [Next]_vars, \A c \in Clients : Onward(at[c], at'[c]),
           log' = log, reg' \in {reg, <<>>},
           main_at' = "read" => main_at = "read" \/ HasWriter'
    PROVE  ReadsInv'
<1>1. log \in Seq(Clients \union {Nobody}) /\ reg \in Seq(Clients)
  BY DEF Inv, TypeOK
<1>2. asks' = asks
  BY AsksStay
<1> QED BY <1>1, <1>2, OnwardKeeps, NothingGrows

\* A client that comes brings two reads with it.
LEMMA KnockReads ==
    ASSUME Inv, ReadsInv, NEW c \in Clients, Knock(c)
    PROVE  ReadsInv'
<1>1. /\ at[c] = "start" /\ at'[c] \in {"entered", "knocking"}
      /\ \A d \in Clients \ {c} :
            at'[d] = at[d] \/ (at[d] = "joining" /\ at'[d] = "listening")
      /\ asks' = asks /\ reg' = reg /\ log' = log
  BY DEF Knock
<1>2. ASSUME NEW d \in Clients \ {c}
      PROVE  /\ at'[d] # "start" <=> at[d] # "start"
             /\ at'[d] \in {"knocking", "entered", "made"}
                    <=> at[d] \in {"knocking", "entered", "made"}
             /\ Writes(d)' <=> Writes(d)
  BY <1>1 DEF Writes
<1>3. /\ Came' = Came \cup {c} /\ c \notin Came
      /\ Unwrote' = Unwrote \cup {c} /\ c \notin Unwrote
  BY <1>1, <1>2 DEF Came, Unwrote
<1>4. Writers' = Writers \cup {c} /\ c \notin Writers
  <2>1. Writes(c)' /\ ~Writes(c)
    BY <1>1 DEF Writes
  <2> QED BY <1>2, <2>1 DEF Writers
<1>5. /\ Cardinality(Came') = Cardinality(Came) + 1
      /\ Cardinality(Unwrote') = Cardinality(Unwrote) + 1
      /\ Cardinality(Writers') = Cardinality(Writers) + 1
  BY <1>3, <1>4, Counts, FS_AddElement
<1>6. EndRead' = 0
  BY <1>4, CountsNext
<1>7. Len(reg) \in Nat /\ Len(log) \in Nat
  BY DEF Inv, TypeOK
<1> QED BY <1>1, <1>5, <1>6, <1>7, Counts DEF ReadsInv

\* A frame takes the place of the read its client had to come.
LEMMA WriteReads ==
    ASSUME Inv, ReadsInv, NEW c \in Clients, Write(c)
    PROVE  ReadsInv'
<1>0. at[c] = "made"
  BY DEF Write
<1>1. /\ at'[c] = IF asks[c].kind = "create" THEN "opening" ELSE "written"
      /\ \A d \in Clients \ {c} : at'[d] = at[d]
      /\ asks' = asks /\ reg' = Append(reg, c) /\ log' = log /\ main_at' = main_at
  <2>1. DOMAIN at = Clients
    BY DEF Inv, TypeOK
  <2> QED BY <2>1 DEF Write, mainVars
<1>2. /\ Came' = Came /\ Unwrote' = Unwrote \ {c} /\ c \in Unwrote
  BY <1>0, <1>1 DEF Came, Unwrote
<1>3. Writers' = Writers
  <2>1. Writes(c) /\ Writes(c)'
    BY <1>0, <1>1 DEF Writes
  <2>2. \A d \in Clients \ {c} : Writes(d)' <=> Writes(d)
    BY <1>1 DEF Writes
  <2> QED BY <2>1, <2>2 DEF Writers
<1>4. Cardinality(Unwrote') = Cardinality(Unwrote) - 1
  BY <1>2, Counts, FS_RemoveElement
<1>5. EndRead' = EndRead
  BY <1>1, <1>3, Counts, CountsNext
<1>6. Len(reg) \in Nat /\ Len(log) \in Nat /\ Len(reg') = Len(reg) + 1
  BY <1>1 DEF Inv, TypeOK
<1>7. /\ Cardinality(Came') = Cardinality(Came)
      /\ Cardinality(Writers') = Cardinality(Writers)
  BY <1>2, <1>3
<1> QED BY <1>1, <1>4, <1>5, <1>6, <1>7, Counts, CountsNext DEF ReadsInv

\* main's read uses up a frame, or the end of everybody's writing.
LEMMA ReadReads ==
    ASSUME Inv, ReadsInv, Read
    PROVE  ReadsInv'
<1>1. /\ at' = at /\ asks' = asks /\ reg' = <<>> /\ main_at' = "op"
      /\ main_at = "read" /\ (reg # <<>> \/ ~HasWriter)
      /\ \E x : log' = Append(log, x)
  BY DEF Read, clientVars
<1>2. Came' = Came /\ Unwrote' = Unwrote /\ Writers' = Writers
  BY <1>1 DEF Came, Unwrote, Writers, Writes
<1>3. EndRead' = 0
  BY <1>1, CountsNext
<1>4. /\ Len(reg) \in Nat /\ Len(log) \in Nat /\ Len(log') = Len(log) + 1
      /\ Len(reg') = 0 /\ (reg # <<>> => Len(reg) > 0)
  <2>1. log \in Seq(Clients \union {Nobody}) /\ reg \in Seq(Clients)
    BY DEF Inv, TypeOK
  <2> QED BY <1>1, <2>1
<1>5. Len(reg) > 0 \/ EndRead = 1
  BY <1>1, <1>4, Counts
<1>6. /\ Cardinality(Came') = Cardinality(Came)
      /\ Cardinality(Unwrote') = Cardinality(Unwrote)
      /\ Cardinality(Writers') = Cardinality(Writers)
  BY <1>2
<1> QED BY <1>3, <1>4, <1>5, <1>6, Counts DEF ReadsInv

LEMMA ReadsStep == Inv /\ ReadsInv /\ [Next]_vars => ReadsInv'
<1> SUFFICES ASSUME Inv, ReadsInv, [Next]_vars PROVE ReadsInv'
  OBVIOUS
<1>t. at \in [Clients -> {"start", "knocking", "entered", "made", "written",
                          "opening", "joining", "listening", "connected",
                          "answered", "gone"}]
  BY DEF Inv, TypeOK
<1>1. CASE Open
  <2>1. /\ \A c \in Clients : Onward(at[c], at'[c])
        /\ log' = log /\ reg' = reg
    BY <1>1 DEF Open, LetIn, Onward
  <2>2. ASSUME main_at' = "read" PROVE HasWriter'
    <3>1. PICK c \in Clients : Writes(c)
      BY <1>1, <2>2 DEF Open, HasWriter
    <3>2. asks' = asks /\ at' = LetIn(at)
      BY <1>1 DEF Open
    <3>3. Writes(c)'
      BY <3>1, <3>2 DEF Writes, LetIn
    <3> QED BY <3>3 DEF HasWriter
  <2> QED BY <2>1, <2>2, OnwardStep
<1>2. CASE Read
  BY <1>2, ReadReads
<1>3. CASE Copy \/ CloseFd \/ Enqueue
  BY <1>3, OnwardStep DEF Copy, CloseFd, Enqueue, clientVars, Kept, Onward
<1>4. ASSUME NEW c \in Clients, ClientStep(c)
      PROVE  ReadsInv'
  <2>1. CASE Knock(c)
    BY <2>1, KnockReads
  <2>2. CASE Write(c)
    BY <2>2, WriteReads
  <2>3. CASE MakePipe(c) \/ CloseTx(c) \/ Join(c) \/ Listen(c) \/ Leave(c)
    <3>1. log' = log /\ main_at' = main_at /\ reg' \in {reg, <<>>}
      BY <2>3 DEF MakePipe, CloseTx, Join, Listen, Leave, mainVars, Kept
    <3>2. \A d \in Clients : Onward(at[d], at'[d])
      <4>1. CASE MakePipe(c)
        BY <1>t, <4>1 DEF MakePipe, Onward
      <4>2. CASE CloseTx(c)
        BY <1>t, <4>2 DEF CloseTx, Onward
      <4>3. CASE Join(c)
        BY <1>t, <4>3 DEF Join, LetIn, Onward
      <4>4. CASE Listen(c)
        BY <4>4 DEF Listen, clientVars, Onward
      <4>5. CASE Leave(c)
        BY <1>t, <4>5 DEF Leave, Onward
      <4> QED BY <2>3, <4>1, <4>2, <4>3, <4>4, <4>5
    <3> QED BY <3>1, <3>2, OnwardStep
  <2> QED BY <1>4, <2>1, <2>2, <2>3 DEF ClientStep
<1>5. CASE Worker
  <2>1. log' = log /\ main_at' = main_at /\ reg' \in {reg, <<>>}
    BY <1>5 DEF Worker, CreateWorker, JoinDies, BodyDies, Dequeue, CheckActive, Switch,
       OpenPipe, Connect, OpenBox, CreateBox, RemoveBox, ListBoxes, Answer,
       Finish, Die, Survive, Kept, regVars, mainVars, handlerVars
  <2>2. \A d \in Clients : Onward(at[d], at'[d])
    <3>1. CASE Connect
      BY <1>t, <3>1 DEF Connect, Onward
    <3>2. CASE Answer
      BY <1>t, <3>2 DEF Answer, AwaitsAnswer, Onward
    <3>3. CASE ~Connect /\ ~Answer
      BY <1>5, <3>3 DEF Worker, CreateWorker, JoinDies, BodyDies, Dequeue, CheckActive,
         Switch, OpenPipe, OpenBox, CreateBox, RemoveBox, ListBoxes, Finish,
         regVars, clientVars, Onward, handlerVars
    <3> QED BY <3>1, <3>2, <3>3
  <2> QED BY <2>1, <2>2, OnwardStep
<1>6. ASSUME NEW c \in Clients, HangUp(c)
      PROVE  ReadsInv'
  <2>1. log' = log /\ main_at' = main_at /\ reg' = reg
    BY <1>6 DEF HangUp, mainVars
  <2>2. \A d \in Clients : Onward(at[d], at'[d])
    BY <1>t, <1>6 DEF HangUp, AwaitsAnswer, Onward
  <2> QED BY <2>1, <2>2, OnwardStep
<1>7. CASE UNCHANGED vars
  BY <1>7, OnwardStep DEF vars, regVars, clientVars, mainVars, Onward
<1> QED BY <1>1, <1>2, <1>3, <1>4, <1>5, <1>6, <1>7 DEF Next, MainBody

\* main reads at most twice for each client that came, so an empty register
\* pipe does not make it spin (mbroker.c:296-315).
THEOREM ReadsAreBounded == Spec => []MainDoesNotSpin
<1>1. Init => ReadsInv
  <2> SUFFICES ASSUME Init PROVE ReadsInv
    OBVIOUS
  <2>1. Came = {} /\ Unwrote = {} /\ Writers = {}
    BY DEF Init, RegInit, Came, Unwrote, Writers, Writes
  <2>2. /\ Cardinality(Came) = 0 /\ Cardinality(Unwrote) = 0
        /\ Cardinality(Writers) = 0
    BY <2>1, FS_EmptySet
  <2>3. EndRead = 0 /\ Len(log) = 0 /\ Len(reg) = 0
    BY DEF Init, RegInit, EndRead
  <2> QED BY <2>2, <2>3 DEF ReadsInv
<1>2. Inv /\ ReadsInv /\ [Next]_vars => ReadsInv'
  BY ReadsStep
<1>3. Inv /\ ReadsInv => MainDoesNotSpin
  <2> SUFFICES ASSUME Inv, ReadsInv PROVE MainDoesNotSpin
    OBVIOUS
  <2>1. Len(log) \in Nat /\ Len(reg) \in Nat
    BY DEF Inv, TypeOK
  <2>2. MainDoesNotSpin <=> Len(log) <= 2 * Cardinality(Came)
    BY DEF MainDoesNotSpin, Came
  <2> QED BY <2>1, <2>2, Counts DEF ReadsInv
<1> QED BY <1>1, <1>2, <1>3, Invariance, PTL DEF Spec

=============================================================================
