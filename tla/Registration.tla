---------------------------- MODULE Registration ----------------------------
(***************************************************************************)
(* The clients of mbroker/mbroker.c, the register pipe, and the body of    *)
(* main's loop, which reads frames from the pipe into global variables and *)
(* calls pcq_enqueue.                                                      *)
(*                                                                         *)
(* A client is known by the name of its own pipe, and a frame in the pipe  *)
(* by the client that wrote it.  The queue is its number of elements       *)
(* (theorem QueueImplementsCounter): every element is a pointer to the     *)
(* same buffer.                                                            *)
(*                                                                         *)
(* Opening a FIFO blocks until the other end is opened; reading an empty   *)
(* one gives 0 when nobody has it open for writing; what is in it goes     *)
(* when nobody has it open.                                                *)
(***************************************************************************)
EXTENDS Frames, FiniteSets

CONSTANTS
    Clients, Nobody,
    Path,       \* the name of each client's pipe
    PipeAt(_),  \* whose pipe a name leads to: open takes //tmp/c for /tmp/c
    Requests,   \* what clients may ask for
    Capacity,   \* of the queue
    FramesPerRead   \* bound: frames at once in the register pipe

Kinds == {"pub", "sub", "create", "remove", "list"}
Managers == {"create", "remove", "list"}

ASSUME ClientsAssumption ==
    /\ Nobody \notin Clients
    /\ IsFiniteSet(Clients)
    /\ Capacity \in Nat
    /\ Path \in [Clients -> Seq(Char) \ {<<>>}]
    /\ \A c \in Clients : Len(Path[c]) <= PIPE_NAME_SIZE /\ PipeAt(Path[c]) = c
    /\ PipeAt(<<>>) \notin Clients
    /\ Requests \subseteq [kind : Kinds, packed : BOOLEAN, box : Seq(Char)]
    /\ \A r \in Requests :
        /\ r.kind \in Managers => r.packed
        /\ Len(r.box) <= BOX_NAME_SIZE

VARIABLES
    asks,       \* what each client asks for
    at,         \* where each client is
    said,       \* what each manager printed
    pipes,      \* the clients whose own pipe exists
    reg,        \* the frames in the register pipe, oldest first
    main_at,    \* where main is
    log,        \* history: whose frame was in buffer after each read
    box_turn,   \* history: the read that box_name comes from
    queued,     \* pcq_current_size
    alive       \* the broker was not ended by exit or a signal

clientVars == <<asks, at, said, pipes>>
mainVars == <<main_at, log, box_turn, queued>>
regVars == <<clientVars, reg, mainVars, alive>>

-----------------------------------------------------------------------------
(* What main finds in a frame. *)

Frame(c) ==
    LET r == asks[c] IN
    CASE r.kind = "create" -> Packed("3", Path[c], r.box)
      [] r.kind = "remove" -> Packed("5", Path[c], r.box)
      [] r.kind = "list" -> Packed("7", Path[c], r.box)
      [] r.packed /\ r.kind = "pub" -> Packed("1", Path[c], r.box)
      [] r.packed /\ r.kind = "sub" -> Packed("2", Path[c], r.box)
      [] ~r.packed /\ r.kind = "pub" -> Separated("1", Path[c], r.box)
      [] ~r.packed /\ r.kind = "sub" -> Separated(ByteTwo, Path[c], r.box)

\* Before the first read the buffer is empty.
OpOf(c) == IF c = Nobody THEN 0 ELSE OpCode(Frame(c))
ByteOf(c, i) == IF c = Nobody THEN Nul ELSE Frame(c)[i]

\* Whose frame the n-th read left in buffer.
Entry(n) == IF n = 0 THEN Nobody ELSE log[n]

\* The reads that op_code, client_named_pipe_path and box_name come from, as the
\* worker may see them while main copies; a frame with code 7 leaves box_name.
OpTurn == IF main_at = "op" THEN Len(log) - 1 ELSE Len(log)
PathTurns ==
    CASE main_at = "op" -> {Len(log) - 1}
      [] main_at = "path" -> {Len(log) - 1, Len(log)}
      [] OTHER -> {Len(log)}
BoxTurns ==
    IF main_at = "box" /\ OpOf(Entry(Len(log))) # 7
    THEN {box_turn, Len(log)} ELSE {box_turn}

\* What a reader of the variable for the field at that place may find in it while
\* main copies byte by byte: each byte is of one of those reads.  A string
\* without an end in its field runs into the next variable: it is what it is
\* alone, or too long a name for anything.
Seen(turns, from, size) ==
    LET found == {CString([k \in 1 .. size |-> ByteOf(Entry(n[k]), from + k - 1)]) :
                    n \in [1 .. size -> turns]}
    IN  found \union {<<>> : s \in {t \in found : size \in DOMAIN t}}

\* A name that leads to no client's pipe leads nowhere.
PipeOf(name) == IF PipeAt(name) \in Clients THEN PipeAt(name) ELSE Nobody
PathsFrom(turns) == {PipeOf(name) : name \in Seen(turns, 1, PIPE_NAME_SIZE)}

PathsSeen == PathsFrom(PathTurns)
BoxesSeen == Seen(BoxTurns, PIPE_NAME_SIZE + 1, BOX_NAME_SIZE)

-----------------------------------------------------------------------------
(* Who has the register pipe open. *)

IsManager(c) == asks[c].kind \in Managers
\* sub.c opens the register pipe again where its own is meant.
Listens(c) == asks[c].kind = "sub" /\ ~asks[c].packed

BrokerReads ==
    alive /\ main_at \in {"open", "read", "op", "path", "box", "close"}
HasReader ==
    BrokerReads \/ \E c \in Clients : at[c] \in {"joining", "listening"}

\* A client blocked in open counts as a writer.  The manager that creates a box
\* never closes its end (manager.c:93-125).
Writes(c) ==
    \/ at[c] \in {"knocking", "entered", "made", "written"}
    \/ asks[c].kind = "create" /\ at[c] \in {"opening", "connected", "answered"}
HasWriter == \E c \in Clients : Writes(c)

\* What is left of the frames f after a step that closes an end.
Kept(f) == IF (HasReader \/ HasWriter)' THEN f ELSE <<>>

\* A reader has come: whoever waits to write goes on.
LetIn(where) ==
    [c \in Clients |-> IF where[c] = "knocking" THEN "entered" ELSE where[c]]

RegInit ==
    /\ asks \in [Clients -> Requests]
    /\ at = [c \in Clients |-> "start"]
    /\ said = [c \in Clients |-> "nothing"]
    /\ pipes \in SUBSET Clients     \* left over by earlier clients
    /\ reg = <<>> /\ main_at = "loop" /\ log = <<>>
    /\ box_turn = 0 /\ queued = 0
    /\ alive = TRUE

-----------------------------------------------------------------------------
(* Clients. *)

\* A client opens the register pipe for writing, which also ends the wait of
\* whoever opened it for reading.
Knock(c) ==
    /\ at[c] = "start"
    /\ at' = [d \in Clients |->
                CASE d = c -> IF HasReader THEN "entered" ELSE "knocking"
                  [] d # c /\ at[d] = "joining" -> "listening"
                  [] OTHER -> at[d]]
    /\ main_at' = IF main_at = "open" THEN "read" ELSE main_at
    /\ UNCHANGED <<asks, said, pipes, reg, log, box_turn, queued, alive>>

\* mkfifo.  A manager unlinks an older pipe first.
MakePipe(c) ==
    /\ at[c] = "entered" /\ (c \in pipes => IsManager(c))
    /\ at' = [at EXCEPT ![c] = "made"]
    /\ pipes' = pipes \union {c}
    /\ UNCHANGED <<asks, said, reg, mainVars, alive>>

\* A read takes 1024 bytes, which is three frames and a part of a fourth: bytes
\* out of step are not modelled.
Write(c) ==
    /\ at[c] = "made" /\ HasReader /\ Len(reg) < FramesPerRead
    /\ at' = [at EXCEPT ![c] =
                IF asks[c].kind = "create" THEN "opening" ELSE "written"]
    /\ reg' = Append(reg, c)
    /\ UNCHANGED <<asks, said, pipes, mainVars, alive>>

CloseTx(c) ==
    /\ at[c] = "written"
    /\ at' = [at EXCEPT ![c] = "opening"]
    /\ UNCHANGED <<asks, said, pipes, mainVars, alive>>
    /\ reg' = Kept(reg)

\* The subscriber opens the register pipe for reading, and reads what is there.
Join(c) ==
    /\ at[c] = "opening" /\ Listens(c)
    /\ at' = LetIn([at EXCEPT ![c] =
                      IF HasWriter THEN "listening" ELSE "joining"])
    /\ UNCHANGED <<asks, said, pipes, reg, mainVars, alive>>

Listen(c) ==
    /\ at[c] = "listening" /\ reg # <<>>
    /\ reg' = <<>>
    /\ UNCHANGED <<clientVars, mainVars, alive>>

\* A client ends: its pipe exists already, the register pipe has no reader
\* (SIGPIPE), it has its answer, its input is at an end, or it is interrupted.
Leave(c) ==
    /\ at[c] \notin {"start", "gone"}
    /\ at' = [at EXCEPT ![c] = "gone"]
    /\ UNCHANGED <<asks, said, pipes, mainVars, alive>>
    /\ reg' = Kept(reg)

ClientStep(c) ==
    \/ Knock(c) \/ MakePipe(c) \/ Write(c) \/ CloseTx(c)
    \/ Join(c) \/ Listen(c) \/ Leave(c)

-----------------------------------------------------------------------------
(* The body of main's loop. *)

Open_NonBlocking ==
    /\ alive /\ main_at = "loop"
    /\ main_at' = "read"
    /\ at' = LetIn(at)
    /\ UNCHANGED <<asks, said, pipes, reg, log, box_turn, queued, alive>>
Open ==
    /\ alive /\ main_at = "loop"
    /\ main_at' = IF HasWriter THEN "read" ELSE "open"
    /\ at' = LetIn(at)
    /\ UNCHANGED <<asks, said, pipes, reg, log, box_turn, queued, alive>>

\* One read takes every frame that is there, and only the first is looked at.
\* A read that gives 0 leaves the frame before it in buffer.
Read_Enqueues ==
    /\ alive /\ main_at = "read"
    /\ reg # <<>> \/ ~HasWriter
    /\ log' = Append(log, IF reg = <<>> THEN Entry(Len(log)) ELSE Head(reg))
    /\ reg' = <<>> /\ main_at' = "op" /\ queued' = queued + 1
    /\ UNCHANGED <<clientVars, box_turn, alive>>
Read ==
    /\ alive /\ main_at = "read"
    /\ reg # <<>> \/ ~HasWriter
    /\ log' = Append(log, IF reg = <<>> THEN Entry(Len(log)) ELSE Head(reg))
    /\ reg' = <<>> /\ main_at' = "op"
    /\ UNCHANGED <<clientVars, box_turn, queued, alive>>

\* op_code, then the path, then the box name unless the code is 7.
Copy ==
    /\ alive /\ main_at \in {"op", "path", "box"}
    /\ main_at' = CASE main_at = "op" -> "path"
                    [] main_at = "path" -> "box"
                    [] main_at = "box" -> "close"
    /\ box_turn' = IF main_at = "box" /\ OpOf(Entry(Len(log))) # 7
                   THEN Len(log) ELSE box_turn
    /\ UNCHANGED <<clientVars, reg, log, queued, alive>>

CloseFd ==
    /\ alive /\ main_at = "close"
    /\ main_at' = "enqueue"
    /\ UNCHANGED <<clientVars, log, box_turn, queued, alive>>
    /\ reg' = Kept(reg)

Enqueue_Unbounded ==
    /\ alive /\ main_at = "enqueue"
    /\ queued' = queued + 1 /\ main_at' = "loop"
    /\ UNCHANGED <<clientVars, reg, log, box_turn, alive>>
Enqueue ==
    /\ alive /\ main_at = "enqueue" /\ queued < Capacity
    /\ queued' = queued + 1 /\ main_at' = "loop"
    /\ UNCHANGED <<clientVars, reg, log, box_turn, alive>>

MainBody == Open \/ Read \/ Copy \/ CloseFd \/ Enqueue

=============================================================================
