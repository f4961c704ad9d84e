------------------------------- MODULE Frames -------------------------------
(***************************************************************************)
(* The frames that clients write to the register pipe, and what mbroker    *)
(* makes of them.  A frame is a function from byte positions to bytes.     *)
(* manager/manager.c packs its fields, publisher/pub.c and                 *)
(* subscriber/sub.c put separators between them; mbroker/mbroker.c reads   *)
(* one layout whoever wrote the frame.                                     *)
(***************************************************************************)
EXTENDS Integers, Sequences

CONSTANTS
    PIPE_NAME_SIZE, BOX_NAME_SIZE,  \* 256 and 32 in the code
    Char                            \* the characters of names

Nul == "\\0"
Bar == "|"
Digit == <<"1", "2", "3", "4", "5", "6", "7", "8", "9">>
ByteTwo == "\\2"    \* the byte of value 2, which is no digit

ASSUME SizesAssumption == {PIPE_NAME_SIZE, BOX_NAME_SIZE} \subseteq Nat \ {0}
ASSUME CharAssumption == Nul \notin Char

-----------------------------------------------------------------------------
\* The manager's frame: code, path and box, each field padded with zeros.
Packed(code, path, box) ==
    [i \in 0 .. PIPE_NAME_SIZE + BOX_NAME_SIZE + 1 |->
        CASE i = 0 -> code
          [] i \in 1 .. Len(path) -> path[i]
          [] i \in PIPE_NAME_SIZE + 1 .. PIPE_NAME_SIZE + Len(box) ->
                box[i - PIPE_NAME_SIZE]
          [] OTHER -> Nul]

\* The publisher's and the subscriber's: a bar before path and box, and one
\* more byte for each field.
Separated(code, path, box) ==
    [i \in 0 .. PIPE_NAME_SIZE + BOX_NAME_SIZE + 2 |->
        CASE i = 0 -> code
          [] i \in {1, PIPE_NAME_SIZE + 2} -> Bar
          [] i \in 2 .. Len(path) + 1 -> path[i - 1]
          [] i \in PIPE_NAME_SIZE + 3 .. PIPE_NAME_SIZE + 2 + Len(box) ->
                box[i - PIPE_NAME_SIZE - 2]
          [] OTHER -> Nul]

-----------------------------------------------------------------------------
\* atoi of one byte.  The byte behind str_op_code is padding, a zero.
Atoi(byte) ==
    IF \E d \in 1 .. 9 : Digit[d] = byte
    THEN CHOOSE d \in 1 .. 9 : Digit[d] = byte
    ELSE 0

OpCode(frame) == Atoi(frame[0])

\* The bytes of one field of a frame.
Field(frame, from, size) == [k \in 1 .. size |-> frame[from + k - 1]]
PathField(frame) == Field(frame, 1, PIPE_NAME_SIZE)
BoxField(frame) == Field(frame, PIPE_NAME_SIZE + 1, BOX_NAME_SIZE)

\* The C string at the start of some bytes: those before the first zero.  When it
\* is all of them it has no end there, and runs into the next variable.
CString(bytes) ==
    [k \in {i \in DOMAIN bytes : \A j \in 1 .. i : bytes[j] # Nul} |-> bytes[k]]

=============================================================================
