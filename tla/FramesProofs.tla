---------------------------- MODULE FramesProofs ----------------------------
(***************************************************************************)
(* What gets through the register pipe, for any field sizes and any names. *)
(***************************************************************************)
EXTENDS Frames, WellFoundedInduction, TLAPS

-----------------------------------------------------------------------------
(* C strings. *)

\* The string is what precedes the first zero, or everything.
LEMMA CStringEnds ==
    ASSUME NEW size \in Nat, NEW bytes, DOMAIN bytes = 1 .. size,
           NEW n \in 0 .. size, \A k \in 1 .. n : bytes[k] # Nul,
           n < size => bytes[n + 1] = Nul
    PROVE  CString(bytes) = [k \in 1 .. n |-> bytes[k]]
<1>1. {i \in 1 .. size : \A j \in 1 .. i : bytes[j] # Nul} = 1 .. n
  <2>1. ASSUME NEW i \in 1 .. size, \A j \in 1 .. i : bytes[j] # Nul, i > n
        PROVE  FALSE
    BY <2>1
  <2> QED BY <2>1
<1> QED BY <1>1 DEF CString

\* Whatever the bytes are, they begin with some string, free of zeros.
LEMMA CStringRange ==
    ASSUME NEW S, NEW size \in Nat, NEW bytes \in [1 .. size -> S]
    PROVE  CString(bytes) \in Seq(S \ {Nul})
<1> DEFINE Z == {i \in 1 .. size : bytes[i] = Nul}
<1>1. PICK n \in 0 .. size :
         /\ \A k \in 1 .. n : bytes[k] # Nul
         /\ n < size => bytes[n + 1] = Nul
  <2>1. CASE Z = {}
    BY <2>1
  <2>2. CASE Z # {}
    <3>1. PICK z \in Z : \A i \in Z : <<i, z>> \notin OpToRel(<, Nat)
      <4>1. Z \subseteq Nat
        OBVIOUS
      <4> QED BY <2>2, <4>1, WFMin, NatLessThanWellFounded, Zenon
    <3>2. \A i \in Nat : i < z => <<i, z>> \in OpToRel(<, Nat)
      <4>1. ASSUME NEW i \in Nat, NEW j \in Nat, i < j
            PROVE  <<i, j>> \in {p \in Nat \X Nat : p[1] < p[2]}
        BY <4>1
      <4>2. z \in Nat
        OBVIOUS
      <4>3. OpToRel(<, Nat) = {p \in Nat \X Nat : p[1] < p[2]}
        BY Zenon DEF OpToRel
      <4> HIDE DEF Z
      <4> QED BY <4>1, <4>2, <4>3, Zenon
    <3>3. z - 1 \in 0 .. size /\ (z - 1) + 1 = z
      OBVIOUS
    <3>4. bytes[(z - 1) + 1] = Nul
      BY <3>3
    <3>5. ASSUME NEW k \in 1 .. z - 1
          PROVE  bytes[k] # Nul
      <4>1. k \in 1 .. size /\ k \in Nat /\ k < z
        OBVIOUS
      <4> QED BY <3>1, <3>2, <4>1
    <3> WITNESS z - 1 \in 0 .. size
    <3> QED BY <3>4, <3>5
  <2> QED BY <2>1, <2>2
<1>2. CString(bytes) = [k \in 1 .. n |-> bytes[k]]
  <2>1. DOMAIN bytes = 1 .. size
    OBVIOUS
  <2>2. \A k \in 1 .. n : bytes[k] # Nul
    BY <1>1
  <2>3. n < size => bytes[n + 1] = Nul
    BY <1>1
  <2> QED BY <2>1, <2>2, <2>3, CStringEnds, ZenonT(40)
<1>3. ASSUME NEW k \in 1 .. n
      PROVE  bytes[k] \in S \ {Nul}
  <2>1. k \in 1 .. size
    OBVIOUS
  <2> QED BY <1>1, <2>1
<1> QED BY <1>2, <1>3

-----------------------------------------------------------------------------
(* The packed frames. *)

\* The manager's path and box reach the broker, those that fill their fields as
\* well (manager.c:94-96, mbroker.c:310-311).
THEOREM PackedNamesArrive ==
    ASSUME NEW code, NEW path \in Seq(Char), NEW box \in Seq(Char),
           Len(path) <= PIPE_NAME_SIZE, Len(box) <= BOX_NAME_SIZE
    PROVE  /\ CString(PathField(Packed(code, path, box))) = path
           /\ CString(BoxField(Packed(code, path, box))) = box
<1> DEFINE F == Packed(code, path, box)
<1>0. PIPE_NAME_SIZE \in Nat /\ BOX_NAME_SIZE \in Nat
  BY SizesAssumption
<1>1. ASSUME NEW k \in 1 .. PIPE_NAME_SIZE
      PROVE  PathField(F)[k] = IF k <= Len(path) THEN path[k] ELSE Nul
  BY <1>0 DEF Packed, PathField, Field
<1>2. ASSUME NEW k \in 1 .. BOX_NAME_SIZE
      PROVE  BoxField(F)[k] = IF k <= Len(box) THEN box[k] ELSE Nul
  <2>1. BoxField(F)[k] = F[PIPE_NAME_SIZE + k]
    <3>1. (PIPE_NAME_SIZE + 1) + k - 1 = PIPE_NAME_SIZE + k
      BY <1>0
    <3> QED BY <3>1 DEF BoxField, Field
  <2>2. /\ PIPE_NAME_SIZE + k \in 0 .. PIPE_NAME_SIZE + BOX_NAME_SIZE + 1
        /\ PIPE_NAME_SIZE + k # 0 /\ PIPE_NAME_SIZE + k \notin 1 .. Len(path)
        /\ (PIPE_NAME_SIZE + k) - PIPE_NAME_SIZE = k
    BY <1>0
  <2> QED BY <1>0, <2>1, <2>2 DEF Packed
<1> HIDE DEF F
<1>3. CString(PathField(F)) = path
  <2>1. DOMAIN PathField(F) = 1 .. PIPE_NAME_SIZE
    BY DEF PathField, Field
  <2>2. \A k \in 1 .. Len(path) : PathField(F)[k] = path[k] /\ path[k] # Nul
    BY <1>0, <1>1, CharAssumption
  <2>3. Len(path) < PIPE_NAME_SIZE => PathField(F)[Len(path) + 1] = Nul
    BY <1>0, <1>1
  <2>4. Len(path) \in 0 .. PIPE_NAME_SIZE
    BY <1>0
  <2>5. CString(PathField(F)) = [k \in 1 .. Len(path) |-> PathField(F)[k]]
    <3>1. \A k \in 1 .. Len(path) : PathField(F)[k] # Nul
      BY <2>2
    <3>2. PIPE_NAME_SIZE \in Nat
      BY <1>0
    <3> QED BY <2>1, <2>3, <2>4, <3>1, <3>2, CStringEnds, ZenonT(40)
  <2> QED BY <2>2, <2>5
<1>4. CString(BoxField(F)) = box
  <2>1. DOMAIN BoxField(F) = 1 .. BOX_NAME_SIZE
    BY DEF BoxField, Field
  <2>2. \A k \in 1 .. Len(box) : BoxField(F)[k] = box[k] /\ box[k] # Nul
    BY <1>0, <1>2, CharAssumption
  <2>3. Len(box) < BOX_NAME_SIZE => BoxField(F)[Len(box) + 1] = Nul
    BY <1>0, <1>2
  <2>4. Len(box) \in 0 .. BOX_NAME_SIZE
    BY <1>0
  <2>5. CString(BoxField(F)) = [k \in 1 .. Len(box) |-> BoxField(F)[k]]
    <3>1. \A k \in 1 .. Len(box) : BoxField(F)[k] # Nul
      BY <2>2
    <3>2. BOX_NAME_SIZE \in Nat
      BY <1>0
    <3> QED BY <2>1, <2>3, <2>4, <3>1, <3>2, CStringEnds, ZenonT(40)
  <2> QED BY <2>2, <2>5
<1> QED BY <1>3, <1>4 DEF F

-----------------------------------------------------------------------------
(* The separated frames. *)

\* The path of a frame with separators arrives with the bar in front of it, as
\* another name (pub.c:51-52, mbroker.c:310).
THEOREM SeparatedPathGetsBar ==
    ASSUME NEW code, NEW path \in Seq(Char), NEW box \in Seq(Char),
           Len(path) < PIPE_NAME_SIZE
    PROVE  CString(PathField(Separated(code, path, box))) = <<Bar>> \o path
<1> DEFINE P == PathField(Separated(code, path, box))  n == Len(path) + 1
<1>0. PIPE_NAME_SIZE \in Nat /\ BOX_NAME_SIZE \in Nat /\ n \in 1 .. PIPE_NAME_SIZE
  BY SizesAssumption
<1>1. ASSUME NEW k \in 1 .. PIPE_NAME_SIZE
      PROVE  P[k] = IF k = 1 THEN Bar ELSE IF k <= n THEN path[k - 1] ELSE Nul
  BY <1>0 DEF Separated, PathField, Field
<1>2. DOMAIN P = 1 .. PIPE_NAME_SIZE
  BY DEF PathField, Field
<1> HIDE DEF P
<1>3. \A k \in 1 .. n : P[k] = (<<Bar>> \o path)[k] /\ P[k] # Nul
  <2>1. Bar # Nul
    BY DEF Bar, Nul
  <2> QED BY <1>0, <1>1, <2>1, CharAssumption
<1>4. n < PIPE_NAME_SIZE => P[n + 1] = Nul
  BY <1>0, <1>1
<1>5. CString(P) = [k \in 1 .. n |-> P[k]]
  <2>1. n \in 0 .. PIPE_NAME_SIZE
    BY <1>0
  <2>2. \A k \in 1 .. n : P[k] # Nul
    BY <1>3
  <2>3. PIPE_NAME_SIZE \in Nat
    BY <1>0
  <2> HIDE DEF n
  <2> QED BY <1>2, <1>4, <2>1, <2>2, <2>3, CStringEnds, ZenonT(40)
<1>6. <<Bar>> \o path = [k \in 1 .. n |-> (<<Bar>> \o path)[k]]
  OBVIOUS
<1> QED BY <1>3, <1>5, <1>6 DEF P

\* Its box arrives empty (pub.c:53-54, mbroker.c:311).
THEOREM SeparatedBoxIsEmpty ==
    ASSUME NEW code, NEW path \in Seq(Char), NEW box \in Seq(Char),
           Len(path) < PIPE_NAME_SIZE
    PROVE  CString(BoxField(Separated(code, path, box))) = <<>>
<1> DEFINE B == BoxField(Separated(code, path, box))
<1>1. PIPE_NAME_SIZE \in Nat \ {0} /\ BOX_NAME_SIZE \in Nat \ {0}
  BY SizesAssumption
<1>2. B[1] = Nul
  <2>1. /\ PIPE_NAME_SIZE + 1 \in 0 .. PIPE_NAME_SIZE + BOX_NAME_SIZE + 2
        /\ PIPE_NAME_SIZE + 1 # 0 /\ PIPE_NAME_SIZE + 1 # 1
        /\ PIPE_NAME_SIZE + 1 \notin 2 .. Len(path) + 1
        /\ (PIPE_NAME_SIZE + 1) + 1 - 1 = PIPE_NAME_SIZE + 1
        /\ 1 \in 1 .. BOX_NAME_SIZE
    BY <1>1
  <2>2. B[1] = Separated(code, path, box)[PIPE_NAME_SIZE + 1]
    BY <2>1 DEF BoxField, Field
  <2> QED BY <1>1, <2>1, <2>2 DEF Separated
<1>3. DOMAIN B = 1 .. BOX_NAME_SIZE
  BY DEF BoxField, Field
<1> HIDE DEF B
<1>4. CString(B) = [k \in 1 .. 0 |-> B[k]]
  <2>1. /\ BOX_NAME_SIZE \in Nat /\ 0 \in 0 .. BOX_NAME_SIZE
        /\ \A k \in 1 .. 0 : B[k] # Nul
        /\ 0 < BOX_NAME_SIZE => B[0 + 1] = Nul
    BY <1>1, <1>2
  <2> QED BY <1>3, <2>1, CStringEnds, Zenon
<1> QED BY <1>4 DEF B

\* A manager's path that fills its field, which manager.c:56 lets through, is
\* not terminated in client_named_pipe_path (mbroker.c:22, 310).
THEOREM FullPathIsUnterminated ==
    ASSUME NEW code, NEW path \in Seq(Char), NEW box \in Seq(Char),
           Len(path) = PIPE_NAME_SIZE
    PROVE  \A i \in 1 .. PIPE_NAME_SIZE : Packed(code, path, box)[i] # Nul
<1>1. PIPE_NAME_SIZE \in Nat \ {0} /\ BOX_NAME_SIZE \in Nat \ {0}
  BY SizesAssumption
<1> TAKE i \in 1 .. PIPE_NAME_SIZE
<1>2. Packed(code, path, box)[i] = path[i]
  BY <1>1 DEF Packed
<1>3. path[i] \in Char
  OBVIOUS
<1> QED BY <1>2, <1>3, CharAssumption

-----------------------------------------------------------------------------
(* Bytes and codes. *)

\* Behind its code a frame has characters, bars and zeros.
LEMMA FrameBytes ==
    ASSUME NEW code, NEW path \in Seq(Char), NEW box \in Seq(Char),
           NEW i \in 1 .. PIPE_NAME_SIZE + BOX_NAME_SIZE
    PROVE  /\ Packed(code, path, box)[i] \in Char \union {Bar, Nul}
           /\ Separated(code, path, box)[i] \in Char \union {Bar, Nul}
<1>1. PIPE_NAME_SIZE \in Nat /\ BOX_NAME_SIZE \in Nat
  BY SizesAssumption
<1>2. Packed(code, path, box)[i] \in Char \union {Bar, Nul}
  <2>1. i \in 0 .. PIPE_NAME_SIZE + BOX_NAME_SIZE + 1 /\ i # 0
    BY <1>1
  <2>2. CASE i \in 1 .. Len(path)
    BY <2>1, <2>2, <1>1 DEF Packed
  <2>3. CASE i \notin 1 .. Len(path)
    BY <2>1, <2>3, <1>1 DEF Packed
  <2> QED BY <2>2, <2>3
<1>3. Separated(code, path, box)[i] \in Char \union {Bar, Nul}
  <2>1. i \in 0 .. PIPE_NAME_SIZE + BOX_NAME_SIZE + 2 /\ i # 0
    BY <1>1
  <2>2. CASE i \in {1, PIPE_NAME_SIZE + 2}
    BY <2>1, <2>2, <1>1 DEF Separated
  <2>3. CASE i \notin {1, PIPE_NAME_SIZE + 2}
    BY <2>1, <2>3, <1>1 DEF Separated
  <2> QED BY <2>2, <2>3
<1> QED BY <1>2, <1>3

\* What atoi makes of one byte is a digit.
LEMMA OpCodeRange == \A byte : Atoi(byte) \in 0 .. 9
BY DEF Atoi

\* The subscriber's first byte is the number two and not its digit, and the
\* broker takes the frame for none it knows (sub.c:40, 56, mbroker.c:309).
THEOREM SubscriberHasNoCode ==
    ASSUME NEW path \in Seq(Char), NEW box \in Seq(Char)
    PROVE  OpCode(Separated(ByteTwo, path, box)) = 0
<1>1. PIPE_NAME_SIZE \in Nat \ {0} /\ BOX_NAME_SIZE \in Nat \ {0}
  BY SizesAssumption
<1>2. Separated(ByteTwo, path, box)[0] = ByteTwo
  BY <1>1 DEF Separated
<1>3. \A d \in 1 .. 9 : Digit[d] # ByteTwo
  BY DEF Digit, ByteTwo
<1> QED BY <1>2, <1>3 DEF OpCode, Atoi

=============================================================================
