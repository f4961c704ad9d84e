------------------------ MODULE TecnicoFSRefinement -------------------------
(***************************************************************************)
(* When callers spare open files, the file system of fs/state.c and        *)
(* fs/operations.c implements the abstract one: named sequences of bytes,  *)
(* with handles.  The argument goes through the pictures below, which give *)
(* files and handles as functions of the variables: one picture is taken   *)
(* before a step and one after it.                                         *)
(***************************************************************************)
EXTENDS TecnicoFSProofs

(* The abstract state as a picture of the variables *)

LiveIn(d) == {e \in Entries : d[e].d_inumber # None}
NamesIn(d) == {d[e].d_name : e \in LiveIn(d)}
LookupIn(d, n) == d[Min({e \in LiveIn(d) : d[e].d_name = n})].d_inumber
NameIn(d, i) == d[CHOOSE e \in LiveIn(d) : d[e].d_inumber = i].d_name

BytesIn(b, a, n) ==
    [k \in 1 .. n |-> IF a + k - 1 \in Addresses THEN b[a + k - 1] ELSE Unwritten]
FileIn(t, b, i) == BytesIn(b, t[i].i_data_block * BlockSize, t[i].i_size)

FilesIn(d, t, b) == [n \in NamesIn(d) |-> FileIn(t, b, LookupIn(d, n))]
HandleIn(d, entry) ==
    IF entry # Closed
    THEN [name |-> NameIn(d, entry.of_inumber), offset |-> entry.of_offset]
    ELSE Closed
HandlesIn(d, o) == [h \in Handles |-> HandleIn(d, o[h])]

\* The pictures before and after a step.
LEMMA Pictures ==
    /\ FilesOf = FilesIn(dir, inode_table, fs_data)
    /\ FilesOf' = FilesIn(dir', inode_table', fs_data')
    /\ HandlesOf = HandlesIn(dir, open_file_table)
    /\ HandlesOf' = HandlesIn(dir', open_file_table')
<1>1. FilesOf = FilesIn(dir, inode_table, fs_data)
  BY DEF FilesOf, FilesIn, FileIn, BytesIn, LookupIn, NamesIn, LiveIn,
         Contents, Lookup, LiveNamed, Live, Stored, Block, Size
<1>2. FilesOf' = FilesIn(dir', inode_table', fs_data')
  BY DEF FilesOf, FilesIn, FileIn, BytesIn, LookupIn, NamesIn, LiveIn,
         Contents, Lookup, LiveNamed, Live, Stored, Block, Size
<1>3. HandlesOf = HandlesIn(dir, open_file_table)
  BY DEF HandlesOf, HandlesIn, HandleIn, NameIn, LiveIn, NameOf, Live,
         IsOpen, File, Offset
<1>4. HandlesOf' = HandlesIn(dir', open_file_table')
  BY DEF HandlesOf, HandlesIn, HandleIn, NameIn, LiveIn, NameOf, Live,
         IsOpen, File, Offset
<1> QED BY <1>1, <1>2, <1>3, <1>4

\* A directory whose entries name the files of F, each once.
Names1to1(d, F) ==
    /\ \A e \in LiveIn(d) : d[e].d_name \in Names /\ d[e].d_inumber \in F
    /\ \A e, f \in LiveIn(d) : e # f => /\ d[e].d_name # d[f].d_name
                                        /\ d[e].d_inumber # d[f].d_inumber
    /\ \A i \in F : \E e \in LiveIn(d) : d[e].d_inumber = i

\* In such a directory an entry's name and its file lead to each other.
LEMMA EntryIs ==
    ASSUME NEW d, NEW F, Names1to1(d, F), NEW e \in LiveIn(d)
    PROVE  /\ LookupIn(d, d[e].d_name) = d[e].d_inumber
           /\ NameIn(d, d[e].d_inumber) = d[e].d_name
           /\ d[e].d_name \in NamesIn(d)
<1> DEFINE S == {x \in LiveIn(d) : d[x].d_name = d[e].d_name}
<1>1. S \in SUBSET Nat /\ S # {}
  BY Numbering DEF LiveIn
<1>2. Min(S) \in S
  BY <1>1, MinInSet
<1>3. Min(S) = e
  BY <1>2 DEF Names1to1
<1>4. LookupIn(d, d[e].d_name) = d[e].d_inumber
  BY <1>3 DEF LookupIn
<1> DEFINE c == CHOOSE x \in LiveIn(d) : d[x].d_inumber = d[e].d_inumber
<1>5. c \in LiveIn(d) /\ d[c].d_inumber = d[e].d_inumber
  OBVIOUS
<1>6. NameIn(d, d[e].d_inumber) = d[c].d_name
  BY DEF NameIn
<1> HIDE DEF c
<1>7. c = e
  BY <1>5 DEF Names1to1
<1> QED BY <1>4, <1>6, <1>7 DEF NamesIn

\* So do the names and the files of the whole.
LEMMA BothWays ==
    ASSUME NEW d, NEW F, Names1to1(d, F)
    PROVE  /\ \A n \in NamesIn(d) : /\ n \in Names /\ LookupIn(d, n) \in F
                                    /\ NameIn(d, LookupIn(d, n)) = n
           /\ \A i \in F : /\ NameIn(d, i) \in NamesIn(d)
                           /\ LookupIn(d, NameIn(d, i)) = i
<1>1. \A e \in LiveIn(d) : /\ LookupIn(d, d[e].d_name) = d[e].d_inumber
                           /\ NameIn(d, d[e].d_inumber) = d[e].d_name
                           /\ d[e].d_name \in NamesIn(d)
  BY EntryIs
<1>2. ASSUME NEW n \in NamesIn(d)
      PROVE  n \in Names /\ LookupIn(d, n) \in F /\ NameIn(d, LookupIn(d, n)) = n
  <2>1. PICK e \in LiveIn(d) : n = d[e].d_name
    BY DEF NamesIn
  <2> QED BY <1>1, <2>1 DEF Names1to1
<1>3. ASSUME NEW i \in F
      PROVE  NameIn(d, i) \in NamesIn(d) /\ LookupIn(d, NameIn(d, i)) = i
  <2>1. PICK e \in LiveIn(d) : d[e].d_inumber = i
    BY DEF Names1to1
  <2> QED BY <1>1, <2>1
<1> QED BY <1>2, <1>3

\* The directory of the file system is one, before and after a step.
LEMMA DirectoryIs ==
    /\ DirectoryConsistent => Names1to1(dir, FileInodes)
    /\ DirectoryConsistent' => Names1to1(dir', FileInodes')
<1>1. DirectoryConsistent => Names1to1(dir, FileInodes)
  BY DEF DirectoryConsistent, Names1to1, LiveIn, Live
<1>2. DirectoryConsistent' => Names1to1(dir', FileInodes')
  BY DEF DirectoryConsistent, Names1to1, LiveIn, Live
<1> QED BY <1>1, <1>2

LEMMA FoundIs == \A n : (Found(n) <=> n \in NamesIn(dir)) /\ Lookup(n) = LookupIn(dir, n)
BY DEF Found, LiveNamed, Live, NamesIn, LiveIn, Lookup, LookupIn

-----------------------------------------------------------------------------
(* Bytes *)

Stuff == Bytes \cup {Unwritten}

\* A stretch of memory is a sequence of bytes.
LEMMA BytesAre ==
    ASSUME NEW b \in [Addresses -> Stuff], NEW a \in Int, NEW n \in Nat
    PROVE  /\ BytesIn(b, a, n) \in Seq(Stuff) /\ Len(BytesIn(b, a, n)) = n
           /\ \A k \in 1 .. n : BytesIn(b, a, n)[k] =
                 IF a + k - 1 \in Addresses THEN b[a + k - 1] ELSE Unwritten
<1>1. BytesIn(b, a, n) \in [1 .. n -> Stuff]
  BY DEF BytesIn, Stuff
<1>2. BytesIn(b, a, n) \in Seq(Stuff) /\ Len(BytesIn(b, a, n)) = n
  BY <1>1
<1>3. \A k \in 1 .. n : BytesIn(b, a, n)[k] =
         IF a + k - 1 \in Addresses THEN b[a + k - 1] ELSE Unwritten
  BY DEF BytesIn
<1> QED BY <1>2, <1>3

\* Part of a stretch of memory is part of the sequence.
LEMMA PartOfBytes ==
    ASSUME NEW b \in [Addresses -> Stuff], NEW a \in Int, NEW m \in Nat,
           NEW from \in Nat, NEW n \in Nat, from + n <= m
    PROVE  BytesIn(b, a + from, n) = SubSeq(BytesIn(b, a, m), from + 1, from + n)
<1> DEFINE whole == BytesIn(b, a, m)
           part == BytesIn(b, a + from, n)
           sub == SubSeq(whole, from + 1, from + n)
<1>1. /\ whole \in Seq(Stuff) /\ Len(whole) = m
      /\ \A k \in 1 .. m : whole[k] =
            IF a + k - 1 \in Addresses THEN b[a + k - 1] ELSE Unwritten
  BY BytesAre
<1>2. a + from \in Int
  OBVIOUS
<1>3. /\ part \in Seq(Stuff) /\ Len(part) = n
      /\ \A k \in 1 .. n : part[k] =
            IF (a + from) + k - 1 \in Addresses
            THEN b[(a + from) + k - 1] ELSE Unwritten
  BY <1>2, BytesAre
<1> HIDE DEF whole, part
<1>4. \A k \in from + 1 .. from + n : whole[k] \in Stuff
  <2> TAKE k \in from + 1 .. from + n
  <2>1. k \in 1 .. Len(whole)
    BY <1>1
  <2> QED BY <1>1, <2>1, ElementOfSeq
<1>5. /\ sub \in Seq(Stuff)
      /\ Len(sub) = IF from + 1 <= from + n THEN (from + n) - (from + 1) + 1 ELSE 0
      /\ \A k \in 1 .. (from + n) - (from + 1) + 1 :
            sub[k] = whole[(from + 1) + k - 1]
  <2>1. from + 1 \in Int /\ from + n \in Int
    OBVIOUS
  <2> QED BY <1>4, <2>1, SubSeqProperties
<1> HIDE DEF sub
<1>6. Len(sub) = n /\ (from + n) - (from + 1) + 1 = n
  BY <1>5
<1>7. ASSUME NEW k \in 1 .. n
      PROVE  part[k] = sub[k]
  <2>1. k \in 1 .. (from + n) - (from + 1) + 1 /\ (from + 1) + k - 1 = from + k
        /\ from + k \in 1 .. m /\ a + (from + k) - 1 = (a + from) + k - 1
    OBVIOUS
  <2>2. sub[k] = whole[from + k]
    BY <1>5, <2>1
  <2>3. whole[from + k] =
           IF a + (from + k) - 1 \in Addresses
           THEN b[a + (from + k) - 1] ELSE Unwritten
    BY <1>1, <2>1
  <2> QED BY <1>3, <2>1, <2>2, <2>3
<1> QED BY <1>3, <1>5, <1>6, <1>7, SeqEqual DEF whole, part, sub

\* The elements of s after from, up to to, replaced by d.
Splice(s, from, d, to) == SubSeq(s, 1, from) \o d \o SubSeq(s, to + 1, Len(s))

LEMMA Replaced ==
    ASSUME NEW S, NEW s \in Seq(S), NEW d \in Seq(S),
           NEW from \in 0 .. Len(s), NEW to \in Nat, to = from + Len(d)
    PROVE  /\ Splice(s, from, d, to) \in Seq(S)
           /\ Len(Splice(s, from, d, to)) = IF to >= Len(s) THEN to ELSE Len(s)
           /\ \A k \in 1 .. Len(Splice(s, from, d, to)) :
                 Splice(s, from, d, to)[k] =
                    IF k <= from THEN s[k]
                    ELSE IF k <= to THEN d[k - from] ELSE s[k]
<1> DEFINE m == Len(s)
           x == SubSeq(s, 1, from)
           z == SubSeq(s, to + 1, m)
           y == x \o d
           r == y \o z
<1>1. m \in Nat /\ Len(d) \in Nat /\ from \in Nat
  OBVIOUS
<1>e. \A k \in 1 .. m : s[k] \in S
  BY ElementOfSeq
<1>2. /\ x \in Seq(S)
      /\ Len(x) = IF 1 <= from THEN from - 1 + 1 ELSE 0
      /\ \A k \in 1 .. from - 1 + 1 : x[k] = s[1 + k - 1]
  <2>1. \A k \in 1 .. from : s[k] \in S
    BY <1>1, <1>e
  <2> QED BY <1>1, <2>1, SubSeqProperties
<1>3. /\ z \in Seq(S)
      /\ Len(z) = IF to + 1 <= m THEN m - (to + 1) + 1 ELSE 0
      /\ \A k \in 1 .. m - (to + 1) + 1 : z[k] = s[(to + 1) + k - 1]
  <2>1. \A k \in to + 1 .. m : s[k] \in S
    BY <1>1, <1>e
  <2>2. to + 1 \in Int /\ m \in Int
    BY <1>1
  <2> QED BY <2>1, <2>2, SubSeqProperties
<1> HIDE DEF x, z, m
<1>4. /\ Len(x) = from
      /\ \A k \in 1 .. from : x[k] = s[k]
  <2>1. \A k \in 1 .. from : k \in 1 .. from - 1 + 1 /\ 1 + k - 1 = k
    BY <1>1
  <2> QED BY <1>1, <1>2, <2>1
<1>5. /\ Len(z) = IF to >= m THEN 0 ELSE m - to
      /\ \A k \in 1 .. m - to : z[k] = s[to + k]
  <2>1. \A k \in 1 .. m - to : k \in 1 .. m - (to + 1) + 1 /\ (to + 1) + k - 1 = to + k
    BY <1>1
  <2> QED BY <1>1, <1>3, <2>1
<1>6. /\ y \in Seq(S) /\ Len(y) = Len(x) + Len(d)
      /\ \A k \in 1 .. Len(x) + Len(d) :
            y[k] = IF k <= Len(x) THEN x[k] ELSE d[k - Len(x)]
  BY <1>2, ConcatProperties
<1> HIDE DEF y
<1>7. /\ r \in Seq(S) /\ Len(r) = Len(y) + Len(z)
      /\ \A k \in 1 .. Len(y) + Len(z) :
            r[k] = IF k <= Len(y) THEN y[k] ELSE z[k - Len(y)]
  <2>1. y \in Seq(S) /\ z \in Seq(S)
    BY <1>3, <1>6
  <2> QED BY ONLY <2>1, ConcatProperties
<1> HIDE DEF r
<1>8. Len(y) = to /\ Len(r) = (IF to >= m THEN to ELSE m)
  <2>1. Len(y) = to
    BY <1>1, <1>4, <1>6
  <2>2. Len(r) = to + Len(z)
    BY <1>7, <2>1
  <2>3. Len(z) = IF to >= m THEN 0 ELSE m - to
    BY <1>5
  <2>4. m \in Int /\ to \in Int
    BY <1>1
  <2>5. CASE to >= m
    BY ONLY <2>1, <2>2, <2>3, <2>4, <2>5
  <2>6. CASE ~(to >= m)
    BY ONLY <2>1, <2>2, <2>3, <2>4, <2>6
  <2> QED BY ONLY <2>5, <2>6
<1>9. ASSUME NEW k \in 1 .. Len(r)
      PROVE  r[k] = IF k <= from THEN s[k]
                    ELSE IF k <= to THEN d[k - from] ELSE s[k]
  <2>0. k \in 1 .. Len(y) + Len(z)
    BY <1>7
  <2>1. CASE k <= from
    <3>1. k \in 1 .. from /\ k \in 1 .. Len(x) + Len(d) /\ k <= Len(y) /\ k <= Len(x)
      BY <1>1, <1>4, <1>8, <2>1
    <3>2. r[k] = y[k] /\ y[k] = x[k] /\ x[k] = s[k]
      BY <1>4, <1>6, <1>7, <2>0, <3>1
    <3> QED BY <2>1, <3>2
  <2>2. CASE ~(k <= from) /\ k <= to
    <3>1. k \in 1 .. Len(x) + Len(d) /\ k <= Len(y) /\ ~(k <= Len(x))
      BY <1>1, <1>4, <1>8, <2>2
    <3>2. r[k] = y[k] /\ y[k] = d[k - Len(x)]
      BY <1>6, <1>7, <2>0, <3>1
    <3> QED BY <1>4, <2>2, <3>2
  <2>3. CASE ~(k <= from) /\ ~(k <= to)
    <3>1. ~(k <= Len(y)) /\ k - to \in 1 .. m - to /\ to + (k - to) = k
      BY <1>1, <1>8, <2>3
    <3>2. r[k] = z[k - Len(y)]
      BY <1>7, <2>0, <3>1
    <3>3. z[k - to] = s[to + (k - to)]
      BY <1>5, <3>1
    <3> QED BY <1>8, <2>3, <3>1, <3>2, <3>3
  <2> QED BY <2>1, <2>2, <2>3
<1>10. r = Splice(s, from, d, to)
  BY DEF Splice, r, y, x, z, m
<1> QED BY <1>7, <1>8, <1>9, <1>10 DEF m

-----------------------------------------------------------------------------
(* Handles *)

Steady == FsInv /\ Coordinated

\* What the invariant says of a handle in use.
LEMMA HeldFile ==
    ASSUME Steady, NEW h \in Handles, IsOpen(h)
    PROVE  /\ File(h) \in FileInodes /\ Offset(h) \in Nat
           /\ Offset(h) <= Size(File(h)) /\ Size(File(h)) \in 0 .. BlockSize
           /\ Block(File(h)) \in Int
           /\ NameIn(dir, File(h)) \in Names
<1>1. File(h) \in FileInodes /\ Offset(h) \in 0 .. Size(File(h))
  BY DEF Steady, Coordinated, OffsetsWithinFile
<1>2. /\ Offset(h) \in 0 .. MaxOffset /\ Size(File(h)) \in 0 .. BlockSize
      /\ Block(File(h)) \in Blocks \cup {None}
  BY HandleInUse DEF Steady, FsInv, TypeAndRoot
<1>3. Blocks \in SUBSET Nat /\ None \in Int
  BY Numbering DEF None
<1>4. Names1to1(dir, FileInodes)
  BY DirectoryIs DEF Steady, FsInv, DirInv
<1>5. NameIn(dir, File(h)) \in Names
  BY <1>1, <1>4, BothWays
<1>6. /\ Offset(h) \in Nat /\ Offset(h) <= Size(File(h))
      /\ Size(File(h)) \in 0 .. BlockSize
  <2>1. BlockSize \in Nat
    BY Numbering
  <2> QED BY ONLY <1>1, <1>2, <2>1
<1>7. Block(File(h)) \in Int
  <2>1. PICK b : b = Block(File(h))
    OBVIOUS
  <2>2. b \in Blocks \cup {None}
    BY <1>2, <2>1
  <2>3. b \in Int
    BY ONLY <1>3, <2>2
  <2> QED BY <2>1, <2>3
<1> QED BY <1>1, <1>5, <1>6, <1>7

\* A handle in use stands in the picture with its name and its offset.
LEMMA HandleShown ==
    ASSUME Steady, NEW h \in Handles
    PROVE  /\ ~IsOpen(h) => HandlesOf[h] = Closed
           /\ IsOpen(h) =>
                 /\ HandlesOf[h] = [name |-> NameIn(dir, File(h)),
                                    offset |-> Offset(h)]
                 /\ HandlesOf[h] # Closed
<1>1. HandlesOf[h] = HandleIn(dir, open_file_table[h])
  BY Pictures DEF HandlesIn
<1>2. ASSUME IsOpen(h)
      PROVE  HandlesOf[h] = [name |-> NameIn(dir, File(h)), offset |-> Offset(h)]
  BY <1>1, <1>2 DEF HandleIn, IsOpen, File, Offset
<1>3. ASSUME IsOpen(h)
      PROVE  [name |-> NameIn(dir, File(h)), offset |-> Offset(h)] # Closed
  <2>1. NameIn(dir, File(h)) \in Names /\ Offset(h) \in Nat
    BY <1>3, HeldFile
  <2> QED BY <2>1, ParamsAssumption
<1>4. ~IsOpen(h) => HandlesOf[h] = Closed
  BY <1>1 DEF HandleIn, IsOpen
<1> QED BY <1>2, <1>3, <1>4

\* The handles on a name of the picture are the handles on the file it names,
LEMMA HeldHere ==
    ASSUME Steady, NEW i \in FileInodes, NEW h \in Handles
    PROVE  (HandlesOf[h] # Closed /\ HandlesOf[h].name = NameIn(dir, i))
              <=> (IsOpen(h) /\ File(h) = i)
<1>1. Names1to1(dir, FileInodes)
  BY DirectoryIs DEF Steady, FsInv, DirInv
<1>2. CASE IsOpen(h)
  <2>1. /\ HandlesOf[h] = [name |-> NameIn(dir, File(h)), offset |-> Offset(h)]
        /\ HandlesOf[h] # Closed
    BY <1>2, HandleShown
  <2>2. HandlesOf[h] # Closed /\ HandlesOf[h].name = NameIn(dir, File(h))
    BY <2>1
  <2>3. File(h) \in FileInodes
    BY <1>2, HeldFile
  <2>4. NameIn(dir, File(h)) = NameIn(dir, i) => File(h) = i
    BY <1>1, <2>3, BothWays
  <2> QED BY <1>2, <2>2, <2>4
<1>3. CASE ~IsOpen(h)
  BY <1>3, HandleShown
<1> QED BY <1>2, <1>3

\* so the file a handle holds is held in the abstract file system, and no other.
LEMMA HeldIs ==
    ASSUME Steady, NEW i \in FileInodes
    PROVE  Abstract!IsHeld(NameIn(dir, i)) <=>
              \E h \in Handles : IsOpen(h) /\ File(h) = i
BY HeldHere DEF Abstract!IsHeld

\* A step that leaves the table and the names alone leaves the handles alone.
LEMMA HandlesStay ==
    ASSUME Steady, open_file_table' = open_file_table,
           \A h \in Handles : IsOpen(h) => NameIn(dir', File(h)) = NameIn(dir, File(h))
    PROVE  HandlesOf' = HandlesOf
<1>1. ASSUME NEW h \in Handles
      PROVE  HandleIn(dir', open_file_table[h]) = HandleIn(dir, open_file_table[h])
  <2>1. CASE open_file_table[h] # Closed
    BY <2>1 DEF HandleIn, IsOpen, File
  <2>2. CASE open_file_table[h] = Closed
    BY <2>2 DEF HandleIn
  <2> QED BY <2>1, <2>2
<1>2. HandlesIn(dir', open_file_table) = HandlesIn(dir, open_file_table)
  BY <1>1 DEF HandlesIn
<1> QED BY <1>2, Pictures

\* A step that changes the table at one handle changes the picture there.
LEMMA OneHandle ==
    ASSUME Steady, NEW h \in Handles, NEW entry,
           open_file_table' = [open_file_table EXCEPT ![h] = entry],
           \A i \in FileInodes : NameIn(dir', i) = NameIn(dir, i)
    PROVE  HandlesOf' = [HandlesOf EXCEPT ![h] = HandleIn(dir', entry)]
<1>t. DOMAIN open_file_table = Handles
  BY DEF Steady, FsInv, TypeOK
<1>0. /\ \A g \in Handles \ {h} : open_file_table'[g] = open_file_table[g]
      /\ open_file_table'[h] = entry
  BY <1>t
<1>1. ASSUME NEW g \in Handles \ {h}
      PROVE  HandleIn(dir', open_file_table[g]) = HandleIn(dir, open_file_table[g])
  <2>1. CASE open_file_table[g] # Closed
    <3>1. open_file_table[g].of_inumber \in FileInodes
      BY <2>1, HeldFile DEF IsOpen, File
    <3> QED BY <3>1 DEF HandleIn
  <2>2. CASE open_file_table[g] = Closed
    BY <2>2 DEF HandleIn
  <2> QED BY <2>1, <2>2
<1>2. HandlesIn(dir', open_file_table') =
         [HandlesIn(dir, open_file_table) EXCEPT ![h] = HandleIn(dir', entry)]
  <2>1. \A g \in Handles :
           HandleIn(dir', open_file_table'[g]) =
              IF g = h THEN HandleIn(dir', entry)
                       ELSE HandleIn(dir, open_file_table[g])
    BY <1>0, <1>1
  <2> QED BY ONLY <2>1, h \in Handles DEF HandlesIn
<1> QED BY <1>2, Pictures

\* An open hands out the lowest handle not in use, if there is one.
LEMMA HandGiven ==
    ASSUME Steady, NEW i \in Inodes, NEW n, NEW k \in Nat,
           AddToOpenFileTable(i, k), NameIn(dir', i) = n,
           \A j \in FileInodes : NameIn(dir', j) = NameIn(dir, j)
    PROVE  Abstract!Hand(n, k)
<1> DEFINE free == {h \in Handles : ~IsOpen(h)}
           entry == [of_inumber |-> i, of_offset |-> k]
<1>1. CASE free = {}
  <2>1. open_file_table' = open_file_table
    BY <1>1 DEF AddToOpenFileTable
  <2>2. HandlesOf' = HandlesOf
    <3>1. \A h \in Handles : IsOpen(h) => NameIn(dir', File(h)) = NameIn(dir, File(h))
      BY HeldFile
    <3> QED BY <2>1, <3>1, HandlesStay
  <2>3. \A h \in Handles : HandlesOf[h] # Closed
    BY <1>1, HandleShown
  <2> QED BY <2>2, <2>3 DEF Abstract!Hand
<1>2. CASE free # {}
  <2>1. free \in SUBSET Nat
    BY Numbering
  <2>2. PICK h \in free : h = Min(free)
    BY <1>2, <2>1, MinInSet
  <2>3. open_file_table' = [open_file_table EXCEPT ![h] = entry]
    BY <1>2, <2>2 DEF AddToOpenFileTable
  <2>4. HandlesOf' = [HandlesOf EXCEPT ![h] = HandleIn(dir', entry)]
    BY <2>3, OneHandle
  <2>5. entry # Closed
    BY OpenIsNotClosed
  <2>6. HandleIn(dir', entry) = [name |-> n, offset |-> k]
    BY <2>5 DEF HandleIn
  <2>7. h \in Handles /\ HandlesOf[h] = Closed
    BY <2>2, HandleShown
  <2> QED BY <2>4, <2>6, <2>7 DEF Abstract!Hand
<1> QED BY <1>1, <1>2

\* A read or a write moves its own handle on.
LEMMA HandleMoved ==
    ASSUME Steady, NEW h \in Handles, IsOpen(h), NEW n \in Nat, dir' = dir,
           open_file_table' = [open_file_table EXCEPT ![h].of_offset = @ + n]
    PROVE  HandlesOf' = [HandlesOf EXCEPT ![h].offset = Offset(h) + n]
<1>1. PICK r : r = open_file_table[h]
  OBVIOUS
<1>2. r # Closed /\ r \in OpenFileType
  BY <1>1 DEF IsOpen, Steady, FsInv, TypeOK
<1>3. [r EXCEPT !.of_offset = r.of_offset + n] =
         [of_inumber |-> r.of_inumber, of_offset |-> r.of_offset + n]
  BY <1>2 DEF OpenFileType
<1> DEFINE entry == [of_inumber |-> r.of_inumber, of_offset |-> r.of_offset + n]
<1>4. open_file_table' = [open_file_table EXCEPT ![h] = entry]
  BY <1>1, <1>3
<1>5. HandlesOf' = [HandlesOf EXCEPT ![h] = HandleIn(dir', entry)]
  BY <1>4, OneHandle
<1>6. r.of_inumber \in Inodes /\ r.of_offset + n \in Nat
  <2>1. r.of_offset \in 0 .. MaxOffset /\ r.of_inumber \in Inodes
    BY <1>2 DEF OpenFileType
  <2> QED BY <2>1
<1>7. entry # Closed
  BY <1>6, OpenIsNotClosed
<1>8. HandleIn(dir', entry) = [name |-> NameIn(dir, File(h)), offset |-> Offset(h) + n]
  BY <1>1, <1>7 DEF HandleIn, File, Offset
<1>9. HandlesOf[h] = [name |-> NameIn(dir, File(h)), offset |-> Offset(h)]
  BY HandleShown
<1>10. [HandlesOf[h] EXCEPT !.offset = Offset(h) + n] =
          [name |-> NameIn(dir, File(h)), offset |-> Offset(h) + n]
  BY <1>9
<1> QED BY <1>5, <1>8, <1>10

-----------------------------------------------------------------------------
(* Files *)

\* The picture of the files, in a directory that names each of them once.
LEMMA FilesAre ==
    ASSUME NEW d, NEW F, Names1to1(d, F), NEW t, NEW b
    PROVE  /\ DOMAIN FilesIn(d, t, b) = NamesIn(d)
           /\ \A i \in F : FilesIn(d, t, b)[NameIn(d, i)] = FileIn(t, b, i)
           /\ \A n \in NamesIn(d) : FilesIn(d, t, b)[n] = FileIn(t, b, LookupIn(d, n))
<1>1. \A i \in F : NameIn(d, i) \in NamesIn(d) /\ LookupIn(d, NameIn(d, i)) = i
  BY BothWays
<1> QED BY <1>1 DEF FilesIn

\* If every file keeps its bytes the picture stays.
LEMMA FilesStay ==
    ASSUME Steady, UNCHANGED dir,
           \A j \in FileInodes : FileIn(inode_table', fs_data', j)
                                    = FileIn(inode_table, fs_data, j)
    PROVE  FilesOf' = FilesOf
<1>1. Names1to1(dir, FileInodes)
  BY DirectoryIs DEF Steady, FsInv, DirInv
<1>2. \A n \in NamesIn(dir) : LookupIn(dir, n) \in FileInodes
  BY <1>1, BothWays
<1>3. FilesIn(dir, inode_table', fs_data') = FilesIn(dir, inode_table, fs_data)
  BY <1>2 DEF FilesIn
<1> QED BY <1>3, Pictures

\* If one file changes the picture changes at its name.
LEMMA OneFile ==
    ASSUME Steady, UNCHANGED dir, NEW i \in FileInodes,
           \A j \in FileInodes \ {i} : FileIn(inode_table', fs_data', j)
                                          = FileIn(inode_table, fs_data, j)
    PROVE  FilesOf' = [FilesOf EXCEPT ![NameIn(dir, i)] =
                          FileIn(inode_table', fs_data', i)]
<1>1. Names1to1(dir, FileInodes)
  BY DirectoryIs DEF Steady, FsInv, DirInv
<1> DEFINE new == FileIn(inode_table', fs_data', i)
           m == NameIn(dir, i)
<1>2. ASSUME NEW n \in NamesIn(dir)
      PROVE  FileIn(inode_table', fs_data', LookupIn(dir, n)) =
                IF n = m THEN new ELSE FileIn(inode_table, fs_data, LookupIn(dir, n))
  <2>1. /\ LookupIn(dir, n) \in FileInodes /\ NameIn(dir, LookupIn(dir, n)) = n
        /\ LookupIn(dir, m) = i
    BY <1>1, BothWays
  <2>2. CASE n = m
    BY <2>1, <2>2
  <2>3. CASE n # m
    <3>1. LookupIn(dir, n) \in FileInodes \ {i}
      BY <2>1, <2>3
    <3> QED BY <2>3, <3>1
  <2> QED BY <2>2, <2>3
<1> HIDE DEF new, m
<1>3. FilesIn(dir, inode_table', fs_data') =
         [FilesIn(dir, inode_table, fs_data) EXCEPT ![m] = new]
  BY <1>2 DEF FilesIn
<1> QED BY <1>3, Pictures DEF new, m

\* The length of a file is its inode's size, and its bytes are bytes.
LEMMA FileIs ==
    ASSUME Steady, NEW i \in FileInodes
    PROVE  /\ FileIn(inode_table, fs_data, i) \in Seq(Stuff)
           /\ Len(FileIn(inode_table, fs_data, i)) = Size(i)
           /\ Size(i) \in 0 .. BlockSize
           /\ NameIn(dir, i) \in DOMAIN FilesOf /\ NameIn(dir, i) \in Names
           /\ FilesOf[NameIn(dir, i)] = FileIn(inode_table, fs_data, i)
<1>1. Names1to1(dir, FileInodes)
  BY DirectoryIs DEF Steady, FsInv, DirInv
<1>2. /\ NameIn(dir, i) \in DOMAIN FilesOf /\ NameIn(dir, i) \in Names
      /\ FilesOf[NameIn(dir, i)] = FileIn(inode_table, fs_data, i)
  <2>1. NameIn(dir, i) \in NamesIn(dir) /\ NameIn(dir, i) \in Names
    BY <1>1, BothWays
  <2> QED BY <1>1, <2>1, FilesAre, Pictures
<1>3. Size(i) \in 0 .. BlockSize /\ Block(i) \in Blocks \cup {None}
  BY SizeTyped DEF Steady, FsInv, FileInodes
<1>4. Size(i) \in Nat /\ Block(i) * BlockSize \in Int
  <2>1. PICK s, b : s = Size(i) /\ b = Block(i)
    OBVIOUS
  <2>2. s \in 0 .. BlockSize /\ b \in Blocks \cup {None}
    BY <1>3, <2>1
  <2>3. Blocks \in SUBSET Nat /\ None \in Int /\ BlockSize \in Nat
    BY Numbering DEF None
  <2>4. b \in Int /\ s \in Nat
    BY ONLY <2>2, <2>3
  <2>5. b * BlockSize \in Int
    BY ONLY <2>3, <2>4
  <2> QED BY <2>1, <2>4, <2>5
<1>5. fs_data \in [Addresses -> Stuff]
  BY DEF Steady, FsInv, TypeOK, Stuff
<1>6. FileIn(inode_table, fs_data, i) = BytesIn(fs_data, Block(i) * BlockSize, Size(i))
  BY DEF FileIn, Block, Size
<1>7. /\ BytesIn(fs_data, Block(i) * BlockSize, Size(i)) \in Seq(Stuff)
      /\ Len(BytesIn(fs_data, Block(i) * BlockSize, Size(i))) = Size(i)
  BY <1>4, <1>5, BytesAre
<1> QED BY <1>2, <1>3, <1>6, <1>7

\* A file of size 0 is the empty sequence.
LEMMA EmptyFile ==
    ASSUME NEW t, NEW b, NEW i, t[i].i_size = 0
    PROVE  FileIn(t, b, i) = <<>>
<1>1. FileIn(t, b, i) = [k \in 1 .. 0 |-> IF t[i].i_data_block * BlockSize + k - 1 \in Addresses
                    THEN b[t[i].i_data_block * BlockSize + k - 1] ELSE Unwritten]
  BY DEF FileIn, BytesIn
<1>2. 1 .. 0 = {}
  OBVIOUS
<1> QED BY <1>1, <1>2

-----------------------------------------------------------------------------
(* Each call that succeeds is a step of the abstract file system *)

\* An entry that stays keeps its name and its file together.
LEMMA EntryKept ==
    ASSUME NEW d, NEW F, Names1to1(d, F), NEW x, NEW G, Names1to1(x, G),
           NEW e \in LiveIn(d), e \in LiveIn(x), x[e] = d[e]
    PROVE  /\ LookupIn(x, d[e].d_name) = LookupIn(d, d[e].d_name)
           /\ NameIn(x, d[e].d_inumber) = NameIn(d, d[e].d_inumber)
BY EntryIs

\* A name that is found, and its file.
LEMMA FoundFile ==
    ASSUME Steady, NEW n, Found(n)
    PROVE  /\ Lookup(n) \in FileInodes /\ NameIn(dir, Lookup(n)) = n
           /\ n \in DOMAIN FilesOf
           /\ FilesOf[n] = FileIn(inode_table, fs_data, Lookup(n))
<1>1. Names1to1(dir, FileInodes)
  BY DirectoryIs DEF Steady, FsInv, DirInv
<1>2. n \in NamesIn(dir) /\ Lookup(n) = LookupIn(dir, n)
  BY FoundIs
<1>3. Lookup(n) \in FileInodes /\ NameIn(dir, Lookup(n)) = n
  BY <1>1, <1>2, BothWays
<1> QED BY <1>3, FileIs

LEMMA CloseRefines ==
    ASSUME Steady, NEW h \in Handles, Close(h)
    PROVE  Abstract!AClose(h)
<1>1. HandlesOf' = [HandlesOf EXCEPT ![h] = HandleIn(dir', Closed)]
  BY OneHandle DEF Close
<1>2. HandleIn(dir', Closed) = Closed
  BY DEF HandleIn
<1>3. FilesOf' = FilesOf
  BY FilesStay DEF Close
<1>4. HandlesOf[h] # Closed
  BY HandleShown DEF Close
<1> QED BY <1>1, <1>2, <1>3, <1>4 DEF Close, Abstract!AClose

\* How much a read delivers: nothing only at the end of the file.
LEMMA ReadsSomething ==
    ASSUME Steady, NEW h \in Handles, IsOpen(h), NEW len \in 1 .. MaxIO,
           ToRead(h, len) = 0
    PROVE  Offset(h) = Size(File(h))
<1>1. /\ Offset(h) \in Nat /\ Offset(h) <= Size(File(h))
      /\ Size(File(h)) \in 0 .. BlockSize
  BY HeldFile
<1>2. /\ BlockSize \in Nat /\ MaxOffset \in Nat /\ MaxIO \in Nat
      /\ BlockSize <= MaxOffset /\ WordSize \in Nat /\ BlockCount * BlockSize \in Nat
      /\ WordSize > MaxOffset + MaxIO + BlockCount * BlockSize
  <2>1. BlockCount * BlockSize \in Nat
    BY ParamsAssumption
  <2> QED BY <2>1, BoundsAssumption, ParamsAssumption
<1>3. PICK s, k : s = Size(File(h)) /\ k = Offset(h)
  OBVIOUS
<1>4. s \in Nat /\ k \in Nat /\ k <= s /\ s < WordSize /\ k < WordSize
  BY <1>1, <1>2, <1>3
<1>5. Minus(s, k) = s - k
  BY <1>4, MinusWraps
<1>6. len \in Nat /\ len > 0 /\ s - k \in Nat
  BY <1>2, <1>4
<1>7. Min({len, s - k}) = IF len <= s - k THEN len ELSE s - k
  BY <1>6, MinOfTwo
<1>8. Min({len, s - k}) = 0
  BY <1>3, <1>5 DEF ToRead
<1> QED BY <1>3, <1>4, <1>6, <1>7, <1>8

LEMMA ReadRefines ==
    ASSUME Steady, NEW h \in Handles, NEW len \in 1 .. MaxIO, Read(h, len), alive'
    PROVE  Abstract!ARead(h)
<1> DEFINE n == ToRead(h, len)
           i == File(h)
           file == FileIn(inode_table, fs_data, i)
<1>1. alive /\ IsOpen(h)
  BY DEF Read
<1>2. /\ got' = Stored(Block(i) * BlockSize + Offset(h), n)
      /\ open_file_table' = [open_file_table EXCEPT ![h].of_offset = @ + n]
      /\ UNCHANGED <<inode_table, fs_data, dir>>
  BY DEF Read, Abort
<1>3. n \in Nat /\ Offset(h) + n <= Size(i)
  BY <1>1, ReadInside, NonePastEnd DEF Steady, Coordinated
<1>4. /\ i \in FileInodes /\ Offset(h) \in Nat /\ Block(i) \in Int
      /\ Size(i) \in 0 .. BlockSize
  BY <1>1, HeldFile
<1>5. /\ HandlesOf[h] = [name |-> NameIn(dir, i), offset |-> Offset(h)]
      /\ HandlesOf[h] # Closed
  BY <1>1, HandleShown
<1>6. HandlesOf' = [HandlesOf EXCEPT ![h].offset = Offset(h) + n]
  BY <1>1, <1>2, <1>3, HandleMoved
<1>7. FilesOf' = FilesOf
  BY <1>2, FilesStay
<1>8. FilesOf[NameIn(dir, i)] = file /\ Len(file) = Size(i)
  BY <1>4, FileIs
<1>9. got' = SubSeq(file, Offset(h) + 1, Offset(h) + n)
  <2>1. PICK a : a = Block(i) * BlockSize
    OBVIOUS
  <2>2. a \in Int /\ Size(i) \in Nat
    <3>1. BlockSize \in Nat
      BY Numbering
    <3> QED BY <1>4, <2>1, <3>1
  <2>3. fs_data \in [Addresses -> Stuff]
    BY DEF Steady, FsInv, TypeOK, Stuff
  <2>4. BytesIn(fs_data, a + Offset(h), n)
           = SubSeq(BytesIn(fs_data, a, Size(i)), Offset(h) + 1, Offset(h) + n)
    BY <1>3, <1>4, <2>2, <2>3, PartOfBytes
  <2>5. got' = BytesIn(fs_data, a + Offset(h), n)
    BY <1>2, <2>1 DEF Stored, BytesIn
  <2>6. file = BytesIn(fs_data, a, Size(i))
    BY <2>1 DEF FileIn, Block, Size
  <2> QED BY <2>4, <2>5, <2>6
<1>10. n = 0 => Offset(h) = Size(i)
  BY <1>1, ReadsSomething
<1> DEFINE to == Offset(h) + n
<1>11. /\ to \in Offset(h) .. Len(file)
       /\ to = Offset(h) => Offset(h) = Len(file)
  BY <1>3, <1>4, <1>8, <1>10
<1>12. UNCHANGED FilesOf
  BY <1>7
<1>13. PICK record : record = HandlesOf[h]
  OBVIOUS
<1>14. record.name = NameIn(dir, i) /\ record.offset = Offset(h) /\ record # Closed
  BY <1>5, <1>13
<1> HIDE DEF n, i, file, to
<1> QED BY <1>6, <1>8, <1>9, <1>11, <1>12, <1>13, <1>14 DEF Abstract!ARead, to

LEMMA UnlinkRefines ==
    ASSUME Steady, Steady', SparesOpenFiles, NEW n \in Names, Unlink(n)
    PROVE  Abstract!ADelete(n)
<1>1. PICK e \in Live : /\ dir[e].d_name = n /\ Lookup(n) = dir[e].d_inumber
                        /\ dir' = [dir EXCEPT ![e] = EmptyEntry]
  BY ClearsLookedUp DEF Unlink, Steady, FsInv
<1>2. PICK i : i = Lookup(n)
  OBVIOUS
<1>3. /\ i \in FileInodes /\ NameIn(dir, i) = n /\ n \in DOMAIN FilesOf
      /\ i \in free_inodes'
  BY <1>2, FoundFile DEF Unlink
<1>4. \A h \in Handles : IsOpen(h) => File(h) # i
  BY <1>3 DEF SparesOpenFiles
<1>5. ~Abstract!IsHeld(n)
  BY <1>3, <1>4, HeldIs
<1>6. Names1to1(dir, FileInodes) /\ Names1to1(dir', FileInodes')
  BY DirectoryIs DEF Steady, FsInv, DirInv
<1>7. /\ LiveIn(dir') = LiveIn(dir) \ {e} /\ e \in LiveIn(dir)
      /\ \A f \in LiveIn(dir') : dir'[f] = dir[f]
  <2>1. DOMAIN dir = Entries
    BY DEF Steady, FsInv, TypeOK
  <2> QED BY <1>1, <2>1 DEF LiveIn, Live, EmptyEntry
<1>8. \A f \in LiveIn(dir') :
         /\ LookupIn(dir', dir[f].d_name) = LookupIn(dir, dir[f].d_name)
         /\ NameIn(dir', dir[f].d_inumber) = NameIn(dir, dir[f].d_inumber)
  BY <1>6, <1>7, EntryKept
<1>9. HandlesOf' = HandlesOf
  <2>1. ASSUME NEW h \in Handles, IsOpen(h)
        PROVE  NameIn(dir', File(h)) = NameIn(dir, File(h))
    <3>1. File(h) \in FileInodes
      BY <2>1, HeldFile
    <3>2. PICK f \in LiveIn(dir) : dir[f].d_inumber = File(h)
      BY <1>6, <3>1 DEF Names1to1
    <3>3. f # e
      BY <1>1, <1>2, <1>4, <2>1, <3>2
    <3> QED BY <1>7, <1>8, <3>2, <3>3
  <2>2. open_file_table' = open_file_table
    BY DEF Unlink
  <2> QED BY <2>1, <2>2, HandlesStay
<1>10. NamesIn(dir') = NamesIn(dir) \ {n}
  <2>1. \A f \in LiveIn(dir) : f # e => dir[f].d_name # n
    BY <1>1, <1>6, <1>7 DEF Names1to1
  <2>2. /\ NamesIn(dir') = {dir[f].d_name : f \in LiveIn(dir) \ {e}}
        /\ NamesIn(dir) = {dir[f].d_name : f \in LiveIn(dir)}
    BY <1>7 DEF NamesIn
  <2> QED BY ONLY <1>1, <1>7, <2>1, <2>2
<1>11. \A m \in NamesIn(dir') : LookupIn(dir', m) = LookupIn(dir, m)
  BY <1>7, <1>8 DEF NamesIn
<1>12. FilesOf' = [m \in DOMAIN FilesOf \ {n} |-> FilesOf[m]]
  <2>1. FilesOf' = FilesIn(dir', inode_table, fs_data)
    BY Pictures DEF Unlink
  <2>2. /\ DOMAIN FilesOf = NamesIn(dir)
        /\ \A m \in NamesIn(dir) :
              FilesOf[m] = FileIn(inode_table, fs_data, LookupIn(dir, m))
    BY <1>6, FilesAre, Pictures
  <2> QED BY <1>10, <1>11, <2>1, <2>2 DEF FilesIn
<1> QED BY <1>3, <1>5, <1>9, <1>12 DEF Abstract!ADelete, Unlink

\* A creation that fails for lack of an entry changes nothing that shows.
LEMMA NoEntryRefines ==
    ASSUME Steady, NEW n \in Names \cup LongNames, OpenNoEntry(n)
    PROVE  UNCHANGED Abstract!avars
<1>1. PICK i \in free_inodes : inode_table' = [inode_table EXCEPT ![i] = EmptyInode]
  BY LowestFree DEF OpenNoEntry, Steady, FsInv
<1>2. \A j \in FileInodes : inode_table'[j] = inode_table[j]
  BY <1>1 DEF Steady, FsInv, TypeOK, FileInodes
<1>3. FilesOf' = FilesOf
  BY <1>2, FilesStay DEF OpenNoEntry, FileIn
<1>4. HandlesOf' = HandlesOf
  BY HandlesStay DEF OpenNoEntry
<1> QED BY <1>3, <1>4 DEF OpenNoEntry, Abstract!avars

LEMMA OpenExistingRefines ==
    ASSUME Steady, SparesOpenFiles, NEW n \in Names, NEW trunc \in BOOLEAN,
           NEW append \in BOOLEAN, OpenExisting(n, trunc, append)
    PROVE  Abstract!AOpen(n) \/ Abstract!ATruncate(n)
<1>1. PICK i \in FileInodes : /\ i = Lookup(n) /\ i \in Inodes /\ NameIn(dir, i) = n
                              /\ n \in DOMAIN FilesOf
  BY FoundFile DEF OpenExisting, FileInodes
<1>2. PICK size : size = IF trunc THEN 0 ELSE Size(i)
  OBVIOUS
<1>3. /\ inode_table' = [inode_table EXCEPT ![i].i_size = size]
      /\ AddToOpenFileTable(i, IF append THEN size ELSE 0)
      /\ UNCHANGED <<fs_data, dir, got>>
  BY <1>1, <1>2 DEF OpenExisting
<1>4. Size(i) \in 0 .. BlockSize /\ BlockSize \in Nat
  BY <1>1, FileIs, Numbering
<1>5. /\ DOMAIN inode_table = Inodes /\ inode_table[i] \in InodeType
  BY <1>1 DEF Steady, FsInv, TypeOK
<1>6. /\ inode_table'[i].i_size = size
      /\ inode_table'[i].i_data_block = inode_table[i].i_data_block
      /\ \A j \in FileInodes \ {i} : inode_table'[j] = inode_table[j]
  BY <1>1, <1>3, <1>5 DEF InodeType, FileInodes
<1>7. \A j \in FileInodes \ {i} : FileIn(inode_table', fs_data', j)
                                     = FileIn(inode_table, fs_data, j)
  BY <1>3, <1>6 DEF FileIn
<1>8. \A k \in Nat : AddToOpenFileTable(i, k) => Abstract!Hand(n, k)
  BY <1>1, <1>3, HandGiven
<1>9. CASE trunc /\ Size(i) > 0
  <2>1. size = 0
    BY <1>2, <1>9
  <2>2. FileIn(inode_table', fs_data', i) = <<>>
    BY <1>6, <2>1, EmptyFile
  <2>3. FilesOf' = [FilesOf EXCEPT ![n] = <<>>]
    BY <1>1, <1>3, <1>7, <2>2, OneFile
  <2>4. ASSUME NEW h \in Handles, IsOpen(h), File(h) = i
        PROVE  Offset(h) = 0
    <3>1. Offset(h) \in Nat
      BY <2>4, HeldFile
    <3>2. 0 >= Offset(h)
      BY <1>6, <2>1, <2>4 DEF SparesOpenFiles
    <3> QED BY <3>1, <3>2
  <2>5. \A h \in Handles :
           HandlesOf[h] # Closed /\ HandlesOf[h].name = n
              => HandlesOf[h].offset = 0
    <3> SUFFICES ASSUME NEW h \in Handles, HandlesOf[h] # Closed,
                        HandlesOf[h].name = n
                 PROVE  HandlesOf[h].offset = 0
      OBVIOUS
    <3>1. IsOpen(h) /\ File(h) = i
      BY <1>1, HeldHere
    <3>2. HandlesOf[h] = [name |-> NameIn(dir, i), offset |-> Offset(h)]
      BY <3>1, HandleShown
    <3> QED BY <2>4, <3>1, <3>2
  <2>6. Abstract!Hand(n, 0)
    BY <1>3, <1>8, <2>1
  <2>7. Abstract!ATruncate(n)
    BY <1>1, <1>3, <2>3, <2>5, <2>6 DEF Abstract!ATruncate
  <2> QED BY <2>7
<1>10. CASE ~(trunc /\ Size(i) > 0)
  <2>1. size = Size(i)
    BY <1>2, <1>4, <1>10
  <2>2. FileIn(inode_table', fs_data', i) = FileIn(inode_table, fs_data, i)
    BY <1>3, <1>6, <2>1 DEF FileIn, Size
  <2>3. FilesOf' = FilesOf
    BY <1>3, <1>7, <2>2, FilesStay
  <2>4. FilesOf[n] = FileIn(inode_table, fs_data, i) /\ Len(FilesOf[n]) = size
    BY <1>1, <2>1, FileIs
  <2>5. PICK k \in {0, size} : k = IF append THEN size ELSE 0
    OBVIOUS
  <2>6. k \in Nat /\ AddToOpenFileTable(i, k)
    BY <1>3, <1>4, <2>1, <2>5
  <2>7. Abstract!Hand(n, k) /\ k \in {0, Len(FilesOf[n])}
    BY <1>8, <2>4, <2>6
  <2>8. Abstract!AOpen(n)
    BY <1>1, <1>3, <2>3, <2>7 DEF Abstract!AOpen
  <2> QED BY <2>8
<1> QED BY <1>9, <1>10

LEMMA OpenCreateRefines ==
    ASSUME Steady, Steady', NEW n \in Names, OpenCreate(n)
    PROVE  Abstract!ACreate(n)
<1>1. PICK i, e : i = Min(free_inodes) /\ e = FreeEntry
  OBVIOUS
<1>2. /\ inode_table' = [inode_table EXCEPT ![i] = EmptyInode]
      /\ dir' = [dir EXCEPT ![e] = [d_name |-> n, d_inumber |-> i]]
      /\ AddToOpenFileTable(i, 0)
      /\ UNCHANGED <<fs_data, got>>
      /\ ~Found(n)
  BY <1>1 DEF OpenCreate
<1>3. i \in free_inodes /\ i \in Inodes /\ e \in Entries \ Live
  BY <1>1, LowestFree DEF OpenCreate, Steady, FsInv, TypeOK
<1>4. Names1to1(dir, FileInodes) /\ Names1to1(dir', FileInodes')
  BY DirectoryIs DEF Steady, FsInv, DirInv
<1>5. /\ LiveIn(dir') = LiveIn(dir) \cup {e} /\ e \notin LiveIn(dir)
      /\ \A f \in LiveIn(dir) : dir'[f] = dir[f]
      /\ dir'[e].d_name = n /\ dir'[e].d_inumber = i
  <2>1. DOMAIN dir = Entries /\ i # None
    BY <1>3, Numbering DEF Steady, FsInv, TypeOK
  <2> QED BY <1>2, <1>3, <2>1 DEF LiveIn, Live
<1>6. \A f \in LiveIn(dir) :
         /\ LookupIn(dir', dir[f].d_name) = LookupIn(dir, dir[f].d_name)
         /\ NameIn(dir', dir[f].d_inumber) = NameIn(dir, dir[f].d_inumber)
  BY <1>4, <1>5, EntryKept
<1>7. NameIn(dir', i) = n
  BY <1>4, <1>5, EntryIs
<1>8. \A j \in FileInodes : NameIn(dir', j) = NameIn(dir, j)
  BY <1>4, <1>6 DEF Names1to1
<1>9. Abstract!Hand(n, 0)
  BY <1>2, <1>3, <1>7, <1>8, HandGiven
<1>10. NamesIn(dir') = NamesIn(dir) \cup {n} /\ n \notin NamesIn(dir)
  <2>1. /\ NamesIn(dir') = {dir'[f].d_name : f \in LiveIn(dir) \cup {e}}
        /\ NamesIn(dir) = {dir[f].d_name : f \in LiveIn(dir)}
    BY <1>5 DEF NamesIn
  <2>2. n \notin NamesIn(dir)
    BY <1>2, FoundIs
  <2> QED BY ONLY <1>5, <2>1, <2>2
<1>11. ASSUME NEW m \in NamesIn(dir)
       PROVE  FileIn(inode_table', fs_data', LookupIn(dir', m)) = FilesOf[m]
  <2>1. PICK j : j = LookupIn(dir, m)
    OBVIOUS
  <2>2. LookupIn(dir', m) = j
    BY <1>6, <2>1 DEF NamesIn
  <2>3. j \in FileInodes
    BY <1>4, <2>1, BothWays
  <2>4. inode_table'[j] = inode_table[j]
    BY <1>2, <1>3, <2>3 DEF FileInodes
  <2>5. FilesOf[m] = FileIn(inode_table, fs_data, j)
    BY <1>4, <2>1, FilesAre, Pictures
  <2> QED BY <1>2, <2>2, <2>4, <2>5 DEF FileIn
<1>12. FileIn(inode_table', fs_data', LookupIn(dir', n)) = <<>>
  <2>1. LookupIn(dir', n) = i
    BY <1>4, <1>5, EntryIs
  <2>2. inode_table'[i].i_size = 0
    BY <1>2, <1>3 DEF Steady, FsInv, TypeOK, EmptyInode
  <2> QED BY <2>1, <2>2, EmptyFile
<1>13. FilesOf' = [m \in DOMAIN FilesOf \cup {n} |->
                     IF m = n THEN <<>> ELSE FilesOf[m]]
  <2>1. FilesOf' = FilesIn(dir', inode_table', fs_data')
    BY Pictures
  <2>2. DOMAIN FilesOf = NamesIn(dir)
    BY <1>4, FilesAre, Pictures
  <2> QED BY <1>10, <1>11, <1>12, <2>1, <2>2 DEF FilesIn
<1>14. n \notin DOMAIN FilesOf
  BY <1>4, <1>10, FilesAre, Pictures
<1> QED BY <1>2, <1>9, <1>13, <1>14 DEF Abstract!ACreate

\* Blocks lie one after the other in fs_data, behind the directory's.
LEMMA BlocksApart ==
    ASSUME NEW b \in Blocks \ {0}, NEW k \in 1 .. BlockSize
    PROVE  /\ b * BlockSize \in Nat /\ b * BlockSize + k - 1 \in Addresses
           /\ \A c \in Blocks \ {b} : \A l \in 1 .. BlockSize :
                 c * BlockSize + l - 1 # b * BlockSize + k - 1
<1>1. /\ BlockSize \in Nat /\ BlockCount \in Nat /\ Blocks = 0 .. BlockCount - 1
      /\ Addresses = BlockSize .. BlockCount * BlockSize - 1
  BY ParamsAssumption DEF Blocks, Addresses
<1>2. ASSUME NEW S \in Nat, NEW x \in Nat, NEW y \in Nat, x < y
      PROVE  x * S + S <= y * S /\ x * S \in Nat /\ y * S \in Nat
  <2>1. PICK z \in Nat : y = x + 1 + z
    <3>1. y - x - 1 \in Nat /\ y = x + 1 + (y - x - 1)
      BY <1>2
    <3> QED BY <3>1
  <2>2. y * S = x * S + S + z * S
    BY <2>1
  <2>3. z * S >= 0 /\ z * S \in Nat /\ x * S \in Nat
    OBVIOUS
  <2> QED BY <2>2, <2>3
<1>3. PICK B, T : B = b * BlockSize /\ T = BlockCount * BlockSize
  OBVIOUS
<1>4. B \in Nat /\ T \in Nat /\ BlockSize <= B /\ B + BlockSize <= T
  <2>1. b \in Nat /\ 0 \in Nat /\ 0 < b /\ b < BlockCount
    BY <1>1
  <2>2. 0 * BlockSize + BlockSize <= b * BlockSize /\ 0 * BlockSize = 0
    BY <1>1, <1>2, <2>1
  <2>3. b * BlockSize + BlockSize <= BlockCount * BlockSize
        /\ b * BlockSize \in Nat /\ BlockCount * BlockSize \in Nat
    BY <1>1, <1>2, <2>1
  <2> QED BY <1>1, <1>3, <2>2, <2>3
<1>5. B + k - 1 \in Addresses
  BY <1>1, <1>3, <1>4
<1>6. ASSUME NEW c \in Blocks \ {b}, NEW l \in 1 .. BlockSize
      PROVE  c * BlockSize + l - 1 # B + k - 1
  <2>1. c \in Nat /\ b \in Nat /\ (c < b \/ b < c)
    BY <1>1
  <2>2. PICK C : C = c * BlockSize
    OBVIOUS
  <2>3. C \in Nat /\ (C + BlockSize <= B \/ B + BlockSize <= C)
    BY <1>1, <1>2, <1>3, <2>1, <2>2
  <2> QED BY <1>1, <1>4, <2>2, <2>3
<1> QED BY <1>3, <1>4, <1>5, <1>6

\* What a write does to the variables: n bytes into block b, after from.
LEMMA WriteIs ==
    ASSUME Steady, NEW h \in Handles, NEW data \in Buffers, Write(h, data), alive',
           NEW n, n = ToWrite(h, Len(data)), NEW i, i = File(h),
           NEW b, b = Target(i), NEW from, from = Offset(h)
    PROVE  /\ n \in Nat /\ n > 0 /\ from \in Nat /\ from + n <= BlockSize
           /\ \A k \in 1 .. n : data[k] \in Bytes
           /\ i \in FileInodes /\ IsOpen(h)
           /\ b \in Blocks \ {0} /\ (Size(i) > 0 => b = Block(i))
           /\ \A j \in FileInodes \ {i} : Size(j) > 0 => Block(j) \in Blocks \ {b}
           /\ Size(i) \in Nat /\ from <= Size(i)
           /\ fs_data' = Copy(b * BlockSize + from, data, n)
           /\ inode_table' = [inode_table EXCEPT ![i] =
                 [i_size |-> IF Size(i) >= from + n THEN Size(i) ELSE from + n,
                  i_data_block |-> b]]
           /\ open_file_table' = [open_file_table EXCEPT ![h].of_offset = @ + n]
           /\ UNCHANGED <<dir, got>>
<1>1. /\ IsOpen(h) /\ n > 0 /\ (Size(i) = 0 => free_blocks # {}) /\ ~Abort
  BY DEF Write, Abort
<1>2. /\ fs_data' = Copy(b * BlockSize + from, data, n)
      /\ inode_table' = [inode_table EXCEPT ![i] =
            [i_size |-> Grown(Size(i), from + n), i_data_block |-> b]]
      /\ open_file_table' = [open_file_table EXCEPT ![h].of_offset = @ + n]
      /\ UNCHANGED <<dir, got>>
      /\ n <= BlockSize
  BY <1>1 DEF Write
<1>3. Len(data) \in 0 .. MaxIO /\ \A k \in 1 .. Len(data) : data[k] \in Bytes
  BY BufferTyped
<1>4. n \in Nat /\ from \in Nat /\ from + n <= BlockSize
  BY <1>1, <1>3, WriteInside, NonePastEnd DEF Steady, Coordinated
<1>5. n <= Len(data)
  BY <1>1, <1>2, <1>3, WriteFits DEF Steady, FsInv, TypeAndRoot
<1>6. \A k \in 1 .. n : data[k] \in Bytes
  <2>1. PICK l : l = Len(data)
    OBVIOUS
  <2>2. l \in Int
    BY <1>3, <2>1, BoundsAssumption
  <2> QED BY <1>3, <1>4, <1>5, <2>1, <2>2
<1>7. i \in FileInodes /\ Size(i) \in Nat /\ from <= Size(i)
  <2>1. Size(i) \in 0 .. BlockSize /\ BlockSize \in Nat
    BY <1>1, HeldFile, Numbering
  <2> QED BY <1>1, <2>1, HeldFile
<1>8. BlockOwnership /\ TypeOK /\ RootReserved
  BY DEF Steady, FsInv
<1>9. /\ b \in Blocks \ {0} /\ (Size(i) > 0 => b = Block(i))
      /\ \A j \in FileInodes \ {i} : Size(j) > 0 => Block(j) \in Blocks \ {b}
  <2>1. CASE Size(i) = 0
    <3>1. b \in free_blocks /\ b \in Blocks \ {0}
      BY <1>1, <1>8, <2>1, LowestFree DEF Target, TypeOK, RootReserved
    <3> QED BY <1>8, <2>1, <3>1 DEF BlockOwnership, Owners
  <2>2. CASE Size(i) # 0
    <3>1. Size(i) > 0 /\ b = Block(i)
      BY <1>7, <2>2 DEF Target
    <3> QED BY <1>7, <1>8, <3>1 DEF BlockOwnership, Owners
  <2> QED BY <2>1, <2>2
<1>10. Grown(Size(i), from + n) = IF Size(i) >= from + n THEN Size(i) ELSE from + n
  <2>1. PICK s, k : s = Size(i) /\ k = from + n
    OBVIOUS
  <2>2. s \in Nat /\ k \in Nat
    BY <1>4, <1>7, <2>1
  <2>3. Max({s, k}) = IF s >= k THEN s ELSE k
    BY <2>2, MaxOfTwo
  <2> QED BY <2>1, <2>3 DEF Grown
<1> QED BY <1>1, <1>2, <1>4, <1>6, <1>7, <1>9, <1>10

\* u is t with the n bytes of piece in block b, after from.
Puts(t, u, b, from, n, piece) ==
    /\ t \in [Addresses -> Stuff] /\ u \in [Addresses -> Stuff]
    /\ b \in Blocks \ {0} /\ from \in Nat /\ n \in Nat /\ from + n <= BlockSize
    /\ piece \in [1 .. n -> Bytes]
    /\ \A a \in Addresses :
          u[a] = IF a \in b * BlockSize + from .. b * BlockSize + from + n - 1
                 THEN piece[a - (b * BlockSize + from) + 1] ELSE t[a]

\* The old content s of block b, and how long the new one is.
Holds(t, b, s, from, to, grown) ==
    /\ s \in Seq(Stuff) /\ from <= Len(s) /\ Len(s) <= BlockSize
    /\ Len(s) > 0 => s = BytesIn(t, b * BlockSize, Len(s))
    /\ grown = IF Len(s) >= to THEN Len(s) ELSE to

\* The file written is the old one with the bytes put in their place.
LEMMA WrittenFile ==
    ASSUME NEW t, NEW u, NEW b, NEW from, NEW n, NEW piece, NEW s, NEW grown,
           NEW to, to = from + n,
           Puts(t, u, b, from, n, piece), Holds(t, b, s, from, to, grown)
    PROVE  BytesIn(u, b * BlockSize, grown) = Splice(s, from, piece, to)
<1> USE DEF Puts, Holds
<1>0. PICK size \in Nat : size = Len(s)
  OBVIOUS
<1>1. PICK B : B = b * BlockSize
  OBVIOUS
<1>2. B \in Nat /\ \A k \in 1 .. BlockSize : B + k - 1 \in Addresses
  <2>1. BlockSize \in Nat /\ 1 \in 1 .. BlockSize
    BY Numbering
  <2> QED BY <1>1, <2>1, BlocksApart
<1>3. grown \in Nat /\ grown <= BlockSize /\ BlockSize \in Nat
  BY <1>0, Numbering
<1>4. piece \in Seq(Stuff) /\ Len(piece) = n
  <2>1. piece \in [1 .. n -> Stuff]
    BY DEF Stuff
  <2> QED BY <2>1
<1> DEFINE r == Splice(s, from, piece, to)
           new == BytesIn(u, B, grown)
<1>5. to \in Nat /\ from \in 0 .. Len(s)
  BY <1>0
<1>6. /\ r \in Seq(Stuff)
      /\ Len(r) = IF to >= Len(s) THEN to ELSE Len(s)
      /\ \A k \in 1 .. Len(r) :
            r[k] = IF k <= from THEN s[k]
                   ELSE IF k <= to THEN piece[k - from] ELSE s[k]
  <2>1. to = from + Len(piece) /\ s \in Seq(Stuff)
    BY <1>4
  <2>2. r = Splice(s, from, piece, to)
    OBVIOUS
  <2> HIDE DEF r
  <2>3. piece \in Seq(Stuff) /\ to \in Nat /\ from \in 0 .. Len(s)
    BY <1>4, <1>5
  <2> QED BY ONLY <2>1, <2>2, <2>3, Replaced
<1> HIDE DEF r
<1>7. Len(r) = grown
  BY <1>0, <1>5, <1>6
<1>8. /\ new \in Seq(Stuff) /\ Len(new) = grown
      /\ \A k \in 1 .. grown : new[k] =
            IF B + k - 1 \in Addresses THEN u[B + k - 1] ELSE Unwritten
  <2>1. u \in [Addresses -> Stuff] /\ B \in Int /\ grown \in Nat
    BY <1>2, <1>3
  <2> HIDE DEF new
  <2>2. new = BytesIn(u, B, grown)
    BY DEF new
  <2> QED BY ONLY <2>1, <2>2, BytesAre
<1> HIDE DEF new
<1>9. ASSUME NEW k \in 1 .. grown
       PROVE  new[k] = r[k]
  <2>1. k \in 1 .. BlockSize /\ k \in Int
    BY <1>3
  <2>2. B + k - 1 \in Addresses
    BY <1>2, <2>1
  <2>3. new[k] = u[B + k - 1]
    BY <1>8, <2>2
  <2>4. u[B + k - 1] = IF B + k - 1 \in B + from .. B + from + n - 1
                       THEN piece[(B + k - 1) - (B + from) + 1] ELSE t[B + k - 1]
    BY <1>1, <2>2
  <2>5. /\ (B + k - 1) - (B + from) + 1 = k - from
        /\ B + k - 1 \in B + from .. B + from + n - 1 <=> from < k /\ k <= to
    BY <1>2, <1>5, <2>1
  <2>6. k \in 1 .. Len(r)
    BY <1>7
  <2>7. CASE from < k /\ k <= to
    <3>1. k - from \in 1 .. n /\ ~(k <= from)
      BY <1>5, <2>1, <2>7
    <3>2. r[k] = piece[k - from]
      BY <1>6, <2>6, <2>7, <3>1
    <3> QED BY <2>3, <2>4, <2>5, <2>7, <3>2
  <2>8. CASE ~(from < k /\ k <= to)
    <3>1. k \in 1 .. size /\ size > 0
      BY <1>0, <1>5, <2>1, <2>8
    <3>2. r[k] = s[k]
      <4>1. k <= from \/ ~(k <= to)
        BY <2>1, <2>8
      <4>2. k <= from => r[k] = s[k]
        BY <1>6, <2>6
      <4>3. ~(k <= from) /\ ~(k <= to) => r[k] = s[k]
        BY <1>6, <2>6
      <4> QED BY <4>1, <4>2, <4>3
    <3>3. s[k] = IF B + k - 1 \in Addresses THEN t[B + k - 1] ELSE Unwritten
      <4>1. s = BytesIn(t, B, size)
        BY <1>0, <1>1, <3>1
      <4>2. t \in [Addresses -> Stuff] /\ B \in Int /\ size \in Nat
        BY <1>0, <1>2
      <4> QED BY ONLY <3>1, <4>1, <4>2, BytesAre
    <3> QED BY <2>2, <2>3, <2>4, <2>5, <2>8, <3>2, <3>3
  <2> QED BY <2>7, <2>8
<1>10. new = r
  <2>1. new \in Seq(Stuff) /\ r \in Seq(Stuff) /\ Len(new) = Len(r)
    BY <1>6, <1>7, <1>8
  <2>2. \A k \in 1 .. Len(new) : new[k] = r[k]
    BY <1>8, <1>9
  <2> QED BY ONLY <2>1, <2>2, SeqEqual
<1> QED BY <1>1, <1>10 DEF r, new

LEMMA WriteRefines ==
    ASSUME Steady, NEW h \in Handles, NEW data \in Buffers, Write(h, data), alive'
    PROVE  Abstract!AWrite(h)
<1>1. PICK n, i, b, from : /\ n = ToWrite(h, Len(data)) /\ i = File(h)
                           /\ b = Target(i) /\ from = Offset(h)
  OBVIOUS
<1> DEFINE grown == IF Size(i) >= from + n THEN Size(i) ELSE from + n
           piece == [k \in 1 .. n |-> data[k]]
           old == FileIn(inode_table, fs_data, i)
           new == FileIn(inode_table', fs_data', i)
           m == NameIn(dir, i)
<1>2. /\ n \in Nat /\ n > 0 /\ from \in Nat /\ from + n <= BlockSize
      /\ \A k \in 1 .. n : data[k] \in Bytes
      /\ i \in FileInodes /\ IsOpen(h)
      /\ b \in Blocks \ {0} /\ (Size(i) > 0 => b = Block(i))
      /\ \A j \in FileInodes \ {i} : Size(j) > 0 => Block(j) \in Blocks \ {b}
      /\ Size(i) \in Nat /\ from <= Size(i)
      /\ fs_data' = Copy(b * BlockSize + from, data, n)
      /\ inode_table' = [inode_table EXCEPT ![i] =
            [i_size |-> grown, i_data_block |-> b]]
      /\ open_file_table' = [open_file_table EXCEPT ![h].of_offset = @ + n]
      /\ UNCHANGED <<dir, got>>
  BY <1>1, WriteIs
<1>3. /\ old \in Seq(Stuff) /\ Len(old) = Size(i) /\ Size(i) \in 0 .. BlockSize
      /\ FilesOf[m] = old
  BY <1>2, FileIs
<1>4. /\ inode_table \in [Inodes -> InodeType] /\ fs_data \in [Addresses -> Stuff]
      /\ FileInodes \subseteq Inodes
  BY DEF Steady, FsInv, TypeOK, Stuff, FileInodes
<1> HIDE DEF grown
<1>5. /\ inode_table'[i].i_size = grown /\ inode_table'[i].i_data_block = b
      /\ \A j \in FileInodes \ {i} : inode_table'[j] = inode_table[j]
  BY <1>2, <1>4
<1>6. BlockSize \in Nat
  BY Numbering
<1>7. new = SubSeq(old, 1, from) \o piece \o SubSeq(old, from + n + 1, Len(old))
  <2>1. fs_data' = [a \in Addresses |->
           IF a \in b * BlockSize + from .. b * BlockSize + from + n - 1
           THEN data[a - (b * BlockSize + from) + 1] ELSE fs_data[a]]
    BY <1>2 DEF Copy
  <2>2. Size(i) > 0 => old = BytesIn(fs_data, b * BlockSize, Size(i))
    BY <1>2 DEF FileIn, Block, Size
  <2>3. new = BytesIn(fs_data', b * BlockSize, grown)
    BY <1>5 DEF FileIn
  <2>4. Size(i) <= BlockSize
    BY <1>3, <1>6
  <2> HIDE DEF old, new
  <2>5. BytesIn(fs_data', b * BlockSize, grown) =
           SubSeq(old, 1, from) \o piece \o SubSeq(old, from + n + 1, Len(old))
    <3>1. PICK size : size = Size(i)
      OBVIOUS
    <3>2. /\ size \in Nat /\ from <= size /\ size <= BlockSize
          /\ old \in Seq(Stuff) /\ Len(old) = size
          /\ size > 0 => old = BytesIn(fs_data, b * BlockSize, size)
          /\ grown = (IF size >= from + n THEN size ELSE from + n)
      BY <1>2, <1>3, <2>2, <2>4, <3>1 DEF grown
    <3>3. piece \in [1 .. n -> Bytes] /\ \A k \in 1 .. n : piece[k] = data[k]
      BY <1>2
    <3> HIDE DEF piece
    <3>4. fs_data \in [Addresses -> Stuff] /\ n \in Nat /\ from \in Nat
          /\ from + n <= BlockSize /\ b \in Blocks \ {0}
      BY <1>2, <1>4
    <3>5. PICK B : B = b * BlockSize
      OBVIOUS
    <3>6. ASSUME NEW a \in Addresses
          PROVE  /\ fs_data'[a] \in Stuff
                 /\ fs_data'[a] = IF a \in B + from .. B + from + n - 1
                                  THEN piece[a - (B + from) + 1] ELSE fs_data[a]
      <4>1. B \in Nat /\ a \in Int
        <5>1. 1 \in 1 .. BlockSize
          BY Numbering
        <5> QED BY <3>4, <3>5, <5>1, BlocksApart, ParamsAssumption DEF Addresses
      <4>2. a \in B + from .. B + from + n - 1 => a - (B + from) + 1 \in 1 .. n
        BY <3>4, <4>1
      <4>3. fs_data'[a] = IF a \in B + from .. B + from + n - 1
                          THEN data[a - (B + from) + 1] ELSE fs_data[a]
        BY <2>1, <3>5
      <4>4. CASE a \in B + from .. B + from + n - 1
        BY <3>3, <4>2, <4>3, <4>4 DEF Stuff
      <4>5. CASE a \notin B + from .. B + from + n - 1
        BY <3>4, <4>3, <4>5
      <4> QED BY <4>4, <4>5
    <3>7. PICK u : u = fs_data'
      OBVIOUS
    <3>8. u \in [Addresses -> Stuff]
      BY <2>1, <3>6, <3>7
    <3>9. Puts(fs_data, u, b, from, n, piece)
      BY <3>3, <3>4, <3>5, <3>6, <3>7, <3>8 DEF Puts
    <3>10. PICK to, p, g, t, f : /\ to = from + n /\ p = piece /\ g = grown
                                 /\ t = fs_data /\ f = old
      OBVIOUS
    <3>11. Holds(t, b, f, from, to, g) /\ Puts(t, u, b, from, n, p)
      BY <3>2, <3>9, <3>10 DEF Holds
    <3>12. BytesIn(u, b * BlockSize, g) = Splice(f, from, p, to)
      BY ONLY <3>10, <3>11, WrittenFile
    <3> QED BY <3>7, <3>10, <3>12 DEF Splice
  <2> QED BY <2>3, <2>5
<1>8. ASSUME NEW j \in FileInodes \ {i}
      PROVE  FileIn(inode_table', fs_data', j) = FileIn(inode_table, fs_data, j)
  <2>1. inode_table'[j] = inode_table[j] /\ Size(j) \in 0 .. BlockSize
    BY <1>5, FileIs
  <2>2. CASE Size(j) = 0
    BY <2>1, <2>2, EmptyFile DEF Size
  <2>3. CASE Size(j) # 0
    <3>1. Block(j) \in Blocks \ {b}
      BY <1>2, <1>6, <2>1, <2>3
    <3>2. PICK c, l : c = Block(j) /\ l = Size(j)
      OBVIOUS
    <3>3. ASSUME NEW k \in 1 .. l, c * BlockSize + k - 1 \in Addresses
          PROVE  fs_data'[c * BlockSize + k - 1] = fs_data[c * BlockSize + k - 1]
      <4>1. k \in 1 .. BlockSize
        BY <1>6, <2>1, <3>2
      <4>2. PICK B, C : B = b * BlockSize /\ C = c * BlockSize
        OBVIOUS
      <4>3. \A x \in 1 .. BlockSize : C + k - 1 # B + x - 1
        BY <1>2, <3>1, <3>2, <4>1, <4>2, BlocksApart
      <4>4. B \in Nat /\ C \in Int
        <5>1. 1 \in 1 .. BlockSize
          BY Numbering
        <5>2. c \in Int
          <6>1. Blocks \in SUBSET Nat /\ c \in Blocks
            BY <3>1, <3>2, Numbering
          <6> QED BY ONLY <6>1
        <5>3. C \in Int
          BY <1>6, <4>2, <5>2
        <5> QED BY <1>2, <4>2, <5>1, <5>3, BlocksApart
      <4>5. C + k - 1 \notin B + from .. B + from + n - 1
        <5>1. ASSUME C + k - 1 \in B + from .. B + from + n - 1
              PROVE  FALSE
          <6>1. C + k - B \in 1 .. BlockSize /\ C + k - 1 = B + (C + k - B) - 1
            BY <1>2, <1>6, <4>1, <4>4, <5>1
          <6> QED BY <4>3, <6>1
        <5> QED BY <5>1
      <4>6. fs_data' = [a \in Addresses |-> IF a \in B + from .. B + from + n - 1
                           THEN data[a - (B + from) + 1] ELSE fs_data[a]]
        BY <1>2, <4>2 DEF Copy
      <4> QED BY <3>3, <4>2, <4>5, <4>6
    <3>4. BytesIn(fs_data', c * BlockSize, l) = BytesIn(fs_data, c * BlockSize, l)
      BY <3>3 DEF BytesIn
    <3>5. /\ FileIn(inode_table', fs_data', j) = BytesIn(fs_data', c * BlockSize, l)
          /\ FileIn(inode_table, fs_data, j) = BytesIn(fs_data, c * BlockSize, l)
      BY <2>1, <3>2 DEF FileIn, Block, Size
    <3> QED BY <3>4, <3>5
  <2> QED BY <2>2, <2>3
<1>9. FilesOf' = [FilesOf EXCEPT ![m] = new]
  BY <1>2, <1>8, OneFile
<1>10. HandlesOf' = [HandlesOf EXCEPT ![h].offset = from + n]
  BY <1>1, <1>2, HandleMoved
<1>11. PICK record : record = HandlesOf[h]
  OBVIOUS
<1>12. record # Closed /\ record.name = m /\ record.offset = from
  <2>1. /\ HandlesOf[h] = [name |-> NameIn(dir, File(h)), offset |-> Offset(h)]
        /\ HandlesOf[h] # Closed
    BY <1>2, HandleShown
  <2> QED BY <1>1, <1>11, <2>1
<1>13. PICK to : to = from + n
  OBVIOUS
<1>14. to \in from + 1 .. BlockSize /\ to - from = n
  BY <1>2, <1>6, <1>13
<1>15. piece \in [1 .. to - from -> Bytes]
  BY <1>2, <1>14
<1>16. FilesOf' = [FilesOf EXCEPT ![m] =
          SubSeq(@, 1, from) \o piece \o SubSeq(@, to + 1, Len(@))]
  BY <1>3, <1>7, <1>9, <1>13
<1> HIDE DEF piece, old, new, m
<1>17. UNCHANGED got
  BY <1>2
<1> QED BY <1>10, <1>11, <1>12, <1>13, <1>14, <1>15, <1>16, <1>17 DEF Abstract!AWrite

-----------------------------------------------------------------------------
(* The whole *)

LEMMA InitRefines == Init => Abstract!AInit
<1> SUFFICES ASSUME Init PROVE Abstract!AInit
  OBVIOUS
<1>1. PICK left \in [Entries -> Names \cup {NoName}] :
         dir = [e \in Entries |-> [EmptyEntry EXCEPT !.d_name = left[e]]]
  BY DEF Init
<1>2. LiveIn(dir) = {}
  BY <1>1 DEF LiveIn, EmptyEntry
<1>3. FilesOf = [n \in {} |-> <<>>]
  <2>1. NamesIn(dir) = {}
    BY <1>2 DEF NamesIn
  <2> QED BY <2>1, Pictures DEF FilesIn
<1>4. HandlesOf = [h \in Handles |-> Closed]
  BY Pictures DEF Init, HandlesIn, HandleIn
<1> QED BY <1>3, <1>4 DEF Init, Abstract!AInit

LEMMA NextRefines ==
    ASSUME Steady, Steady', [CarefulNext]_vars
    PROVE  [Abstract!ANext]_(Abstract!avars)
<1>a. alive'
  BY DEF Steady, Coordinated
<1>1. CASE UNCHANGED vars
  <2>1. FilesOf' = FilesOf /\ HandlesOf' = HandlesOf /\ got' = got
    BY <1>1, FilesStay, HandlesStay DEF vars
  <2> QED BY <2>1 DEF Abstract!avars
<1>2. ASSUME NEW n \in Names, NEW trunc \in BOOLEAN, NEW append \in BOOLEAN,
             OpenExisting(n, trunc, append), SparesOpenFiles
      PROVE  Abstract!ANext
  BY <1>2, OpenExistingRefines DEF Abstract!ANext
<1>3. ASSUME NEW n \in Names, OpenCreate(n)
      PROVE  Abstract!ANext
  BY <1>3, OpenCreateRefines DEF Abstract!ANext
<1>4. ASSUME NEW n \in Names, Unlink(n), SparesOpenFiles
      PROVE  Abstract!ANext
  BY <1>4, UnlinkRefines DEF Abstract!ANext
<1>5. ASSUME NEW n \in Names \cup LongNames, OpenNoEntry(n)
      PROVE  UNCHANGED Abstract!avars
  BY <1>5, NoEntryRefines
<1>6. ASSUME NEW h \in Handles, Close(h)
      PROVE  Abstract!ANext
  BY <1>6, CloseRefines DEF Abstract!ANext
<1>7. ASSUME NEW h \in Handles, NEW data \in Buffers, Write(h, data)
      PROVE  Abstract!ANext
  BY <1>a, <1>7, WriteRefines DEF Abstract!ANext
<1>8. ASSUME NEW h \in Handles, NEW len \in 1 .. MaxIO, Read(h, len)
      PROVE  Abstract!ANext
  BY <1>a, <1>8, ReadRefines DEF Abstract!ANext
<1> QED
  BY <1>1, <1>2, <1>3, <1>4, <1>5, <1>6, <1>7, <1>8 DEF CarefulNext, Next

\* Callers who spare the files that are open see named sequences of bytes: what
\* is read from a file is what was last written there, by whatever handle, and
\* inodes, blocks and directory entries never show (operations.c, state.c).
THEOREM FilesImplemented == CarefulSpec => ImplementsFiles
<1>1. Init => Abstract!AInit
  BY InitRefines
<1>2. Steady /\ Steady' /\ [CarefulNext]_vars => [Abstract!ANext]_(Abstract!avars)
  BY NextRefines
<1>3. CarefulSpec => []Steady
  BY CarefulInvariant DEF Steady
<1> QED BY <1>1, <1>2, <1>3, PTL DEF CarefulSpec, ImplementsFiles, Abstract!ASpec

=============================================================================
