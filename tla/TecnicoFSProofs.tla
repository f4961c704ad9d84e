-------------------------- MODULE TecnicoFSProofs --------------------------
(***************************************************************************)
(* Theorems about the file system.  Under any calls the types, the         *)
(* directory and the ownership of blocks form one inductive invariant: a   *)
(* block is safe because only its owner in the directory frees it, and a   *)
(* directory entry is safe because no unused entry hides it.  Under        *)
(* coordinated calls the offsets stay inside the files as well, and with   *)
(* that no subtraction wraps and no assertion fails.                       *)
(***************************************************************************)
EXTENDS TecnicoFS, WellFoundedInduction, SequenceTheorems, TLAPS

(* Least elements and size_t arithmetic *)

\* A set of numbers that is not empty has a least element.
LEMMA MinInSet ==
    ASSUME NEW S \in SUBSET Nat, S # {}
    PROVE  Min(S) \in S /\ \A y \in S : Min(S) <= y
<1> DEFINE R == OpToRel(<, Nat)
<1>1. \E x \in S : \A y \in S : x <= y
  <2>1. R = {ss \in Nat \X Nat : ss[1] < ss[2]}
    BY Zenon DEF OpToRel
  <2>2. IsWellFoundedOn(R, Nat)
    BY NatLessThanWellFounded, Zenon
  <2> HIDE DEF R
  <2>3. \A T : T \subseteq Nat /\ T # {} =>
           \E x \in T : \A y \in T : ~(<<y, x>> \in R)
    BY ONLY <2>2, WFMin, Zenon
  <2>4. PICK x \in S : \A y \in S : ~(<<y, x>> \in R)
    BY <2>3
  <2>5. ASSUME NEW y \in S PROVE x <= y
    <3>1. x \in Nat /\ y \in Nat
      OBVIOUS
    <3>2. y < x => <<y, x>> \in R
      BY ONLY <3>1, <2>1, SMT
    <3> QED BY ONLY <3>1, <3>2, <2>4, <2>5, SMT
  <2> QED BY <2>5
<1> QED BY <1>1, Zenon DEF Min

\* The smaller of two numbers.
LEMMA MinOfTwo ==
    ASSUME NEW a \in Nat, NEW b \in Nat
    PROVE  Min({a, b}) = IF a <= b THEN a ELSE b
<1>1. /\ Min({a, b}) \in {a, b}
      /\ \A y \in {a, b} : Min({a, b}) <= y
  BY MinInSet
<1> QED BY <1>1

\* The larger of two numbers.
LEMMA MaxOfTwo ==
    ASSUME NEW a \in Nat, NEW b \in Nat
    PROVE  Max({a, b}) = IF a >= b THEN a ELSE b
<1> DEFINE m == CHOOSE x \in {a, b} : \A y \in {a, b} : x >= y
<1>1. \E x \in {a, b} : \A y \in {a, b} : x >= y
  OBVIOUS
<1>2. m \in {a, b} /\ \A y \in {a, b} : m >= y
  BY <1>1
<1>3. Max({a, b}) = m
  BY DEF Max
<1> HIDE DEF m
<1> QED BY <1>2, <1>3

\* A size_t subtraction is exact unless it goes below zero, and then it wraps.
LEMMA MinusWraps ==
    ASSUME NEW a \in Nat, NEW b \in Nat, a < WordSize, b < WordSize
    PROVE  Minus(a, b) = IF b <= a THEN a - b ELSE a - b + WordSize
<1>1. WordSize \in Nat \ {0}
  BY BoundsAssumption
<1>2. ASSUME NEW q \in Int, NEW r \in 0 .. WordSize - 1
      PROVE  (WordSize * q + r) % WordSize = r
  BY <1>1
<1>3. CASE b <= a
  <2>1. (WordSize * 1 + (a - b)) % WordSize = a - b
    BY <1>1, <1>2, <1>3
  <2>2. a - b + WordSize = WordSize * 1 + (a - b)
    BY <1>1
  <2> QED BY <2>1, <2>2, <1>3 DEF Minus
<1>4. CASE ~(b <= a)
  <2>1. (WordSize * 0 + (a - b + WordSize)) % WordSize = a - b + WordSize
    BY <1>1, <1>2, <1>4
  <2>2. a - b + WordSize = WordSize * 0 + (a - b + WordSize)
    BY <1>1
  <2> QED BY <2>1, <2>2, <1>4 DEF Minus
<1> QED BY <1>3, <1>4

-----------------------------------------------------------------------------
(* The inductive invariant *)

\* The root's inode and block are never given away.
RootReserved ==
    /\ Root \notin free_inodes /\ 0 \notin free_blocks
    /\ \A h \in Handles : IsOpen(h) => File(h) # Root

DirInv == DirectoryConsistent /\ ClearsTheEntryFound

\* An inode with bytes has a block to find them in, a deleted one too: a stale
\* handle may read it.
SizedHasBlock == \A i \in Inodes : Size(i) > 0 => Block(i) # None

FsInv == TypeOK /\ RootReserved /\ DirInv /\ BlockOwnership /\ SizedHasBlock

\* All numbering starts at 0.
LEMMA Numbering ==
    /\ Inodes \in SUBSET Nat /\ Blocks \in SUBSET Nat
    /\ Handles \in SUBSET Nat /\ Entries \in SUBSET Nat
    /\ Root \in Inodes /\ 0 \in Blocks /\ None \notin Inodes
    /\ None \notin Blocks /\ BlockSize \in Nat \ {0}
BY ParamsAssumption DEF Inodes, Blocks, Handles, Entries, Root, None

\* An entry of the open file table is never Closed by accident.
LEMMA OpenIsNotClosed ==
    ASSUME NEW i \in Inodes, NEW k \in Nat
    PROVE  [of_inumber |-> i, of_offset |-> k] # Closed
BY ParamsAssumption

\* A name that is found is found in the one entry that has it.
LEMMA LookupFindsTheEntry ==
    ASSUME DirectoryConsistent, NEW n, Found(n)
    PROVE  \E e \in Live : /\ dir[e].d_name = n /\ Lookup(n) = dir[e].d_inumber
                           /\ LiveNamed(n) = {e}
                           /\ Lookup(n) \in FileInodes
<1>1. LiveNamed(n) \in SUBSET Nat /\ LiveNamed(n) # {}
  BY Numbering DEF LiveNamed, Live, Found
<1>2. Min(LiveNamed(n)) \in LiveNamed(n)
  BY <1>1, MinInSet
<1> DEFINE e == Min(LiveNamed(n))
<1>3. e \in Live /\ dir[e].d_name = n /\ Lookup(n) = dir[e].d_inumber
  BY <1>2 DEF LiveNamed, Lookup
<1> HIDE DEF e
<1>4. LiveNamed(n) = {e}
  BY <1>3 DEF LiveNamed, DirectoryConsistent
<1>5. Lookup(n) \in FileInodes
  BY <1>3 DEF DirectoryConsistent
<1> QED BY <1>3, <1>4, <1>5

\* clear_dir_entry clears the entry that find_in_dir found.
LEMMA ClearsLookedUp ==
    ASSUME DirInv, NEW n, Found(n), ClearDirEntry(n)
    PROVE  \E e \in Live : /\ dir[e].d_name = n /\ Lookup(n) = dir[e].d_inumber
                           /\ dir' = [dir EXCEPT ![e] = EmptyEntry]
<1>1. PICK e \in Live : /\ dir[e].d_name = n /\ Lookup(n) = dir[e].d_inumber
                        /\ LiveNamed(n) = {e}
  BY LookupFindsTheEntry DEF DirInv
<1> DEFINE named == {f \in Entries : dir[f].d_name = n}
           m == Min(named)
<1>2. e \in named /\ named \in SUBSET Nat
  BY <1>1, Numbering DEF Live
<1>3. m \in named /\ m <= e
  BY <1>2, MinInSet
<1>4. m = e
  <2>1. CASE m \in Live
    BY <2>1, <1>1, <1>3 DEF LiveNamed
  <2>2. CASE m \notin Live
    <3>1. m \in Entries \ Live /\ dir[m].d_name = dir[e].d_name
      BY <2>2, <1>3, <1>1
    <3>2. ~(m < e)
      BY <3>1, <1>1 DEF DirInv, ClearsTheEntryFound
    <3> HIDE DEF m
    <3> QED BY <3>2, <1>2, <1>3, <3>1, Numbering
  <2> QED BY <2>1, <2>2
<1> QED BY <1>1, <1>4 DEF ClearDirEntry

\* The lowest free inode and the lowest unused entry exist when they are taken.
LEMMA LowestFree ==
    ASSUME TypeOK
    PROVE  /\ free_inodes # {} => Min(free_inodes) \in free_inodes
           /\ free_blocks # {} => Min(free_blocks) \in free_blocks
           /\ Entries \ Live # {} =>
                 /\ FreeEntry \in Entries \ Live
                 /\ \A f \in Entries \ Live : ~(f < FreeEntry)
<1>1. /\ free_inodes \in SUBSET Nat /\ free_blocks \in SUBSET Nat
      /\ Entries \ Live \in SUBSET Nat
  BY Numbering DEF TypeOK
<1>2. ASSUME Entries \ Live # {}
      PROVE  /\ FreeEntry \in Entries \ Live
             /\ \A f \in Entries \ Live : ~(f < FreeEntry)
  <2>1. /\ FreeEntry \in Entries \ Live
        /\ \A f \in Entries \ Live : FreeEntry <= f
    BY <1>1, <1>2, MinInSet DEF FreeEntry
  <2> QED BY <2>1, <1>1
<1> QED BY <1>1, <1>2, MinInSet

-----------------------------------------------------------------------------
(* The directory *)

\* Only a creation and a removal touch the directory or the free inodes.
LEMMA DirUntouched ==
    DirInv /\ UNCHANGED <<dir, free_inodes>> => DirInv'
BY DEF DirInv, DirectoryConsistent, ClearsTheEntryFound, Live, FileInodes

\* A new file takes the first unused entry, so none is ahead of it.
LEMMA DirCreate ==
    ASSUME TypeOK, RootReserved, DirInv, NEW n \in Names, OpenCreate(n)
    PROVE  DirInv'
<1> DEFINE i == Min(free_inodes)
           e == FreeEntry
<1>1. /\ i \in free_inodes /\ i \in Inodes \ {Root, None}
      /\ e \in Entries \ Live
      /\ \A f \in Entries \ Live : ~(f < e)
  BY LowestFree, Numbering DEF OpenCreate, TypeOK, RootReserved
<1>2. /\ dir' = [dir EXCEPT ![e] = [d_name |-> n, d_inumber |-> i]]
      /\ free_inodes' = free_inodes \ {i}
  BY DEF OpenCreate
<1>3. dir \in [Entries -> EntryType]
  BY DEF TypeOK
<1>4. \A f \in Live : dir[f].d_name # n
  BY DEF OpenCreate, Found, LiveNamed
<1> HIDE DEF i, e
<1>5. dir'[e].d_name = n /\ dir'[e].d_inumber = i
  BY <1>1, <1>2, <1>3
<1>6. \A f \in Entries : f # e => dir'[f] = dir[f]
  BY <1>1, <1>2, <1>3
<1>7. Live' = Live \cup {e} /\ Live \subseteq Entries
  BY <1>1, <1>5, <1>6 DEF Live
<1>8. FileInodes' = FileInodes \cup {i} /\ i \notin FileInodes
  BY <1>1, <1>2 DEF FileInodes
<1>9. DirectoryConsistent'
  <2>1. \A f \in Live' : dir'[f].d_name \in Names /\ dir'[f].d_inumber \in FileInodes'
    BY <1>5, <1>6, <1>7, <1>8, <1>1 DEF DirInv, DirectoryConsistent
  <2>2. \A f, g \in Live' : f # g => /\ dir'[f].d_name # dir'[g].d_name
                                     /\ dir'[f].d_inumber # dir'[g].d_inumber
    BY <1>4, <1>5, <1>6, <1>7, <1>8 DEF DirInv, DirectoryConsistent
  <2>3. \A j \in FileInodes' : \E f \in Live' : dir'[f].d_inumber = j
    BY <1>1, <1>5, <1>6, <1>7, <1>8 DEF DirInv, DirectoryConsistent
  <2> QED BY <2>1, <2>2, <2>3 DEF DirectoryConsistent
<1>10. ClearsTheEntryFound'
  BY <1>1, <1>6, <1>7 DEF DirInv, ClearsTheEntryFound
<1> QED BY <1>9, <1>10 DEF DirInv

\* A removal empties the one entry of the file it deletes.
LEMMA DirUnlink ==
    ASSUME TypeOK, DirInv, NEW n \in Names, Unlink(n)
    PROVE  DirInv'
<1>1. PICK e \in Live : /\ dir[e].d_name = n /\ Lookup(n) = dir[e].d_inumber
                        /\ dir' = [dir EXCEPT ![e] = EmptyEntry]
  BY ClearsLookedUp DEF Unlink
<1> DEFINE i == dir[e].d_inumber
<1>2. free_inodes' = free_inodes \cup {i}
  BY <1>1 DEF Unlink
<1>3. dir \in [Entries -> EntryType] /\ Live \subseteq Entries
  BY DEF TypeOK, Live
<1>4. dir'[e].d_name = NoName /\ dir'[e].d_inumber = None
  BY <1>1, <1>3 DEF EmptyEntry
<1>5. \A f \in Entries : f # e => dir'[f] = dir[f]
  BY <1>1, <1>3
<1>6. Live' = Live \ {e}
  BY <1>1, <1>3, <1>4, <1>5 DEF Live
<1>7. FileInodes' = FileInodes \ {i}
  BY <1>2 DEF FileInodes
<1> HIDE DEF i
<1>8. DirectoryConsistent'
  <2>1. \A f \in Live' : dir'[f].d_name \in Names /\ dir'[f].d_inumber \in FileInodes'
    BY <1>3, <1>5, <1>6, <1>7 DEF DirInv, DirectoryConsistent, i
  <2>2. \A f, g \in Live' : f # g => /\ dir'[f].d_name # dir'[g].d_name
                                     /\ dir'[f].d_inumber # dir'[g].d_inumber
    BY <1>3, <1>5, <1>6 DEF DirInv, DirectoryConsistent
  <2>3. \A j \in FileInodes' : \E f \in Live' : dir'[f].d_inumber = j
    BY <1>3, <1>5, <1>6, <1>7 DEF DirInv, DirectoryConsistent, i
  <2> QED BY <2>1, <2>2, <2>3 DEF DirectoryConsistent
<1>9. ClearsTheEntryFound'
  <2> SUFFICES ASSUME NEW f \in Live', NEW g \in Entries \ Live', g < f
               PROVE  dir'[g].d_name # dir'[f].d_name
    BY DEF ClearsTheEntryFound
  <2>1. f \in Live /\ dir'[f] = dir[f] /\ dir[f].d_name \in Names
    BY <1>3, <1>5, <1>6 DEF DirInv, DirectoryConsistent
  <2>2. CASE g = e
    BY <2>1, <2>2, <1>4, NamesAssumption
  <2>3. CASE g # e
    BY <2>1, <2>3, <1>5, <1>6 DEF DirInv, ClearsTheEntryFound
  <2> QED BY <2>2, <2>3
<1> QED BY <1>8, <1>9 DEF DirInv

-----------------------------------------------------------------------------
(* Types *)

TypeAndRoot == TypeOK /\ RootReserved

\* An owner's block is a block, and not the directory's.
LEMMA ReleasedTyped ==
    ASSUME TypeOK, BlockOwnership, NEW i \in FileInodes
    PROVE  Released(i) \subseteq Blocks \ (free_blocks \cup {0})
BY DEF TypeOK, InodeType, BlockOwnership, Owners, FileInodes, Released, Size

\* A new handle is typed, and is not on the root.
LEMMA HandleTyped ==
    ASSUME TypeAndRoot, NEW i \in Inodes \ {Root}, NEW k \in 0 .. MaxOffset,
           AddToOpenFileTable(i, k)
    PROVE  /\ open_file_table' \in [Handles -> OpenFileType \cup {Closed}]
           /\ \A h \in Handles : IsOpen(h)' => File(h)' # Root
<1> DEFINE free == {h \in Handles : ~IsOpen(h)}
           new == [of_inumber |-> i, of_offset |-> k]
<1>1. new \in OpenFileType /\ new # Closed
  BY OpenIsNotClosed, BoundsAssumption DEF OpenFileType
<1>2. free \in SUBSET Nat
  BY Numbering
<1>3. free # {} => Min(free) \in free
  BY <1>2, MinInSet
<1>4. \/ open_file_table' = open_file_table
      \/ \E h \in Handles : open_file_table' = [open_file_table EXCEPT ![h] = new]
  BY <1>3 DEF AddToOpenFileTable
<1>5. new.of_inumber = i
  OBVIOUS
<1> HIDE DEF new, free
<1> QED BY <1>1, <1>4, <1>5 DEF TypeAndRoot, TypeOK, RootReserved, IsOpen, File

\* A file is no longer than a block.
LEMMA SizeTyped ==
    ASSUME TypeOK, NEW i \in Inodes
    PROVE  Size(i) \in 0 .. BlockSize /\ Block(i) \in Blocks \cup {None}
BY DEF TypeOK, InodeType, Size, Block

\* tfs_open of a file that exists keeps the types.
LEMMA TypeOpenExisting ==
    ASSUME FsInv, NEW n \in Names, NEW trunc \in BOOLEAN, NEW append \in BOOLEAN,
           OpenExisting(n, trunc, append)
    PROVE  TypeAndRoot'
<1> DEFINE i == Lookup(n)
           size == IF trunc THEN 0 ELSE Size(i)
<1>1. i \in FileInodes /\ i \in Inodes \ {Root}
  BY LookupFindsTheEntry DEF OpenExisting, FsInv, DirInv, FileInodes
<1>2. Size(i) \in 0 .. BlockSize
  BY <1>1, SizeTyped DEF FsInv
<1>3. size \in 0 .. BlockSize /\ size \in 0 .. MaxOffset /\ 0 \in 0 .. MaxOffset
  <2>1. 0 \in 0 .. BlockSize
    BY Numbering
  <2>2. size \in 0 .. BlockSize
    BY <1>2, <2>1
  <2> HIDE DEF size
  <2> QED BY <2>2, Numbering, BoundsAssumption
<1>4. inode_table' = [inode_table EXCEPT ![i].i_size = size]
  BY DEF OpenExisting
<1>5. inode_table' \in [Inodes -> InodeType]
  BY <1>1, <1>3, <1>4 DEF FsInv, TypeOK, InodeType
<1>6. Released(i) \subseteq Blocks \ (free_blocks \cup {0})
  BY <1>1, ReleasedTyped DEF FsInv
<1>7. free_blocks' \subseteq Blocks /\ 0 \notin free_blocks'
  BY <1>6 DEF OpenExisting, FsInv, TypeOK, RootReserved
<1>8. (IF append THEN size ELSE 0) \in 0 .. MaxOffset
  BY <1>3
<1>9. /\ open_file_table' \in [Handles -> OpenFileType \cup {Closed}]
      /\ \A h \in Handles : IsOpen(h)' => File(h)' # Root
  BY <1>1, <1>8, HandleTyped DEF OpenExisting, FsInv, TypeAndRoot
<1> QED BY <1>5, <1>7, <1>9
        DEF OpenExisting, FsInv, TypeAndRoot, TypeOK, RootReserved

\* The fields inode_create sets.
LEMMA EmptyInodeTyped == EmptyInode \in InodeType
BY Numbering DEF EmptyInode, InodeType

\* So does the creation of a file,
LEMMA TypeOpenCreate ==
    ASSUME FsInv, NEW n \in Names, OpenCreate(n)
    PROVE  TypeAndRoot'
<1> DEFINE i == Min(free_inodes)
<1>1. i \in free_inodes /\ i \in Inodes \ {Root} /\ FreeEntry \in Entries
  BY LowestFree DEF OpenCreate, FsInv, TypeOK, RootReserved
<1>2. /\ inode_table' = [inode_table EXCEPT ![i] = EmptyInode]
      /\ dir' = [dir EXCEPT ![FreeEntry] = [d_name |-> n, d_inumber |-> i]]
      /\ free_inodes' = free_inodes \ {i}
      /\ AddToOpenFileTable(i, 0)
      /\ UNCHANGED <<free_blocks, fs_data, got, alive>>
  BY DEF OpenCreate
<1>3. 0 \in 0 .. MaxOffset
  BY BoundsAssumption
<1>4. /\ open_file_table' \in [Handles -> OpenFileType \cup {Closed}]
      /\ \A h \in Handles : IsOpen(h)' => File(h)' # Root
  BY <1>1, <1>2, <1>3, HandleTyped DEF FsInv, TypeAndRoot
<1>5. [d_name |-> n, d_inumber |-> i] \in EntryType
  BY <1>1 DEF EntryType
<1> HIDE DEF i
<1> QED BY <1>1, <1>2, <1>4, <1>5, EmptyInodeTyped
        DEF FsInv, TypeAndRoot, TypeOK, RootReserved

\* a creation that finds no room in the directory,
LEMMA TypeOpenNoEntry ==
    ASSUME FsInv, NEW n \in Names \cup LongNames, OpenNoEntry(n)
    PROVE  TypeAndRoot'
BY LowestFree, EmptyInodeTyped
   DEF OpenNoEntry, FsInv, TypeAndRoot, TypeOK, RootReserved, IsOpen, File

\* tfs_close,
LEMMA TypeClose ==
    ASSUME FsInv, NEW h \in Handles, Close(h)
    PROVE  TypeAndRoot'
BY DEF Close, FsInv, TypeAndRoot, TypeOK, RootReserved, IsOpen, File

\* and tfs_unlink.
LEMMA TypeUnlink ==
    ASSUME FsInv, NEW n \in Names, Unlink(n)
    PROVE  TypeAndRoot'
<1>1. PICK e \in Live : /\ Lookup(n) = dir[e].d_inumber
                        /\ dir' = [dir EXCEPT ![e] = EmptyEntry]
  BY ClearsLookedUp DEF Unlink, FsInv
<1>2. Lookup(n) \in FileInodes /\ Lookup(n) \in Inodes \ {Root}
  BY LookupFindsTheEntry DEF Unlink, FsInv, DirInv, FileInodes
<1>3. Released(Lookup(n)) \subseteq Blocks \ (free_blocks \cup {0})
  BY <1>2, ReleasedTyped DEF FsInv
<1>4. EmptyEntry \in EntryType
  BY DEF EmptyEntry, EntryType
<1>5. dir' \in [Entries -> EntryType]
  BY <1>1, <1>4 DEF FsInv, TypeOK, Live
<1> QED BY <1>2, <1>3, <1>5
        DEF Unlink, FsInv, TypeAndRoot, TypeOK, RootReserved, IsOpen, File

\* A handle in use has a file and an offset.
LEMMA HandleInUse ==
    ASSUME TypeAndRoot, NEW h \in Handles, IsOpen(h)
    PROVE  /\ File(h) \in Inodes \ {Root} /\ Offset(h) \in 0 .. MaxOffset
           /\ Size(File(h)) \in 0 .. BlockSize
           /\ Block(File(h)) \in Blocks \cup {None}
<1>1. open_file_table[h] \in OpenFileType
  BY DEF TypeAndRoot, TypeOK, IsOpen
<1>2. File(h) \in Inodes \ {Root} /\ Offset(h) \in 0 .. MaxOffset
  BY <1>1 DEF TypeAndRoot, RootReserved, OpenFileType, File, Offset
<1> QED BY <1>2, SizeTyped DEF TypeAndRoot

\* A buffer is a sequence of at most MaxIO bytes.
LEMMA BufferTyped ==
    ASSUME NEW data \in Buffers
    PROVE  /\ Len(data) \in 0 .. MaxIO
           /\ \A k \in 1 .. Len(data) : data[k] \in Bytes
<1>1. PICK k \in 0 .. MaxIO : data \in [1 .. k -> Bytes]
  BY DEF Buffers
<1>2. k \in Nat
  BY BoundsAssumption
<1>3. data \in Seq(Bytes) /\ Len(data) = k
  BY <1>1, <1>2
<1> QED BY <1>1, <1>3

\* A write that does not run off the heap stays in its block.
LEMMA WriteFits ==
    ASSUME TypeAndRoot, NEW h \in Handles, IsOpen(h), NEW len \in 0 .. MaxIO
    PROVE  /\ ToWrite(h, len) \in Nat
           /\ ToWrite(h, len) <= BlockSize =>
                 /\ ToWrite(h, len) <= len
                 /\ Offset(h) + ToWrite(h, len) <= BlockSize
<1>1. Offset(h) \in 0 .. MaxOffset
  BY HandleInUse
<1>2. /\ BlockSize \in Nat /\ MaxOffset \in Nat /\ MaxIO \in Nat
      /\ BlockSize <= MaxOffset /\ WordSize \in Nat
      /\ MaxOffset + MaxIO < WordSize
  <2>1. BlockCount * BlockSize \in Nat
    BY ParamsAssumption
  <2> QED BY <2>1, BoundsAssumption, Numbering
<1>3. Minus(BlockSize, Offset(h)) =
         IF Offset(h) <= BlockSize THEN BlockSize - Offset(h)
                                   ELSE BlockSize - Offset(h) + WordSize
  BY <1>1, <1>2, MinusWraps
<1> QED BY <1>1, <1>2, <1>3 DEF ToWrite

\* A write keeps the types, whether it ends or the process dies of it.
LEMMA TypeWrite ==
    ASSUME FsInv, NEW h \in Handles, NEW data \in Buffers, Write(h, data)
    PROVE  TypeAndRoot'
<1> DEFINE i == File(h)
           n == ToWrite(h, Len(data))
           b == Target(i)
<1>1. TypeAndRoot /\ IsOpen(h)
  BY DEF FsInv, TypeAndRoot, Write
<1>2. CASE Abort
  BY <1>1, <1>2 DEF Abort, TypeAndRoot, TypeOK, RootReserved, IsOpen, File
<1>3. CASE ~Abort
  <2>1. /\ n <= BlockSize
        /\ Size(i) = 0 => free_blocks # {}
        /\ fs_data' = Copy(b * BlockSize + Offset(h), data, n)
        /\ free_blocks' = IF Size(i) = 0 THEN free_blocks \ {b} ELSE free_blocks
        /\ inode_table' = [inode_table EXCEPT ![i] =
              [i_size |-> Grown(Size(i), Offset(h) + n), i_data_block |-> b]]
        /\ open_file_table' = [open_file_table EXCEPT ![h].of_offset = @ + n]
        /\ UNCHANGED <<free_inodes, dir, got, alive>>
    BY <1>3 DEF Write
  <2>2. /\ Len(data) \in 0 .. MaxIO
        /\ \A k \in 1 .. Len(data) : data[k] \in Bytes
    BY BufferTyped
  <2>3. /\ i \in Inodes \ {Root} /\ Offset(h) \in 0 .. MaxOffset
        /\ Size(i) \in 0 .. BlockSize /\ Block(i) \in Blocks \cup {None}
    BY <1>1, HandleInUse
  <2>4. n \in Nat /\ n <= Len(data) /\ Offset(h) + n <= BlockSize
    BY <1>1, <2>1, <2>2, WriteFits
  <2>5. b \in Blocks \cup {None}
    BY <2>1, <2>3, LowestFree DEF Target, FsInv, TypeOK
  <2>6. Grown(Size(i), Offset(h) + n) \in 0 .. BlockSize
    <3>1. Size(i) \in Nat /\ Offset(h) + n \in Nat
      BY <2>3, <2>4, Numbering, BoundsAssumption
    <3> QED BY <3>1, <2>3, <2>4, MaxOfTwo DEF Grown
  <2>7. Offset(h) + n \in 0 .. MaxOffset
    BY <2>3, <2>4, Numbering, BoundsAssumption
  <2>8. fs_data' \in [Addresses -> Bytes \cup {Unwritten}]
    <3> DEFINE at == b * BlockSize + Offset(h)
    <3>1. at \in Int
      BY <2>3, <2>5, Numbering, BoundsAssumption DEF Blocks, None
    <3>2. Addresses \subseteq Int
      BY DEF Addresses
    <3> HIDE DEF at
    <3>3. ASSUME NEW a \in Addresses, a \in at .. at + n - 1
          PROVE  data[a - at + 1] \in Bytes
      BY <3>1, <3>2, <3>3, <2>2, <2>4
    <3>4. fs_data' = Copy(at, data, n)
      BY <2>1 DEF at
    <3> HIDE DEF n
    <3> QED BY <3>3, <3>4 DEF Copy, FsInv, TypeOK
  <2> HIDE DEF i, n, b
  <2>9. inode_table' \in [Inodes -> InodeType]
    BY <2>1, <2>3, <2>5, <2>6 DEF FsInv, TypeOK, InodeType
  <2>10. open_file_table[h] \in OpenFileType
    BY <1>1 DEF TypeAndRoot, TypeOK, IsOpen
  <2>11. /\ open_file_table' \in [Handles -> OpenFileType \cup {Closed}]
         /\ \A g \in Handles : IsOpen(g)' => IsOpen(g) /\ File(g)' = File(g)
    <3>1. [open_file_table[h] EXCEPT !.of_offset = @ + n] \in OpenFileType
      BY <2>7, <2>10 DEF OpenFileType, Offset
    <3> QED BY <1>1, <2>1, <2>10, <3>1
            DEF TypeAndRoot, TypeOK, IsOpen, File, OpenFileType
  <2>12. free_blocks' \subseteq Blocks /\ 0 \notin free_blocks'
    BY <2>1 DEF FsInv, TypeOK, RootReserved
  <2> QED BY <2>1, <2>8, <2>9, <2>11, <2>12
          DEF FsInv, TypeAndRoot, TypeOK, RootReserved
<1> QED BY <1>2, <1>3

\* A read asks for a number of bytes.
LEMMA ReadCounts ==
    ASSUME TypeAndRoot, NEW h \in Handles, IsOpen(h), NEW len \in 1 .. MaxIO
    PROVE  /\ ToRead(h, len) \in Nat
           /\ Offset(h) <= Size(File(h)) =>
                 ToRead(h, len) <= Size(File(h)) - Offset(h)
<1>1. Offset(h) \in 0 .. MaxOffset /\ Size(File(h)) \in 0 .. BlockSize
  BY HandleInUse
<1>2. /\ BlockSize \in Nat /\ MaxOffset \in Nat /\ MaxIO \in Nat
      /\ BlockSize <= MaxOffset /\ WordSize \in Nat
      /\ MaxOffset + MaxIO < WordSize
  <2>1. BlockCount * BlockSize \in Nat
    BY ParamsAssumption
  <2> QED BY <2>1, BoundsAssumption, Numbering
<1> DEFINE rest == Minus(Size(File(h)), Offset(h))
<1>3. rest = IF Offset(h) <= Size(File(h))
             THEN Size(File(h)) - Offset(h)
             ELSE Size(File(h)) - Offset(h) + WordSize
  BY <1>1, <1>2, MinusWraps
<1>4. rest \in Nat /\ len \in Nat
  BY <1>1, <1>2, <1>3
<1>5. ToRead(h, len) = IF len <= rest THEN len ELSE rest
  BY <1>4, MinOfTwo DEF ToRead
<1> HIDE DEF rest
<1> QED BY <1>1, <1>2, <1>3, <1>4, <1>5

\* So does a read.
LEMMA TypeRead ==
    ASSUME FsInv, NEW h \in Handles, NEW len \in 1 .. MaxIO, Read(h, len)
    PROVE  TypeAndRoot'
<1> DEFINE n == ToRead(h, len)
           address == Block(File(h)) * BlockSize + Offset(h)
<1>1. TypeAndRoot /\ IsOpen(h)
  BY DEF FsInv, TypeAndRoot, Read
<1>2. CASE Abort
  BY <1>1, <1>2 DEF Abort, TypeAndRoot, TypeOK, RootReserved, IsOpen, File
<1>3. CASE ~Abort
  <2>1. /\ got' = Stored(address, n)
        /\ open_file_table' = [open_file_table EXCEPT ![h].of_offset = @ + n]
        /\ UNCHANGED <<inode_table, free_inodes, free_blocks, fs_data, dir,
                       alive>>
        /\ Offset(h) + n <= MaxOffset
    BY <1>3 DEF Read
  <2>2. n \in Nat /\ Offset(h) \in 0 .. MaxOffset
    BY <1>1, ReadCounts, HandleInUse
  <2> HIDE DEF n, address
  <2>3. Offset(h) + n \in 0 .. MaxOffset
    BY <2>1, <2>2, BoundsAssumption
  <2>4. got' \in Seq(Bytes \cup {Unwritten})
    <3>1. Stored(address, n) \in [1 .. n -> Bytes \cup {Unwritten}]
      BY DEF Stored, FsInv, TypeOK
    <3> QED BY <2>1, <2>2, <3>1
  <2>5. open_file_table[h] \in OpenFileType
    BY <1>1 DEF TypeAndRoot, TypeOK, IsOpen
  <2>6. /\ open_file_table' \in [Handles -> OpenFileType \cup {Closed}]
        /\ \A g \in Handles : IsOpen(g)' => IsOpen(g) /\ File(g)' = File(g)
    <3>1. [open_file_table[h] EXCEPT !.of_offset = @ + n] \in OpenFileType
      BY <2>3, <2>5 DEF OpenFileType, Offset
    <3> QED BY <1>1, <2>1, <2>5, <3>1
            DEF TypeAndRoot, TypeOK, IsOpen, File, OpenFileType
  <2> QED BY <2>1, <2>4, <2>6 DEF FsInv, TypeAndRoot, TypeOK, RootReserved
<1> QED BY <1>2, <1>3

-----------------------------------------------------------------------------
(* Blocks *)

\* Ownership looks only at the files' inodes and the free blocks.
LEMMA OwnersUntouched ==
    BlockOwnership /\ UNCHANGED <<inode_table, free_inodes, free_blocks>>
        => BlockOwnership'
BY DEF BlockOwnership, Owners, FileInodes, Size, Block

\* When a file is emptied or deleted, no other owner has its block.
LEMMA OthersKeepBlocks ==
    ASSUME TypeOK, BlockOwnership, NEW i \in FileInodes,
           NEW j \in Owners, j # i
    PROVE  Block(j) \notin Released(i)
BY DEF BlockOwnership, Owners, Released

\* A file that is emptied no longer owns the block it gives back.
LEMMA BlocksOpenExisting ==
    ASSUME FsInv, NEW n \in Names, NEW trunc \in BOOLEAN, NEW append \in BOOLEAN,
           OpenExisting(n, trunc, append)
    PROVE  BlockOwnership'
<1>1. PICK i \in FileInodes : i = Lookup(n) /\ i \in Inodes
  BY LookupFindsTheEntry DEF OpenExisting, FsInv, DirInv, FileInodes
<1>2. PICK size : size = IF trunc THEN 0 ELSE Size(i)
  OBVIOUS
<1>3. /\ inode_table' = [inode_table EXCEPT ![i].i_size = size]
      /\ free_blocks' = free_blocks \cup (IF trunc THEN Released(i) ELSE {})
      /\ UNCHANGED free_inodes
  BY <1>1, <1>2 DEF OpenExisting
<1>4. TypeOK /\ BlockOwnership /\ inode_table \in [Inodes -> InodeType]
  BY DEF FsInv, TypeOK
<1>5. \A j \in Inodes : Block(j)' = Block(j)
  BY <1>1, <1>3, <1>4 DEF Block, InodeType
<1>6. /\ Size(i)' = size
      /\ \A j \in Inodes : j # i => Size(j)' = Size(j)
  BY <1>1, <1>3, <1>4 DEF Size, InodeType
<1>7. FileInodes' = FileInodes /\ FileInodes \subseteq Inodes
  BY <1>3 DEF FileInodes
<1>8. CASE ~trunc
  <2>1. size = Size(i) /\ free_blocks' = free_blocks
    BY <1>3, <1>8, <1>2
  <2>2. \A j \in FileInodes : Size(j)' = Size(j)
    BY <2>1, <1>6, <1>7
  <2>3. Owners' = Owners /\ Owners \subseteq Inodes
    BY <2>2, <1>7 DEF Owners
  <2> QED BY <2>1, <2>3, <1>4, <1>5 DEF BlockOwnership
<1>9. CASE trunc
  <2>1. size = 0 /\ free_blocks' = free_blocks \cup Released(i)
    BY <1>3, <1>9, <1>2
  <2>2. ASSUME NEW j \in Owners'
        PROVE  j \in Owners /\ j # i /\ j \in Inodes
    <3>1. j \in FileInodes /\ Size(j)' > 0
      BY <1>7 DEF Owners
    <3>2. j # i
      BY <3>1, <2>1, <1>6
    <3> QED BY <3>1, <3>2, <1>6, <1>7 DEF Owners
  <2>3. \A j \in Owners' : Block(j) \notin Released(i)
    BY <2>2, <1>1, <1>4, OthersKeepBlocks
  <2> QED BY <2>1, <2>2, <2>3, <1>4, <1>5 DEF BlockOwnership
<1> QED BY <1>8, <1>9

\* A new inode owns nothing.
LEMMA BlocksOfEmptied ==
    ASSUME TypeOK, BlockOwnership, NEW i \in free_inodes,
           inode_table' = [inode_table EXCEPT ![i] = EmptyInode],
           free_inodes' \in {free_inodes, free_inodes \ {i}},
           UNCHANGED free_blocks
    PROVE  BlockOwnership'
<1>1. i \in Inodes /\ inode_table \in [Inodes -> InodeType]
  BY DEF TypeOK
<1>2. Size(i)' = 0
  BY <1>1 DEF Size, EmptyInode
<1>3. \A j \in Inodes : j # i => Size(j)' = Size(j) /\ Block(j)' = Block(j)
  BY <1>1 DEF Size, Block
<1>4. Owners' \subseteq Owners /\ Owners' \subseteq Inodes \ {i}
  BY <1>2, <1>3 DEF Owners, FileInodes
<1> QED BY <1>3, <1>4 DEF BlockOwnership

\* Nor does a file that is deleted.
LEMMA BlocksUnlink ==
    ASSUME FsInv, NEW n \in Names, Unlink(n)
    PROVE  BlockOwnership'
<1> DEFINE i == Lookup(n)
<1>1. i \in FileInodes
  BY LookupFindsTheEntry DEF Unlink, FsInv, DirInv
<1>2. /\ free_inodes' = free_inodes \cup {i}
      /\ free_blocks' = free_blocks \cup Released(i)
      /\ UNCHANGED inode_table
  BY DEF Unlink
<1>3. TypeOK /\ BlockOwnership
  BY DEF FsInv
<1> HIDE DEF i
<1>4. Owners' = Owners \ {i}
  BY <1>2 DEF Owners, FileInodes, Size
<1>5. \A j \in Owners' : Block(j) \notin Released(i)
  BY <1>1, <1>3, <1>4, OthersKeepBlocks
<1> QED BY <1>2, <1>3, <1>4, <1>5 DEF BlockOwnership, Block

\* An empty file gets a block nobody has; any other write keeps every block.
LEMMA BlocksWrite ==
    ASSUME FsInv, NEW h \in Handles, NEW data \in Buffers, Write(h, data)
    PROVE  BlockOwnership'
<1>1. PICK i : i = File(h)
  OBVIOUS
<1>2. PICK b : b = Target(i)
  OBVIOUS
<1> DEFINE size == Grown(Size(i), Offset(h) + ToWrite(h, Len(data)))
<1>3. CASE Abort
  BY <1>3, OwnersUntouched DEF Abort, FsInv
<1>4. CASE ~Abort
  <2>1. /\ Size(i) = 0 => free_blocks # {}
        /\ free_blocks' = IF Size(i) = 0 THEN free_blocks \ {b} ELSE free_blocks
        /\ inode_table' = [inode_table EXCEPT ![i] =
              [i_size |-> size, i_data_block |-> b]]
        /\ UNCHANGED free_inodes
        /\ IsOpen(h)
    BY <1>4, <1>1, <1>2 DEF Write
  <2>2. TypeAndRoot /\ TypeOK /\ RootReserved /\ BlockOwnership
        /\ inode_table \in [Inodes -> InodeType]
    BY DEF FsInv, TypeAndRoot, TypeOK
  <2>3. i \in Inodes /\ Size(i) \in 0 .. BlockSize
    BY <2>1, <2>2, <1>1, HandleInUse
  <2>4. CASE Size(i) = 0
    <3>1. b \in free_blocks /\ b \in Blocks \ {0}
      BY <2>1, <2>2, <2>4, <1>2, LowestFree DEF Target, TypeOK, RootReserved
    <3> HIDE DEF size
    <3>2. /\ Block(i)' = b
          /\ \A j \in Inodes : j # i => Size(j)' = Size(j) /\ Block(j)' = Block(j)
      BY <2>1, <2>2, <2>3 DEF Size, Block
    <3>3. Owners' \subseteq Owners \cup {i} /\ i \notin Owners /\ Owners \subseteq Inodes
      BY <2>1, <2>3, <2>4, <3>2 DEF Owners, FileInodes
    <3>4. free_blocks' = free_blocks \ {b}
      BY <2>1, <2>4
    <3>5. \A j \in Owners : Block(j) \in Blocks \ (free_blocks \cup {0})
      BY <2>2 DEF BlockOwnership
    <3>6. ASSUME NEW j \in Owners'
          PROVE  /\ Block(j)' \in Blocks \ (free_blocks' \cup {0})
                 /\ j # i => j \in Owners /\ Block(j)' = Block(j)
      <4>1. CASE j = i
        BY <4>1, <3>1, <3>2, <3>4
      <4>2. CASE j # i
        BY <4>2, <3>2, <3>3, <3>4, <3>5
      <4> QED BY <4>1, <4>2
    <3>7. ASSUME NEW j \in Owners', NEW k \in Owners', j # k
          PROVE  Block(j)' # Block(k)'
      <4>1. CASE j = i
        BY <4>1, <3>1, <3>2, <3>5, <3>6, <3>7
      <4>2. CASE k = i
        BY <4>2, <3>1, <3>2, <3>5, <3>6, <3>7
      <4>3. CASE j # i /\ k # i
        BY <4>3, <3>6, <3>7, <2>2 DEF BlockOwnership
      <4> QED BY <4>1, <4>2, <4>3
    <3> QED BY <3>6, <3>7 DEF BlockOwnership
  <2>5. CASE Size(i) # 0
    <3>1. b = Block(i) /\ Size(i) > 0 /\ free_blocks' = free_blocks
      BY <2>1, <2>3, <2>5, <1>2, Numbering DEF Target
    <3> HIDE DEF size
    <3>2. \A j \in Inodes : /\ Block(j)' = Block(j)
                            /\ j # i => Size(j)' = Size(j)
      BY <2>1, <2>2, <2>3, <3>1 DEF Size, Block
    <3>3. Owners' \subseteq Owners /\ Owners \subseteq Inodes
      BY <2>1, <2>3, <3>1, <3>2 DEF Owners, FileInodes
    <3> QED BY <2>2, <3>1, <3>2, <3>3 DEF BlockOwnership
  <2> QED BY <2>4, <2>5
<1> QED BY <1>3, <1>4

\* An inode that is set as a whole is either empty or has a block.
LEMMA SizedKept ==
    ASSUME TypeOK, SizedHasBlock, NEW i, NEW inode,
           inode.i_size > 0 => inode.i_data_block # None,
           inode_table' = [inode_table EXCEPT ![i] = inode]
    PROVE  SizedHasBlock'
<1> SUFFICES ASSUME NEW j \in Inodes
             PROVE  inode_table'[j].i_size > 0 =>
                       inode_table'[j].i_data_block # None
  BY DEF SizedHasBlock, Size, Block
<1>1. CASE j = i
  BY <1>1 DEF TypeOK
<1>2. CASE j # i
  <2>1. inode_table'[j] = inode_table[j]
    BY <1>2 DEF TypeOK
  <2> QED BY <2>1 DEF SizedHasBlock, Size, Block
<1> QED BY <1>1, <1>2

\* A file gets its block with its first bytes, and loses its bytes before its
\* block.
LEMMA SizedStep == FsInv /\ [Next]_vars => SizedHasBlock'
<1> SUFFICES ASSUME FsInv, [Next]_vars PROVE SizedHasBlock'
  OBVIOUS
<1>1. TypeOK /\ SizedHasBlock /\ inode_table \in [Inodes -> InodeType]
  BY DEF FsInv, TypeOK
<1>2. ASSUME NEW n \in Names, NEW trunc \in BOOLEAN, NEW append \in BOOLEAN,
             OpenExisting(n, trunc, append)
      PROVE  SizedHasBlock'
  <2>1. PICK i : i = Lookup(n)
    OBVIOUS
  <2>2. PICK size : size = IF trunc THEN 0 ELSE Size(i)
    OBVIOUS
  <2>3. inode_table' = [inode_table EXCEPT ![i].i_size = size]
    BY <1>2, <2>1, <2>2 DEF OpenExisting
  <2> SUFFICES ASSUME NEW j \in Inodes, inode_table'[j].i_size > 0
               PROVE  inode_table'[j].i_data_block # None
    BY DEF SizedHasBlock, Size, Block
  <2>4. inode_table'[j].i_data_block = Block(j)
    BY <1>1, <2>3 DEF Block, InodeType
  <2>5. inode_table'[j].i_size = IF j = i THEN size ELSE Size(j)
    BY <1>1, <2>3 DEF Size, InodeType
  <2>6. Size(j) > 0
    BY <2>2, <2>5
  <2> QED BY <1>1, <2>4, <2>6 DEF SizedHasBlock
<1>3. ASSUME NEW i, inode_table' = [inode_table EXCEPT ![i] = EmptyInode]
      PROVE  SizedHasBlock'
  <2>1. ~(EmptyInode.i_size > 0)
    BY DEF EmptyInode
  <2> QED BY ONLY <1>1, <1>3, <2>1, SizedKept
<1>4. ASSUME NEW h \in Handles, NEW data \in Buffers, Write(h, data),
             ~Abort
      PROVE  SizedHasBlock'
  <2>1. PICK i : i = File(h)
    OBVIOUS
  <2>2. PICK b : b = Target(i)
    OBVIOUS
  <2>3. PICK size : size = Grown(Size(i), Offset(h) + ToWrite(h, Len(data)))
    OBVIOUS
  <2>4. /\ IsOpen(h) /\ Size(i) = 0 => free_blocks # {}
        /\ inode_table' = [inode_table EXCEPT ![i] =
              [i_size |-> size, i_data_block |-> b]]
    BY <1>4, <2>1, <2>2, <2>3 DEF Write
  <2>5. i \in Inodes /\ Size(i) \in 0 .. BlockSize
    BY <2>1, <2>4, <1>4, HandleInUse DEF FsInv, TypeAndRoot, Write
  <2>6. b # None
    <3>1. CASE Size(i) = 0
      BY <3>1, <2>2, <2>4, <1>4, <2>1, LowestFree, Numbering
         DEF Target, FsInv, TypeOK, Write
    <3>2. CASE Size(i) # 0
      BY <3>2, <2>2, <2>5, <1>1, Numbering DEF Target, SizedHasBlock
    <3> QED BY <3>1, <3>2
  <2> QED BY <1>1, <2>4, <2>6, SizedKept
<1>5. ASSUME UNCHANGED inode_table PROVE SizedHasBlock'
  BY <1>1, <1>5 DEF SizedHasBlock, Size, Block
<1>6. ASSUME NEW n \in Names, OpenCreate(n)
      PROVE  SizedHasBlock'
  BY <1>3, <1>6 DEF OpenCreate
<1>7. ASSUME NEW n \in Names \cup LongNames, OpenNoEntry(n)
      PROVE  SizedHasBlock'
  BY <1>3, <1>7 DEF OpenNoEntry
<1>8. ASSUME NEW n \in Names, Unlink(n)
      PROVE  SizedHasBlock'
  BY <1>5, <1>8 DEF Unlink
<1>9. ASSUME NEW h \in Handles, Close(h)
      PROVE  SizedHasBlock'
  BY <1>5, <1>9 DEF Close
<1>10. ASSUME NEW h \in Handles, NEW len \in 1 .. MaxIO, Read(h, len)
       PROVE  SizedHasBlock'
  BY <1>5, <1>10 DEF Read, Abort
<1>11. CASE Abort \/ UNCHANGED vars
  BY <1>5, <1>11 DEF Abort, vars
<1> QED BY <1>2, <1>4, <1>6, <1>7, <1>8, <1>9, <1>10, <1>11 DEF Next

-----------------------------------------------------------------------------
(* The invariant holds *)

\* tfs_init's state.
LEMMA InitInv == Init => FsInv
<1> SUFFICES ASSUME Init PROVE FsInv
  OBVIOUS
<1>1. PICK left \in [Entries -> Names \cup {NoName}] :
         dir = [e \in Entries |-> [EmptyEntry EXCEPT !.d_name = left[e]]]
  BY DEF Init
<1>2. \A e \in Entries : dir[e].d_inumber = None /\ dir[e] \in EntryType
  BY <1>1 DEF EmptyEntry, EntryType
<1>3. Live = {}
  BY <1>2 DEF Live
<1>4. FileInodes = {} /\ Owners = {}
  BY DEF Init, FileInodes, Owners
<1>5. \A h \in Handles : ~IsOpen(h)
  BY DEF Init, IsOpen
<1>6. inode_table \in [Inodes -> InodeType]
  <2>1. [i_size |-> BlockSize, i_data_block |-> 0] \in InodeType
    BY Numbering DEF InodeType
  <2> QED BY <2>1, EmptyInodeTyped DEF Init
<1>7. got \in Seq(Bytes \cup {Unwritten})
  BY DEF Init
<1>8. TypeOK
  BY <1>1, <1>2, <1>6, <1>7 DEF Init, TypeOK
<1>9. RootReserved
  BY <1>5 DEF Init, RootReserved
<1>10. DirInv
  BY <1>3, <1>4 DEF DirInv, DirectoryConsistent, ClearsTheEntryFound
<1>11. BlockOwnership
  BY <1>4 DEF BlockOwnership
<1>12. SizedHasBlock
  BY Numbering DEF Init, SizedHasBlock, Size, Block, EmptyInode, None
<1> QED BY <1>8, <1>9, <1>10, <1>11, <1>12 DEF FsInv

\* A call, whatever it does and however it fails, keeps the invariant.
LEMMA NextInv == FsInv /\ [Next]_vars => FsInv'
<1> SUFFICES ASSUME FsInv, [Next]_vars PROVE FsInv'
  OBVIOUS
<1>0. SizedHasBlock'
  BY SizedStep
<1> USE DEF FsInv
<1>1. ASSUME NEW n \in Names, NEW trunc \in BOOLEAN, NEW append \in BOOLEAN,
             OpenExisting(n, trunc, append)
      PROVE  FsInv'
  <2>1. TypeAndRoot'
    BY <1>1, TypeOpenExisting
  <2>2. DirInv'
    BY <1>1, DirUntouched DEF OpenExisting
  <2>3. BlockOwnership'
    BY <1>1, BlocksOpenExisting
  <2> QED BY <1>0, <2>1, <2>2, <2>3 DEF TypeAndRoot
<1>2. ASSUME NEW n \in Names, OpenCreate(n)
      PROVE  FsInv'
  <2>1. TypeAndRoot'
    BY <1>2, TypeOpenCreate DEF TypeAndRoot
  <2>2. DirInv'
    BY <1>2, DirCreate
  <2>3. BlockOwnership'
    BY <1>2, LowestFree, BlocksOfEmptied DEF OpenCreate
  <2> QED BY <1>0, <2>1, <2>2, <2>3 DEF TypeAndRoot
<1>3. ASSUME NEW n \in Names \cup LongNames, OpenNoEntry(n)
      PROVE  FsInv'
  <2>1. TypeAndRoot'
    BY <1>3, TypeOpenNoEntry DEF TypeAndRoot
  <2>2. DirInv'
    BY <1>3, DirUntouched DEF OpenNoEntry
  <2>3. BlockOwnership'
    BY <1>3, LowestFree, BlocksOfEmptied DEF OpenNoEntry
  <2> QED BY <1>0, <2>1, <2>2, <2>3 DEF TypeAndRoot
<1>4. ASSUME NEW n \in Names, Unlink(n)
      PROVE  FsInv'
  <2>1. TypeAndRoot'
    BY <1>4, TypeUnlink
  <2>2. DirInv'
    BY <1>4, DirUnlink
  <2>3. BlockOwnership'
    BY <1>4, BlocksUnlink
  <2> QED BY <1>0, <2>1, <2>2, <2>3 DEF TypeAndRoot
<1>5. ASSUME NEW h \in Handles, Close(h)
      PROVE  FsInv'
  <2>1. TypeAndRoot'
    BY <1>5, TypeClose DEF TypeAndRoot
  <2>2. DirInv'
    BY <1>5, DirUntouched DEF Close
  <2>3. BlockOwnership'
    BY <1>5, OwnersUntouched DEF Close
  <2> QED BY <1>0, <2>1, <2>2, <2>3 DEF TypeAndRoot
<1>6. ASSUME NEW h \in Handles, NEW data \in Buffers, Write(h, data)
      PROVE  FsInv'
  <2>1. TypeAndRoot'
    BY <1>6, TypeWrite
  <2>2. DirInv'
    BY <1>6, DirUntouched DEF Write, Abort
  <2>3. BlockOwnership'
    BY <1>6, BlocksWrite
  <2> QED BY <1>0, <2>1, <2>2, <2>3 DEF TypeAndRoot
<1>7. ASSUME NEW h \in Handles, NEW len \in 1 .. MaxIO, Read(h, len)
      PROVE  FsInv'
  <2>1. TypeAndRoot'
    BY <1>7, TypeRead
  <2>2. DirInv'
    BY <1>7, DirUntouched DEF Read, Abort
  <2>3. BlockOwnership'
    BY <1>7, OwnersUntouched DEF Read, Abort
  <2> QED BY <1>0, <2>1, <2>2, <2>3 DEF TypeAndRoot
<1>8. CASE UNCHANGED vars
  BY <1>0, <1>8 DEF vars, TypeOK, RootReserved, DirInv, DirectoryConsistent,
              ClearsTheEntryFound, BlockOwnership, Live, FileInodes, Owners,
              Size, Block, IsOpen, File
<1> QED BY <1>1, <1>2, <1>3, <1>4, <1>5, <1>6, <1>7, <1>8 DEF Next

\* The inductive invariant, of any calls in any order.
THEOREM Invariant == Spec => []FsInv
BY InitInv, NextInv, PTL DEF Spec

-----------------------------------------------------------------------------
(* What it shows of any sequence of calls *)

\* Every variable keeps its type: numbers of inodes and blocks stay in their
\* tables, and no file grows past its block.
THEOREM TypeCorrect == Spec => []TypeOK
<1>1. FsInv => TypeOK
  BY DEF FsInv
<1> QED BY <1>1, Invariant, PTL

\* The directory and the inode table agree after any calls, failed ones too.
THEOREM DirectoryStaysConsistent == Spec => []DirectoryConsistent
<1>1. FsInv => DirectoryConsistent
  BY DEF FsInv, DirInv
<1> QED BY <1>1, Invariant, PTL

\* clear_dir_entry always clears the entry that find_in_dir found, whatever the
\* heap left in the unused entries.
THEOREM RightEntryCleared == Spec => []ClearsTheEntryFound
<1>1. FsInv => ClearsTheEntryFound
  BY DEF FsInv, DirInv
<1> QED BY <1>1, Invariant, PTL

\* No stale handle, deletion or truncation ever makes two files share a block,
\* frees a block in use or takes the directory's.
THEOREM BlocksOwned == Spec => []BlockOwnership
<1>1. FsInv => BlockOwnership
  BY DEF FsInv
<1> QED BY <1>1, Invariant, PTL

-----------------------------------------------------------------------------
(* How the process dies, and how a handle is stranded *)

\* From inside its file, a write ends inside the block: nothing wraps.
LEMMA WriteInside ==
    ASSUME FsInv, NEW h \in Handles, IsOpen(h), ~PastEnd(h),
           NEW len \in 0 .. MaxIO
    PROVE  /\ ToWrite(h, len) \in Nat /\ Offset(h) \in Nat
           /\ Offset(h) + ToWrite(h, len) <= BlockSize
<1>1. /\ Offset(h) <= Size(File(h)) /\ Offset(h) \in 0 .. MaxOffset
      /\ Size(File(h)) \in 0 .. BlockSize
  <2>1. Offset(h) \in 0 .. MaxOffset /\ Size(File(h)) \in 0 .. BlockSize
    BY HandleInUse DEF FsInv, TypeAndRoot
  <2> QED BY <2>1, Numbering, BoundsAssumption DEF PastEnd
<1>2. /\ BlockSize \in Nat /\ MaxOffset \in Nat /\ MaxIO \in Nat
      /\ BlockSize <= MaxOffset /\ WordSize \in Nat
      /\ MaxOffset + MaxIO < WordSize
  <2>1. BlockCount * BlockSize \in Nat
    BY ParamsAssumption
  <2> QED BY <2>1, BoundsAssumption, Numbering
<1>3. Minus(BlockSize, Offset(h)) = BlockSize - Offset(h)
  BY <1>1, <1>2, MinusWraps
<1> QED BY <1>1, <1>2, <1>3 DEF ToWrite

\* From inside its file, a read ends inside the file, and a file that is not
\* empty has a block: the copy stays in fs_data.
LEMMA ReadInside ==
    ASSUME FsInv, NEW h \in Handles, IsOpen(h), ~PastEnd(h),
           NEW len \in 1 .. MaxIO
    PROVE  LET n == ToRead(h, len)
               i == File(h)
           IN  /\ n \in Nat /\ Offset(h) + n <= Size(i)
               /\ n > 0 => /\ Block(i) # None
                           /\ ~(Block(i) * BlockSize + Offset(h) + n
                                   > BlockCount * BlockSize)
<1>1. PICK n : n = ToRead(h, len)
  OBVIOUS
<1>2. PICK i : i = File(h)
  OBVIOUS
<1>3. PICK k : k = Offset(h)
  OBVIOUS
<1>4. /\ k \in 0 .. Size(i) /\ i \in Inodes /\ Block(i) \in Blocks \cup {None}
      /\ Size(i) \in 0 .. BlockSize /\ BlockSize \in Nat
  <2>1. /\ k \in 0 .. MaxOffset /\ i \in Inodes /\ Size(i) \in 0 .. BlockSize
        /\ Block(i) \in Blocks \cup {None}
    BY <1>2, <1>3, HandleInUse DEF FsInv, TypeAndRoot
  <2>2. ~(k > Size(i))
    BY <1>2, <1>3 DEF PastEnd
  <2> QED BY <2>1, <2>2, Numbering, BoundsAssumption
<1>5. n \in Nat /\ n <= Size(i) - k
  BY <1>1, <1>2, <1>3, <1>4, ReadCounts DEF FsInv, TypeAndRoot
<1>6. k + n <= Size(i)
  BY <1>4, <1>5
<1>7. ASSUME n > 0
      PROVE  /\ Block(i) # None
             /\ ~(Block(i) * BlockSize + k + n > BlockCount * BlockSize)
  <2>1. Block(i) # None
    BY <1>4, <1>5, <1>6, <1>7 DEF FsInv, SizedHasBlock
  <2>2. PICK b : b = Block(i)
    OBVIOUS
  <2>3. b \in 0 .. BlockCount - 1 /\ BlockCount \in Nat
    BY <1>4, <2>1, <2>2, ParamsAssumption DEF Blocks
  <2>4. PICK c \in Nat : BlockCount = b + 1 + c
    <3>1. BlockCount - (b + 1) \in Nat /\ BlockCount = b + 1 + (BlockCount - (b + 1))
      BY <2>3
    <3> QED BY <3>1
  <2>5. BlockCount * BlockSize = b * BlockSize + BlockSize + c * BlockSize
    BY <2>3, <2>4, <1>4
  <2>6. c * BlockSize \in Nat /\ b * BlockSize \in Nat
    BY <2>3, <2>4, <1>4
  <2>7. ~(b * BlockSize + k + n > BlockCount * BlockSize)
    BY <2>5, <2>6, <1>4, <1>5, <1>6
  <2>8. b # None
    BY <2>3 DEF None
  <2> QED BY <2>2, <2>7, <2>8
<1> QED BY <1>1, <1>2, <1>3, <1>5, <1>6, <1>7

\* With no handle past the end no copy leaves the heap; and no inode is ever
\* deleted twice.
LEMMA AliveNext ==
    ASSUME FsInv, alive, Next, \A h \in Handles : ~PastEnd(h)
    PROVE  alive'
<1>1. ASSUME NEW n \in Names, Unlink(n)
      PROVE  alive'
  BY <1>1, LookupFindsTheEntry DEF Unlink, FsInv, DirInv, FileInodes
<1>2. ASSUME NEW h \in Handles, NEW data \in Buffers, Write(h, data)
      PROVE  alive'
  <2>1. PICK n : n = ToWrite(h, Len(data))
    OBVIOUS
  <2>2. IsOpen(h)
    BY <1>2 DEF Write
  <2>3. n \in Nat /\ Offset(h) \in Nat /\ Offset(h) + n <= BlockSize
    BY <2>1, <2>2, BufferTyped, WriteInside
  <2>4. ~(n > BlockSize)
    BY <2>3, Numbering
  <2>5. n > BlockSize \/ UNCHANGED alive
    BY <1>2, <2>1 DEF Write
  <2> QED BY <2>4, <2>5
<1>3. ASSUME NEW h \in Handles, NEW len \in 1 .. MaxIO, Read(h, len)
      PROVE  alive'
  <2>1. PICK n : n = ToRead(h, len)
    OBVIOUS
  <2>2. PICK at : at = Block(File(h)) * BlockSize + Offset(h)
    OBVIOUS
  <2>3. IsOpen(h)
    BY <1>3 DEF Read
  <2>4. n > 0 => /\ Block(File(h)) # None
                 /\ ~(at + n > BlockCount * BlockSize)
    BY <2>1, <2>2, <2>3, ReadInside
  <2>5. \/ n > 0 /\ Block(File(h)) = None
        \/ n > 0 /\ at + n > BlockCount * BlockSize
        \/ UNCHANGED alive
    BY <1>3, <2>1, <2>2 DEF Read
  <2> QED BY <2>4, <2>5
<1> QED BY <1>1, <1>2, <1>3 DEF Next, OpenExisting, OpenCreate, OpenNoEntry, Close

\* A call ends the process only while some handle is past the end of its file.
THEOREM DeathExplained == Spec => DiesOnlyPastEnd
<1>1. FsInv /\ [Next]_vars => [DeathStep]_vars
  BY AliveNext DEF DeathStep, vars
<1> QED BY <1>1, Invariant, PTL DEF Spec, DiesOnlyPastEnd

\* No call shortens a file, but to nothing.
LEMMA SizesStep ==
    ASSUME FsInv, [Next]_vars, NEW i \in Inodes
    PROVE  inode_table'[i].i_size = 0 \/ inode_table'[i].i_size >= Size(i)
<1>1. inode_table \in [Inodes -> InodeType] /\ Size(i) \in Nat
  BY SizeTyped, Numbering DEF FsInv, TypeOK
<1>2. ASSUME UNCHANGED inode_table
      PROVE  inode_table'[i].i_size >= Size(i)
  BY <1>1, <1>2 DEF Size
<1>3. ASSUME NEW j, inode_table' = [inode_table EXCEPT ![j] = EmptyInode]
      PROVE  inode_table'[i].i_size = 0 \/ inode_table'[i].i_size >= Size(i)
  BY <1>1, <1>3 DEF Size, EmptyInode
<1>4. ASSUME NEW n \in Names, NEW trunc \in BOOLEAN, NEW append \in BOOLEAN,
             OpenExisting(n, trunc, append)
      PROVE  inode_table'[i].i_size = 0 \/ inode_table'[i].i_size >= Size(i)
  <2>1. PICK j : j = Lookup(n)
    OBVIOUS
  <2>2. PICK size : size = IF trunc THEN 0 ELSE Size(j)
    OBVIOUS
  <2>3. inode_table' = [inode_table EXCEPT ![j].i_size = size]
    BY <1>4, <2>1, <2>2 DEF OpenExisting
  <2>4. inode_table'[i].i_size = IF i = j THEN size ELSE Size(i)
    BY <1>1, <2>3 DEF Size, InodeType
  <2> QED BY <1>1, <2>2, <2>4
<1>5. ASSUME NEW h \in Handles, NEW data \in Buffers, Write(h, data), ~Abort
      PROVE  inode_table'[i].i_size >= Size(i)
  <2>1. PICK to : to = Offset(h) + ToWrite(h, Len(data))
    OBVIOUS
  <2>2. PICK j : j = File(h)
    OBVIOUS
  <2>3. PICK b : b = Target(j)
    OBVIOUS
  <2>4. inode_table' = [inode_table EXCEPT ![j] =
           [i_size |-> Grown(Size(j), to), i_data_block |-> b]]
    BY <1>5, <2>1, <2>2, <2>3 DEF Write
  <2>5. to \in Nat
    <3>1. IsOpen(h) /\ TypeAndRoot
      BY <1>5 DEF Write, FsInv, TypeAndRoot
    <3>2. Offset(h) \in 0 .. MaxOffset /\ ToWrite(h, Len(data)) \in Nat
      BY <3>1, HandleInUse, BufferTyped, WriteFits
    <3> QED BY <3>2, <2>1, BoundsAssumption
  <2>6. CASE i = j
    <3>1. Grown(Size(i), to) >= Size(i)
      BY <1>1, <2>5, MaxOfTwo DEF Grown
    <3> QED BY <1>1, <2>4, <2>6, <3>1
  <2>7. CASE i # j
    BY <1>1, <2>4, <2>7 DEF Size
  <2> QED BY <2>6, <2>7
<1>6. ASSUME NEW n \in Names, OpenCreate(n)
      PROVE  inode_table'[i].i_size = 0 \/ inode_table'[i].i_size >= Size(i)
  BY <1>3, <1>6 DEF OpenCreate
<1>7. ASSUME NEW n \in Names \cup LongNames, OpenNoEntry(n)
      PROVE  inode_table'[i].i_size = 0 \/ inode_table'[i].i_size >= Size(i)
  BY <1>3, <1>7 DEF OpenNoEntry
<1>8. ASSUME NEW n \in Names, Unlink(n)
      PROVE  inode_table'[i].i_size >= Size(i)
  BY <1>2, <1>8 DEF Unlink
<1>9. ASSUME NEW h \in Handles, Close(h)
      PROVE  inode_table'[i].i_size >= Size(i)
  BY <1>2, <1>9 DEF Close
<1>10. ASSUME NEW h \in Handles, NEW len \in 1 .. MaxIO, Read(h, len)
       PROVE  inode_table'[i].i_size >= Size(i)
  BY <1>2, <1>10 DEF Read, Abort
<1>11. CASE Abort \/ UNCHANGED vars
  BY <1>2, <1>11 DEF Abort, vars
<1> QED BY <1>4, <1>5, <1>6, <1>7, <1>8, <1>9, <1>10, <1>11 DEF Next

\* What a step makes of a handle it does not leave alone: one that is closed,
\* or stands inside a file it led to before or is in the directory.
Landed(g) ==
    IsOpen(g)' => /\ Offset(g)' \in 0 .. Size(File(g))'
                  /\ \/ IsOpen(g) /\ File(g)' = File(g)
                     \/ File(g)' \in FileInodes'

\* A new handle starts inside its file, at 0 or at the end.
LEMMA AddedLands ==
    ASSUME TypeOK, NEW i \in FileInodes', NEW k \in 0 .. inode_table'[i].i_size,
           AddToOpenFileTable(i, k), NEW g \in Handles
    PROVE  open_file_table'[g] = open_file_table[g] \/ Landed(g)
<1> DEFINE free == {h \in Handles : ~IsOpen(h)}
           new == [of_inumber |-> i, of_offset |-> k]
<1>1. CASE open_file_table' = open_file_table
  BY <1>1
<1>2. CASE open_file_table' = [open_file_table EXCEPT ![Min(free)] = new]
  <2>1. g # Min(free) => open_file_table'[g] = open_file_table[g]
    BY <1>2 DEF TypeOK
  <2>2. g = Min(free) => open_file_table'[g] = new
    BY <1>2 DEF TypeOK
  <2>3. ASSUME open_file_table'[g] = new
        PROVE  Landed(g)
    <3>1. File(g)' = i /\ Offset(g)' = k
      BY <2>3 DEF File, Offset
    <3> QED BY <3>1 DEF Landed, Size
  <2> QED BY <2>1, <2>2, <2>3
<1> QED BY <1>1, <1>2 DEF AddToOpenFileTable

\* A handle that is moved stays inside its file if the file reaches so far.
LEMMA MovedLands ==
    ASSUME TypeOK, NEW h \in Handles, IsOpen(h), NEW n \in Nat,
           open_file_table' = [open_file_table EXCEPT ![h].of_offset = @ + n],
           Offset(h) + n <= inode_table'[File(h)].i_size,
           inode_table'[File(h)].i_size \in Nat, NEW g \in Handles
    PROVE  open_file_table'[g] = open_file_table[g] \/ Landed(g)
<1>1. CASE g # h
  BY <1>1 DEF TypeOK
<1>2. CASE g = h
  <2>1. open_file_table[h] \in OpenFileType
    BY DEF TypeOK, IsOpen
  <2>2. PICK f : f = File(h)
    OBVIOUS
  <2>3. PICK k : k = Offset(h)
    OBVIOUS
  <2>4. k \in Nat
    BY <2>1, <2>3, BoundsAssumption DEF OpenFileType, Offset
  <2>5. File(g)' = f /\ Offset(g)' = k + n
    BY <1>2, <2>1, <2>2, <2>3 DEF File, Offset, OpenFileType, TypeOK
  <2>6. Size(File(g))' = inode_table'[f].i_size
    BY <2>5 DEF Size
  <2>7. k + n \in 0 .. inode_table'[f].i_size
    BY <2>2, <2>3, <2>4
  <2>8. IsOpen(g) /\ File(g)' = File(g)
    BY <1>2, <2>2, <2>5
  <2> QED BY <2>5, <2>6, <2>7, <2>8 DEF Landed
<1> QED BY <1>1, <1>2

\* Whatever a step does to a handle that is not past the end, it lands.
LEMMA HandlesStep ==
    ASSUME FsInv, FsInv', [Next]_vars, NEW g \in Handles, ~PastEnd(g)
    PROVE  open_file_table'[g] = open_file_table[g] \/ Landed(g)
<1>0. TypeOK /\ TypeAndRoot /\ inode_table' \in [Inodes -> InodeType]
  BY DEF FsInv, TypeAndRoot, TypeOK
<1>1. ASSUME NEW n \in Names, NEW trunc \in BOOLEAN, NEW append \in BOOLEAN,
             OpenExisting(n, trunc, append)
      PROVE  open_file_table'[g] = open_file_table[g] \/ Landed(g)
  <2>1. PICK i \in FileInodes : i = Lookup(n) /\ i \in Inodes
    BY <1>1, LookupFindsTheEntry DEF OpenExisting, FsInv, DirInv, FileInodes
  <2>2. PICK size : size = IF trunc THEN 0 ELSE Size(i)
    OBVIOUS
  <2>3. size \in Nat
    BY <2>1, <2>2, SizeTyped, Numbering DEF FsInv
  <2>4. /\ inode_table' = [inode_table EXCEPT ![i].i_size = size]
        /\ AddToOpenFileTable(i, IF append THEN size ELSE 0)
        /\ UNCHANGED free_inodes
    BY <1>1, <2>1, <2>2 DEF OpenExisting
  <2>5. inode_table'[i].i_size = size /\ i \in FileInodes'
    BY <2>1, <2>4 DEF FsInv, TypeOK, InodeType, FileInodes
  <2>6. (IF append THEN size ELSE 0) \in 0 .. inode_table'[i].i_size
    BY <2>3, <2>5
  <2> QED BY <1>0, <2>4, <2>5, <2>6, AddedLands
<1>2. ASSUME NEW n \in Names, OpenCreate(n)
      PROVE  open_file_table'[g] = open_file_table[g] \/ Landed(g)
  <2>1. PICK i \in free_inodes : i = Min(free_inodes)
    BY <1>2, LowestFree DEF OpenCreate, FsInv
  <2>2. /\ inode_table' = [inode_table EXCEPT ![i] = EmptyInode]
        /\ free_inodes' = free_inodes \ {i}
        /\ AddToOpenFileTable(i, 0)
    BY <1>2, <2>1 DEF OpenCreate
  <2>3. inode_table'[i].i_size = 0 /\ i \in FileInodes'
    BY <2>1, <2>2 DEF FsInv, TypeOK, FileInodes, EmptyInode, RootReserved
  <2>4. 0 \in 0 .. inode_table'[i].i_size
    BY <2>3
  <2> QED BY <1>0, <2>2, <2>3, <2>4, AddedLands
<1>3. ASSUME NEW h \in Handles, Close(h)
      PROVE  open_file_table'[g] = open_file_table[g] \/ Landed(g)
  BY <1>0, <1>3 DEF Close, Landed, IsOpen, TypeOK
<1>4. ASSUME NEW h \in Handles, NEW data \in Buffers, Write(h, data), ~Abort
      PROVE  open_file_table'[g] = open_file_table[g] \/ Landed(g)
  <2>1. PICK n : n = ToWrite(h, Len(data))
    OBVIOUS
  <2>2. PICK i : i = File(h)
    OBVIOUS
  <2>3. PICK k : k = Offset(h)
    OBVIOUS
  <2>4. PICK size : size = Grown(Size(i), k + n)
    OBVIOUS
  <2>5. PICK b : b = Target(i)
    OBVIOUS
  <2>6. /\ IsOpen(h)
        /\ inode_table' = [inode_table EXCEPT ![i] =
              [i_size |-> size, i_data_block |-> b]]
        /\ open_file_table' = [open_file_table EXCEPT ![h].of_offset = @ + n]
    BY <1>4, <2>1, <2>2, <2>3, <2>4, <2>5 DEF Write
  <2>7. /\ k \in 0 .. MaxOffset /\ i \in Inodes /\ Size(i) \in 0 .. BlockSize
        /\ n \in Nat
    BY <1>0, <2>1, <2>2, <2>3, <2>6, HandleInUse, BufferTyped, WriteFits
  <2>8. k + n <= size
    <3>1. k + n \in Nat /\ Size(i) \in Nat
      BY <2>7, Numbering, BoundsAssumption
    <3> QED BY <3>1, <2>4, MaxOfTwo DEF Grown
  <2>9. inode_table'[i].i_size = size
    BY <2>6, <2>7 DEF FsInv, TypeOK
  <2>10. inode_table'[i].i_size \in Nat
    BY <1>0, <2>7, Numbering DEF InodeType
  <2> QED BY <1>0, <2>2, <2>3, <2>6, <2>7, <2>8, <2>9, <2>10, MovedLands
<1>5. ASSUME NEW h \in Handles, NEW len \in 1 .. MaxIO, Read(h, len), ~Abort
      PROVE  open_file_table'[g] = open_file_table[g] \/ Landed(g)
  <2>1. PICK n : n = ToRead(h, len)
    OBVIOUS
  <2>2. /\ IsOpen(h)
        /\ open_file_table' = [open_file_table EXCEPT ![h].of_offset = @ + n]
        /\ UNCHANGED inode_table
    BY <1>5, <2>1 DEF Read
  <2>3. CASE g # h
    BY <1>0, <2>2, <2>3 DEF TypeOK
  <2>4. CASE g = h
    <3>1. n \in Nat /\ Offset(h) + n <= Size(File(h))
      BY <2>1, <2>2, <2>4, ReadInside
    <3>2. Size(File(h)) \in Nat
      BY <1>0, <2>2, HandleInUse, Numbering
    <3>3. inode_table'[File(h)].i_size = Size(File(h))
      BY <2>2 DEF Size
    <3> QED BY <1>0, <2>2, <3>1, <3>2, <3>3, MovedLands
  <2> QED BY <2>3, <2>4
<1>6. ASSUME NEW n \in Names \cup LongNames, OpenNoEntry(n) \/ Unlink(n)
      PROVE  open_file_table'[g] = open_file_table[g]
  BY <1>6 DEF OpenNoEntry, Unlink
<1>7. CASE Abort \/ UNCHANGED vars
  BY <1>7 DEF Abort, vars
<1> QED BY <1>1, <1>2, <1>3, <1>4, <1>5, <1>6, <1>7 DEF Next

\* A handle comes to stand past the end only where a file that had bytes, and
\* that it led to already, is left with none.
THEOREM StrandingExplained == Spec => StrandedOnlyByEmptying
<1>1. ASSUME FsInv, FsInv', [Next]_vars PROVE StrandingStep
  <2> SUFFICES ASSUME NEW h \in Handles, PastEnd(h)', ~PastEnd(h)
               PROVE  /\ IsOpen(h) /\ open_file_table'[h] = open_file_table[h]
                      /\ Size(File(h)) > 0 /\ inode_table'[File(h)].i_size = 0
    BY DEF StrandingStep
  <2>1. IsOpen(h)' /\ Offset(h)' > Size(File(h))'
    BY DEF PastEnd
  <2>2. IsOpen(h)' => Offset(h)' \in Int /\ Size(File(h))' \in Int
    <3>1. (FsInv => TypeAndRoot)'
      BY DEF FsInv, TypeAndRoot
    <3>2. (TypeAndRoot /\ IsOpen(h) =>
              Offset(h) \in 0 .. MaxOffset /\ Size(File(h)) \in 0 .. BlockSize)'
      BY HandleInUse, PTL
    <3> QED BY <1>1, <3>1, <3>2
  <2>3. open_file_table'[h] = open_file_table[h]
    <3>1. open_file_table'[h] = open_file_table[h] \/ Landed(h)
      BY <1>1, HandlesStep
    <3> QED BY <2>1, <2>2, <3>1 DEF Landed
  <2>4. PICK f : f = File(h)
    OBVIOUS
  <2>5. PICK k : k = Offset(h)
    OBVIOUS
  <2>6. IsOpen(h) /\ File(h)' = f /\ Offset(h)' = k
    BY <2>1, <2>3, <2>4, <2>5 DEF IsOpen, File, Offset
  <2>7. /\ f \in Inodes /\ k \in 0 .. MaxOffset /\ Size(f) \in 0 .. BlockSize
        /\ k <= Size(f)
    <3>1. /\ f \in Inodes /\ k \in 0 .. MaxOffset /\ Size(f) \in 0 .. BlockSize
      BY <1>1, <2>4, <2>5, <2>6, HandleInUse DEF FsInv, TypeAndRoot
    <3> QED BY <3>1, <2>4, <2>5, <2>6, Numbering, BoundsAssumption DEF PastEnd
  <2>8. k > inode_table'[f].i_size /\ inode_table'[f].i_size \in Int
    BY <2>1, <2>2, <2>6 DEF Size
  <2>9. inode_table'[f].i_size = 0 \/ inode_table'[f].i_size >= Size(f)
    BY <1>1, <2>7, SizesStep
  <2>10. inode_table'[f].i_size = 0 /\ Size(f) > 0
    BY <2>7, <2>8, <2>9, Numbering, BoundsAssumption
  <2> QED BY <2>3, <2>4, <2>6, <2>10
<1>2. FsInv /\ FsInv' /\ [Next]_vars => [StrandingStep]_vars
  BY <1>1
<1> QED BY <1>2, Invariant, PTL DEF Spec, StrandedOnlyByEmptying

-----------------------------------------------------------------------------
(* Coordinated calls *)

Coordinated == OffsetsWithinFile /\ NoBlockLeaks /\ alive

\* A handle inside its file is not past the end of it.
LEMMA NonePastEnd ==
    ASSUME OffsetsWithinFile, FsInv, NEW h \in Handles
    PROVE  ~PastEnd(h)
<1>1. IsOpen(h) => Size(File(h)) \in 0 .. BlockSize
  BY HandleInUse DEF FsInv, TypeAndRoot
<1> QED BY <1>1, Numbering DEF OffsetsWithinFile, PastEnd

\* What a step does not leave alone lands, and what it leaves alone is spared.
LEMMA OffsetsStep ==
    ASSUME FsInv, FsInv', OffsetsWithinFile, [Next]_vars, SparesOpenFiles
    PROVE  OffsetsWithinFile'
<1> SUFFICES ASSUME NEW g \in Handles, IsOpen(g)'
             PROVE  /\ File(g)' \in FileInodes'
                    /\ Offset(g)' \in 0 .. Size(File(g))'
  BY DEF OffsetsWithinFile
<1>1. ASSUME IsOpen(g)
      PROVE  /\ File(g) \in FileInodes' /\ Offset(g) \in Nat
             /\ inode_table'[File(g)].i_size \in Nat
             /\ Offset(g) <= inode_table'[File(g)].i_size
  <2>1. File(g) \in Inodes \ {Root} /\ Offset(g) \in 0 .. MaxOffset
    BY <1>1, HandleInUse DEF FsInv, TypeAndRoot
  <2>2. inode_table'[File(g)].i_size \in 0 .. BlockSize
    BY <2>1 DEF FsInv, TypeOK, InodeType
  <2>3. /\ File(g) \notin free_inodes'
        /\ inode_table'[File(g)].i_size >= Offset(g)
    BY <1>1 DEF SparesOpenFiles
  <2> QED BY <2>1, <2>2, <2>3, Numbering, BoundsAssumption DEF FileInodes
<1>2. CASE open_file_table'[g] = open_file_table[g]
  <2>1. IsOpen(g) /\ File(g)' = File(g) /\ Offset(g)' = Offset(g)
    BY <1>2 DEF IsOpen, File, Offset
  <2>2. Size(File(g))' = inode_table'[File(g)].i_size
    BY <2>1 DEF Size
  <2> QED BY <1>1, <2>1, <2>2
<1>3. CASE Landed(g)
  BY <1>1, <1>3 DEF Landed
<1> QED BY <1>2, <1>3, NonePastEnd, HandlesStep

\* A file that is emptied or deleted gives back its block and no other.
LEMMA BlockGivenBack ==
    ASSUME FsInv, NoBlockLeaks, NEW i \in FileInodes,
           Owners' = Owners \ {i}, free_blocks' = free_blocks \cup Released(i),
           \A j \in Inodes : inode_table'[j].i_data_block = Block(j)
    PROVE  NoBlockLeaks'
<1>1. Owners \subseteq Inodes
  BY DEF Owners, FileInodes
<1>2. \A j \in Owners' : Block(j)' = Block(j)
  BY <1>1 DEF Block
<1>3. {Block(j)' : j \in Owners'} = {Block(j) : j \in Owners \ {i}}
  BY <1>2
<1>4. CASE i \in Owners
  <2>1. Released(i) = {Block(i)}
    BY <1>4 DEF Released, Owners
  <2>2. \A j \in Owners \ {i} : Block(j) # Block(i)
    BY <1>4 DEF FsInv, BlockOwnership
  <2>3. Block(i) # 0 /\ Block(i) \in Blocks
    BY <1>4 DEF FsInv, BlockOwnership
  <2>4. Blocks \ free_blocks' = {0} \cup {Block(j) : j \in Owners \ {i}}
    BY <2>1, <2>2, <2>3 DEF NoBlockLeaks
  <2> QED BY <2>4, <1>3 DEF NoBlockLeaks
<1>5. CASE i \notin Owners
  BY <1>3, <1>5 DEF Released, Owners, NoBlockLeaks
<1> QED BY <1>4, <1>5

\* A file written for the first time takes the block it is given.
LEMMA BlockTaken ==
    ASSUME FsInv, NoBlockLeaks, NEW i \in FileInodes, NEW b \in Blocks,
           i \notin Owners, Owners' = Owners \cup {i},
           free_blocks' = free_blocks \ {b},
           inode_table'[i].i_data_block = b,
           \A j \in Inodes : j # i => inode_table'[j].i_data_block = Block(j)
    PROVE  NoBlockLeaks'
<1>1. Owners \subseteq Inodes
  BY DEF Owners, FileInodes
<1>2. Block(i)' = b /\ \A j \in Owners : Block(j)' = Block(j)
  BY <1>1 DEF Block
<1>3. {Block(j)' : j \in Owners'} = {Block(j) : j \in Owners} \cup {b}
  BY <1>2
<1> QED BY <1>3 DEF NoBlockLeaks

\* Whatever happens to the inodes, nothing leaks while the owners keep theirs.
LEMMA BlocksStay ==
    ASSUME NoBlockLeaks, Owners' = Owners, UNCHANGED free_blocks,
           \A j \in Owners : inode_table'[j].i_data_block = Block(j)
    PROVE  NoBlockLeaks'
<1>1. {Block(j)' : j \in Owners'} = {Block(j) : j \in Owners}
  BY DEF Block
<1> QED BY <1>1 DEF NoBlockLeaks

\* A new inode is emptied: it owns nothing, and had been owning nothing.
LEMMA NothingOwned ==
    ASSUME FsInv, NEW i \in free_inodes,
           inode_table' = [inode_table EXCEPT ![i] = EmptyInode],
           free_inodes' \in {free_inodes, free_inodes \ {i}}
    PROVE  /\ Owners' = Owners
           /\ \A j \in Owners : inode_table'[j].i_data_block = Block(j)
<1>1. i \in Inodes /\ inode_table \in [Inodes -> InodeType]
  BY DEF FsInv, TypeOK
<1>2. inode_table'[i].i_size = 0
  BY <1>1 DEF EmptyInode
<1>3. \A j \in Inodes : j # i => /\ inode_table'[j].i_size = Size(j)
                                 /\ inode_table'[j].i_data_block = Block(j)
  BY <1>1 DEF Size, Block
<1>4. i \notin Owners /\ Owners \subseteq Inodes
  BY DEF Owners, FileInodes
<1>5. ASSUME NEW j \in Inodes, j # i
      PROVE  j \in Owners' <=> j \in Owners
  BY <1>3, <1>5 DEF Owners, FileInodes, Size
<1>6. i \notin Owners' /\ Owners' \subseteq Inodes
  BY <1>2 DEF Owners, FileInodes, Size
<1>7. Owners' = Owners
  <2>1. ASSUME NEW j PROVE j \in Owners' <=> j \in Owners
    BY <1>4, <1>5, <1>6
  <2> QED BY <2>1
<1>8. \A j \in Owners : inode_table'[j].i_data_block = Block(j)
  BY <1>3, <1>4
<1> QED BY <1>7, <1>8

\* An open of an existing file frees a block only by emptying the file.
LEMMA LeaksOpenExisting ==
    ASSUME FsInv, NoBlockLeaks, NEW n \in Names, NEW trunc \in BOOLEAN,
           NEW append \in BOOLEAN, OpenExisting(n, trunc, append)
    PROVE  NoBlockLeaks'
<1>1. PICK i \in FileInodes : i = Lookup(n) /\ i \in Inodes
  BY LookupFindsTheEntry DEF OpenExisting, FsInv, DirInv, FileInodes
<1>2. PICK size : size = IF trunc THEN 0 ELSE Size(i)
  OBVIOUS
<1>3. /\ inode_table' = [inode_table EXCEPT ![i].i_size = size]
      /\ free_blocks' = free_blocks \cup (IF trunc THEN Released(i) ELSE {})
      /\ UNCHANGED free_inodes
  BY <1>1, <1>2 DEF OpenExisting
<1>4. inode_table \in [Inodes -> InodeType]
  BY DEF FsInv, TypeOK
<1>5. \A j \in Inodes :
         /\ inode_table'[j].i_data_block = Block(j)
         /\ inode_table'[j].i_size = IF j = i THEN size ELSE Size(j)
  BY <1>1, <1>3, <1>4 DEF Block, Size, InodeType
<1>6. \A j : j \in Owners' <=> j \in FileInodes /\ inode_table'[j].i_size > 0
  BY <1>3 DEF Owners, FileInodes, Size
<1>7. FileInodes \subseteq Inodes
  BY DEF FileInodes
<1>8. CASE ~trunc
  <2>1. \A j \in Inodes : inode_table'[j].i_size = Size(j)
    BY <1>2, <1>5, <1>8
  <2>2. Owners' = Owners
    BY <2>1, <1>6, <1>7 DEF Owners
  <2>3. \A j \in Owners : inode_table'[j].i_data_block = Block(j)
    BY <1>5, <1>7 DEF Owners
  <2> QED BY <2>2, <2>3, <1>3, <1>8, BlocksStay
<1>9. CASE trunc
  <2>1. size = 0
    BY <1>2, <1>9
  <2>2. ASSUME NEW j
        PROVE  j \in Owners' <=> j \in Owners /\ j # i
    BY <2>1, <1>5, <1>6, <1>7 DEF Owners
  <2>3. Owners' = Owners \ {i}
    BY <2>2
  <2>4. free_blocks' = free_blocks \cup Released(i)
    BY <1>3, <1>9
  <2> QED BY <2>3, <2>4, <1>5, BlockGivenBack
<1> QED BY <1>8, <1>9

\* A removal frees the block of the file it removes.
LEMMA LeaksUnlink ==
    ASSUME FsInv, NoBlockLeaks, NEW n \in Names, Unlink(n)
    PROVE  NoBlockLeaks'
<1>1. PICK i \in FileInodes : i = Lookup(n)
  BY LookupFindsTheEntry DEF Unlink, FsInv, DirInv
<1>2. /\ free_inodes' = free_inodes \cup {i}
      /\ free_blocks' = free_blocks \cup Released(i)
      /\ UNCHANGED inode_table
  BY <1>1 DEF Unlink
<1>3. Owners' = Owners \ {i}
  BY <1>2 DEF Owners, FileInodes, Size
<1> QED BY <1>2, <1>3, BlockGivenBack DEF Block

\* A write makes its file an owner, as an open file is in the directory.
LEMMA LeaksWrite ==
    ASSUME FsInv, NoBlockLeaks, OffsetsWithinFile, NEW h \in Handles,
           NEW data \in Buffers, Write(h, data), ~PastEnd(h)
    PROVE  NoBlockLeaks'
<1>1. PICK n : n = ToWrite(h, Len(data))
  OBVIOUS
<1>2. PICK i : i = File(h)
  OBVIOUS
<1>3. PICK b : b = Target(i)
  OBVIOUS
<1>4. PICK k : k = Offset(h)
  OBVIOUS
<1>5. IsOpen(h) /\ n > 0
  BY <1>1 DEF Write
<1>6. n \in Nat /\ k \in Nat /\ k + n <= BlockSize
  BY <1>1, <1>4, <1>5, BufferTyped, WriteInside
<1>7. i \in FileInodes /\ i \in Inodes
  BY <1>2, <1>5 DEF OffsetsWithinFile, FileInodes
<1>8. Size(i) \in 0 .. BlockSize
  BY <1>7, SizeTyped DEF FsInv
<1>9. ~(n > BlockSize)
  BY <1>6, Numbering
<1>10. PICK size : size = Grown(Size(i), k + n)
  OBVIOUS
<1>11. /\ Size(i) = 0 => free_blocks # {}
       /\ free_blocks' = IF Size(i) = 0 THEN free_blocks \ {b} ELSE free_blocks
       /\ inode_table' = [inode_table EXCEPT ![i] =
             [i_size |-> size, i_data_block |-> b]]
       /\ UNCHANGED free_inodes
  BY <1>1, <1>2, <1>3, <1>4, <1>9, <1>10 DEF Write
<1>12. size \in Nat /\ size > 0
  <2>1. Size(i) \in Nat /\ k + n \in Nat
    BY <1>6, <1>8, Numbering
  <2> QED BY <2>1, <1>5, <1>6, <1>10, MaxOfTwo DEF Grown
<1>13. inode_table \in [Inodes -> InodeType]
  BY DEF FsInv, TypeOK
<1>14. /\ inode_table'[i].i_size = size /\ inode_table'[i].i_data_block = b
       /\ \A j \in Inodes : j # i => /\ inode_table'[j].i_size = Size(j)
                                     /\ inode_table'[j].i_data_block = Block(j)
  BY <1>7, <1>11, <1>13 DEF Size, Block
<1>15. \A j : j \in Owners' <=> j \in FileInodes /\ inode_table'[j].i_size > 0
  BY <1>11 DEF Owners, FileInodes, Size
<1>16. FileInodes \subseteq Inodes
  BY DEF FileInodes
<1>17. Owners' = Owners \cup {i}
  BY <1>7, <1>12, <1>14, <1>15, <1>16 DEF Owners
<1>18. CASE Size(i) = 0
  <2>1. b \in Blocks /\ b \in free_blocks
    BY <1>3, <1>11, <1>18, LowestFree DEF Target, FsInv, TypeOK
  <2>2. i \notin Owners
    BY <1>18 DEF Owners
  <2> QED BY <2>1, <2>2, <1>7, <1>11, <1>14, <1>17, <1>18, BlockTaken
<1>19. CASE Size(i) # 0
  <2>1. b = Block(i) /\ i \in Owners /\ free_blocks' = free_blocks
    BY <1>3, <1>7, <1>8, <1>11, <1>19, Numbering DEF Target, Owners
  <2>2. Owners' = Owners /\ Owners \subseteq Inodes
    BY <2>1, <1>16, <1>17 DEF Owners
  <2>3. \A j \in Owners : inode_table'[j].i_data_block = Block(j)
    BY <2>1, <2>2, <1>14
  <2> QED BY <2>1, <2>2, <2>3, BlocksStay
<1> QED BY <1>18, <1>19

\* Every step of coordinated callers keeps the three properties.
LEMMA CoordinatedNext ==
    ASSUME FsInv, FsInv', Coordinated, [CarefulNext]_vars
    PROVE  Coordinated'
<1> USE DEF Coordinated
<1>1. \A h \in Handles : ~PastEnd(h)
  BY NonePastEnd
<1>2. ASSUME NEW n \in Names, NEW trunc \in BOOLEAN, NEW append \in BOOLEAN,
             OpenExisting(n, trunc, append)
      PROVE  NoBlockLeaks'
  BY <1>2, LeaksOpenExisting
<1>3. ASSUME NEW n \in Names \cup LongNames, OpenCreate(n) \/ OpenNoEntry(n)
      PROVE  NoBlockLeaks'
  <2>1. PICK i \in free_inodes : i = Min(free_inodes)
    BY <1>3, LowestFree DEF OpenCreate, OpenNoEntry, FsInv
  <2>2. /\ inode_table' = [inode_table EXCEPT ![i] = EmptyInode]
        /\ free_inodes' \in {free_inodes, free_inodes \ {i}}
        /\ UNCHANGED free_blocks
    BY <1>3, <2>1 DEF OpenCreate, OpenNoEntry
  <2> QED BY <2>2, NothingOwned, BlocksStay
<1>4. ASSUME NEW n \in Names, Unlink(n)
      PROVE  NoBlockLeaks'
  BY <1>4, LeaksUnlink
<1>5. ASSUME NEW h \in Handles, NEW data \in Buffers, Write(h, data)
      PROVE  NoBlockLeaks'
  BY <1>1, <1>5, LeaksWrite
<1>6. ASSUME UNCHANGED <<inode_table, free_inodes, free_blocks>>
      PROVE  NoBlockLeaks'
  BY <1>6 DEF NoBlockLeaks, Owners, FileInodes, Size, Block
<1>7. ASSUME NEW h \in Handles,
             Close(h) \/ \E len \in 1 .. MaxIO : Read(h, len)
      PROVE  NoBlockLeaks'
  BY <1>6, <1>7 DEF Close, Read, Abort
<1>8. CASE UNCHANGED vars
  BY <1>6, <1>8
     DEF vars, OffsetsWithinFile, FileInodes, Size, IsOpen, File, Offset
<1>9. CASE CarefulNext
  <2>1. NoBlockLeaks'
    BY <1>2, <1>3, <1>4, <1>5, <1>7, <1>9 DEF CarefulNext, Next
  <2>2. alive'
    BY <1>1, <1>9, AliveNext DEF CarefulNext
  <2>3. OffsetsWithinFile'
    BY <1>9, OffsetsStep DEF CarefulNext
  <2> QED BY <2>1, <2>2, <2>3
<1> QED BY <1>8, <1>9

\* Both invariants hold when callers coordinate.
LEMMA CarefulInvariant == CarefulSpec => [](FsInv /\ Coordinated)
<1>1. Init => FsInv /\ Coordinated
  <2>1. Init => FsInv
    BY InitInv
  <2>2. ASSUME Init PROVE OffsetsWithinFile /\ alive
    BY <2>2 DEF Init, OffsetsWithinFile, IsOpen
  <2>3. ASSUME Init PROVE NoBlockLeaks
    <3>1. Owners = {}
      BY <2>3 DEF Init, Owners, FileInodes
    <3>2. Blocks \ free_blocks = {0}
      BY <2>3, Numbering DEF Init
    <3> QED BY <3>1, <3>2 DEF NoBlockLeaks
  <2> QED BY <2>1, <2>2, <2>3 DEF Coordinated
<1>2. FsInv /\ Coordinated /\ [CarefulNext]_vars => (FsInv /\ Coordinated)'
  <2> SUFFICES ASSUME FsInv, Coordinated, [CarefulNext]_vars
               PROVE  FsInv' /\ Coordinated'
    OBVIOUS
  <2>1. [Next]_vars
    BY DEF CarefulNext
  <2>2. FsInv'
    BY <2>1, NextInv
  <2> QED BY <2>2, CoordinatedNext
<1> QED BY <1>1, <1>2, PTL DEF CarefulSpec

\* Coordinated callers always stand inside their files, so the subtractions of
\* size_t in tfs_read and tfs_write never wrap.
THEOREM OffsetsStayWithinFile == CarefulSpec => []OffsetsWithinFile
<1>1. Coordinated => OffsetsWithinFile
  BY DEF Coordinated
<1> QED BY <1>1, CarefulInvariant, PTL

\* No block is lost: a block is taken if and only if a file of the directory,
\* or the directory itself, lives in it.
THEOREM NoBlockLost == CarefulSpec => []NoBlockLeaks
<1>1. Coordinated => NoBlockLeaks
  BY DEF Coordinated
<1> QED BY <1>1, CarefulInvariant, PTL

\* No ALWAYS_ASSERT fails and no copy leaves fs_data.
THEOREM NeverDies == CarefulSpec => []StaysAlive
<1>1. Coordinated => StaysAlive
  BY DEF Coordinated, StaysAlive
<1> QED BY <1>1, CarefulInvariant, PTL

=============================================================================
