----------------------------- MODULE TecnicoFS -----------------------------
(***************************************************************************)
(* The file system of fs/state.c and fs/operations.c: one directory, files *)
(* of at most one block each, and a table of open files.  Every operation  *)
(* holds g_library_mutex from its first line to its return, so each is one *)
(* action.  What makes the code hard is not the interleaving of lines but  *)
(* that of calls: an open file is an inode number and an offset, and other *)
(* calls delete, reuse or empty that inode meanwhile.                      *)
(*                                                                         *)
(* A call that only returns -1 is a step that changes nothing, and is left *)
(* out: an invalid path name, a handle not in use, a name not found, no    *)
(* free inode, no free block.                                              *)
(***************************************************************************)
EXTENDS Integers, Sequences, FiniteSetsExt

CONSTANTS
    Names,          \* names a directory entry can hold
    LongNames,      \* names it cannot: more than MAX_FILE_NAME - 1 characters
    NoName,         \* an entry's name that no path name equals
    InodeCount, BlockCount, BlockSize, OpenFiles,   \* tfs_params
    DirEntries,     \* MAX_DIR_ENTRIES, how many entries fit in a block
    WordSize,       \* number of values of a size_t
    Bytes,          \* what is written
    Unwritten,      \* a byte of the heap that no call wrote
    Closed,         \* an entry of open_file_table not in use
    MaxIO,          \* bound: the longest buffer passed to a read or a write
    MaxOffset       \* bound: reads do not go past this offset

Inodes    == 0 .. InodeCount - 1
Blocks    == 0 .. BlockCount - 1
Handles   == 0 .. OpenFiles - 1
Entries   == 0 .. DirEntries - 1
Addresses == BlockSize .. BlockCount * BlockSize - 1  \* block 0 is dir

Root == 0        \* ROOT_DIR_INUM
None == -1       \* no inode, no block

ASSUME NamesAssumption ==
    /\ Names \cap LongNames = {} /\ NoName \notin Names \cup LongNames
    /\ Unwritten \notin Bytes
ASSUME ParamsAssumption ==
    /\ InodeCount \in Nat \ {0} /\ BlockCount \in Nat \ {0}
    /\ BlockSize \in Nat \ {0} /\ OpenFiles \in Nat /\ DirEntries \in Nat
    /\ Closed \notin [of_inumber : Inodes, of_offset : Nat]
    /\ Closed \notin [name : Names, offset : Nat]
ASSUME BoundsAssumption ==
    /\ MaxIO \in Nat /\ MaxOffset \in Nat /\ WordSize \in Nat
    /\ BlockSize <= MaxOffset
    /\ WordSize > MaxOffset + MaxIO + BlockCount * BlockSize

VARIABLES
    inode_table,        \* i_size and i_data_block of every inode
    free_inodes,        \* the inodes FREE in freeinode_ts
    free_blocks,        \* the blocks FREE in free_blocks
    fs_data,            \* the bytes of the blocks
    dir,                \* the root directory's entries, the content of block 0
    open_file_table,    \* a file and an offset for each handle in use
    got,                \* the bytes the latest read delivered
    alive               \* no ALWAYS_ASSERT failed, no copy left the heap

vars == <<inode_table, free_inodes, free_blocks, fs_data, dir,
          open_file_table, got, alive>>

Size(i)   == inode_table[i].i_size
Block(i)  == inode_table[i].i_data_block
IsOpen(h) == open_file_table[h] # Closed
File(h)   == open_file_table[h].of_inumber
Offset(h) == open_file_table[h].of_offset

\* size_t subtraction.
Minus(a, b) == (a - b + WordSize) % WordSize

EmptyInode == [i_size |-> 0, i_data_block |-> None]
EmptyEntry == [d_name |-> NoName, d_inumber |-> None]

-----------------------------------------------------------------------------
(* The helpers of state.c *)

\* find_in_dir looks at the entries in use, clear_dir_entry at every entry.
Live == {e \in Entries : dir[e].d_inumber # None}
LiveNamed(n) == {e \in Live : dir[e].d_name = n}
Found(n) == LiveNamed(n) # {}
Lookup(n) == dir[Min(LiveNamed(n))].d_inumber

FreeEntry_Last == Max(Entries \ Live)
FreeEntry == Min(Entries \ Live)

ClearDirEntry(n) ==
    LET named == {e \in Entries : dir[e].d_name = n}
    IN  dir' = [dir EXCEPT ![Min(named)] = EmptyEntry]

\* The block given back when a file is deleted or cut to nothing.
Released_Never(i) == {}
Released(i) == IF Size(i) > 0 THEN {Block(i)} ELSE {}

AddToOpenFileTable(i, offset) ==
    LET free == {h \in Handles : ~IsOpen(h)}
    IN  open_file_table' =
           IF free = {} THEN open_file_table
           ELSE [open_file_table EXCEPT ![Min(free)] =
                    [of_inumber |-> i, of_offset |-> offset]]

-----------------------------------------------------------------------------
\* tfs_init: the root directory takes inode 0 and block 0.  The names in its
\* entries are what malloc left there.  An inode's fields are set before they
\* are read, so it does not matter what they hold here.
Init ==
    /\ inode_table = [i \in Inodes |->
          IF i = Root THEN [i_size |-> BlockSize, i_data_block |-> 0]
                      ELSE EmptyInode]
    /\ free_inodes = Inodes \ {Root}
    /\ free_blocks = Blocks \ {0}
    /\ fs_data = [a \in Addresses |-> Unwritten]
    /\ \E left \in [Entries -> Names \cup {NoName}] :
          dir = [e \in Entries |-> [EmptyEntry EXCEPT !.d_name = left[e]]]
    /\ open_file_table = [h \in Handles |-> Closed]
    /\ got = <<>>
    /\ alive = TRUE

\* tfs_open of a file that exists.  When all handles are in use the call fails
\* with the file already truncated.
OpenExisting(n, trunc, append) ==
    /\ alive /\ Found(n)
    /\ LET i == Lookup(n)
           size == IF trunc THEN 0 ELSE Size(i)
       IN  /\ inode_table' = [inode_table EXCEPT ![i].i_size = size]
           /\ free_blocks' = free_blocks
                 \cup (IF trunc THEN Released(i) ELSE {})
           /\ AddToOpenFileTable(i, IF append THEN size ELSE 0)
    /\ UNCHANGED <<free_inodes, fs_data, dir, got, alive>>

\* tfs_open of a new file with TFS_O_CREAT, and room for it.  When all handles
\* are in use the file stays created.
OpenCreate_NotReset(n) ==
    /\ alive /\ ~Found(n)
    /\ free_inodes # {} /\ Entries \ Live # {}
    /\ LET i == Min(free_inodes)
       IN  /\ free_inodes' = free_inodes \ {i}
           /\ dir' = [dir EXCEPT ![FreeEntry] = [d_name |-> n, d_inumber |-> i]]
           /\ AddToOpenFileTable(i, 0)
    /\ UNCHANGED <<inode_table, free_blocks, fs_data, got, alive>>
OpenCreate(n) ==
    /\ alive /\ ~Found(n)
    /\ free_inodes # {} /\ Entries \ Live # {}
    /\ LET i == Min(free_inodes)
       IN  /\ free_inodes' = free_inodes \ {i}
           /\ inode_table' = [inode_table EXCEPT ![i] = EmptyInode]
           /\ dir' = [dir EXCEPT ![FreeEntry] = [d_name |-> n, d_inumber |-> i]]
           /\ AddToOpenFileTable(i, 0)
    /\ UNCHANGED <<free_blocks, fs_data, got, alive>>

\* The same without room in the directory for the name: the inode is created,
\* and deleted again.
OpenNoEntry_KeepsInode(n) ==
    /\ alive /\ ~Found(n) /\ free_inodes # {}
    /\ n \in LongNames \/ Entries \ Live = {}
    /\ inode_table' = [inode_table EXCEPT ![Min(free_inodes)] = EmptyInode]
    /\ free_inodes' = free_inodes \ {Min(free_inodes)}
    /\ UNCHANGED <<free_blocks, fs_data, dir, open_file_table, got, alive>>
OpenNoEntry(n) ==
    /\ alive /\ ~Found(n) /\ free_inodes # {}
    /\ n \in LongNames \/ Entries \ Live = {}
    /\ inode_table' = [inode_table EXCEPT ![Min(free_inodes)] = EmptyInode]
    /\ UNCHANGED <<free_inodes, free_blocks, fs_data, dir, open_file_table,
                   got, alive>>

Close(h) ==
    /\ alive /\ IsOpen(h)
    /\ open_file_table' = [open_file_table EXCEPT ![h] = Closed]
    /\ UNCHANGED <<inode_table, free_inodes, free_blocks, fs_data, dir, got,
                   alive>>

Abort ==
    /\ alive' = FALSE
    /\ UNCHANGED <<inode_table, free_inodes, free_blocks, fs_data, dir,
                   open_file_table, got>>

-----------------------------------------------------------------------------
(* tfs_write *)

\* How much is written: up to the end of the block, by a subtraction that wraps
\* when the offset is already past it.
ToWrite_Unclipped(h, len) == len
ToWrite(h, len) ==
    IF len + Offset(h) > BlockSize THEN Minus(BlockSize, Offset(h)) ELSE len

\* The block that is written: an empty file takes the first free one.
Target(i) == IF Size(i) = 0 THEN Min(free_blocks) ELSE Block(i)

\* memcpy of the first n bytes of data into fs_data.
Copy(address, data, n) ==
    [a \in Addresses |-> IF a \in address .. address + n - 1
                         THEN data[a - address + 1] ELSE fs_data[a]]

Grown_Forgotten(size, offset) == size
Grown(size, offset) == Max({size, offset})

Write_AtBlockStart(h, data) ==
    LET i == File(h)
        n == ToWrite(h, Len(data))
    IN  /\ alive /\ IsOpen(h) /\ n > 0
        /\ Size(i) = 0 => free_blocks # {}
        /\ n <= BlockSize
        /\ fs_data' = Copy(Target(i) * BlockSize, data, n)
        /\ free_blocks' = free_blocks \ {Target(i)}
        /\ inode_table' = [inode_table EXCEPT ![i] =
              [i_size |-> Grown(Size(i), Offset(h) + n),
               i_data_block |-> Target(i)]]
        /\ open_file_table' =
              [open_file_table EXCEPT ![h].of_offset = @ + n]
        /\ UNCHANGED <<free_inodes, dir, got, alive>>

\* A length that wrapped is close to the largest size_t: the copy leaves the
\* heap and the process dies.
Write(h, data) ==
    LET i == File(h)
        n == ToWrite(h, Len(data))
    IN  /\ alive /\ IsOpen(h) /\ n > 0
        /\ Size(i) = 0 => free_blocks # {}
        /\ \/ n > BlockSize /\ Abort
           \/ /\ n <= BlockSize
              /\ fs_data' = Copy(Target(i) * BlockSize + Offset(h), data, n)
              /\ free_blocks' = IF Size(i) = 0 THEN free_blocks \ {Target(i)}
                                               ELSE free_blocks
              /\ inode_table' = [inode_table EXCEPT ![i] =
                    [i_size |-> Grown(Size(i), Offset(h) + n),
                     i_data_block |-> Target(i)]]
              /\ open_file_table' =
                    [open_file_table EXCEPT ![h].of_offset = @ + n]
              /\ UNCHANGED <<free_inodes, dir, got, alive>>

-----------------------------------------------------------------------------
(* tfs_read *)

\* How much is read: what is left of the file, by a subtraction that wraps
\* when the file has become shorter than the offset.
ToRead(h, len) == Min({len, Minus(Size(File(h)), Offset(h))})

\* The bytes from an address on; past fs_data it is some other heap content.
Stored(address, n) ==
    [k \in 1 .. n |-> IF address + k - 1 \in Addresses
                      THEN fs_data[address + k - 1] ELSE Unwritten]

Read(h, len) ==
    LET n == ToRead(h, len)
        address == Block(File(h)) * BlockSize + Offset(h)
    IN  /\ alive /\ IsOpen(h) /\ Offset(h) + n <= MaxOffset
        /\ \/ n > 0 /\ Block(File(h)) = None /\ Abort
           \/ /\ n > 0 /\ Block(File(h)) # None
              /\ address + n > BlockCount * BlockSize
              /\ Abort
           \/ /\ n > 0 => Block(File(h)) # None
              /\ got' = Stored(address, n)
              /\ open_file_table' =
                    [open_file_table EXCEPT ![h].of_offset = @ + n]
              /\ UNCHANGED <<inode_table, free_inodes, free_blocks, fs_data,
                             dir, alive>>

-----------------------------------------------------------------------------
\* tfs_unlink.  The inode keeps its size and block number.  inode_delete
\* asserts that the inode was in use; nothing else is looked at if it was not.
Unlink(n) ==
    /\ alive /\ Found(n)
    /\ LET i == Lookup(n)
       IN  /\ alive' = (i \notin free_inodes)
           /\ free_blocks' = free_blocks \cup Released(i)
           /\ free_inodes' = free_inodes \cup {i}
    /\ ClearDirEntry(n)
    /\ UNCHANGED <<inode_table, fs_data, open_file_table, got>>

Buffers == UNION {[1 .. k -> Bytes] : k \in 0 .. MaxIO}

Next ==
    \/ \E n \in Names :
          \/ \E trunc, append \in BOOLEAN : OpenExisting(n, trunc, append)
          \/ OpenCreate(n)
          \/ Unlink(n)
    \/ \E n \in Names \cup LongNames : OpenNoEntry(n)
    \/ \E h \in Handles :
          \/ Close(h)
          \/ \E data \in Buffers : Write(h, data)
          \/ \E len \in 1 .. MaxIO : Read(h, len)

Spec == Init /\ [][Next]_vars

\* Callers who coordinate: no step deletes a file that somebody has open, or
\* empties it while somebody stands past its start.
SparesOpenFiles ==
    \A h \in Handles : IsOpen(h) =>
        /\ File(h) \notin free_inodes'
        /\ inode_table'[File(h)].i_size >= Offset(h)

CarefulNext == Next /\ SparesOpenFiles
CarefulSpec == Init /\ [][CarefulNext]_vars

-----------------------------------------------------------------------------
(* Properties of any sequence of calls *)

InodeType == [i_size : 0 .. BlockSize, i_data_block : Blocks \cup {None}]
EntryType == [d_name : Names \cup {NoName}, d_inumber : Inodes \cup {None}]
OpenFileType == [of_inumber : Inodes, of_offset : 0 .. MaxOffset]

TypeOK ==
    /\ inode_table \in [Inodes -> InodeType]
    /\ free_inodes \subseteq Inodes
    /\ free_blocks \subseteq Blocks
    /\ fs_data \in [Addresses -> Bytes \cup {Unwritten}]
    /\ dir \in [Entries -> EntryType]
    /\ open_file_table \in [Handles -> OpenFileType \cup {Closed}]
    /\ got \in Seq(Bytes \cup {Unwritten})
    /\ alive \in BOOLEAN

FileInodes == Inodes \ (free_inodes \cup {Root})
Owners == {i \in FileInodes : Size(i) > 0}

\* The directory and the inode table agree whatever fails half way: entries in
\* use name distinct files, and every inode in use has its entry, so none
\* leaks when a creation finds the directory full or the name too long
\* (operations.c:121-138, state.c:333-360).
DirectoryConsistent ==
    /\ \A e \in Live : dir[e].d_name \in Names /\ dir[e].d_inumber \in FileInodes
    /\ \A e, f \in Live : e # f => /\ dir[e].d_name # dir[f].d_name
                                   /\ dir[e].d_inumber # dir[f].d_inumber
    /\ \A i \in FileInodes : \E e \in Live : dir[e].d_inumber = i

\* clear_dir_entry takes the first entry with the name, in use or not, and the
\* names of unused entries start as heap content: yet it is always the entry
\* that find_in_dir found, since no unused entry ahead of it has that name
\* (state.c:297-316, 350-353).
ClearsTheEntryFound ==
    \A e \in Live : \A f \in Entries \ Live :
        f < e => dir[f].d_name # dir[e].d_name

\* The blocks of the files in the directory are theirs alone, are marked taken
\* and are never the directory's, even while stale handles write to inodes
\* that were deleted or emptied (operations.c:106-110, 211-224).
BlockOwnership ==
    /\ \A i \in Owners : Block(i) \in Blocks \ (free_blocks \cup {0})
    /\ \A i, j \in Owners : i # j => Block(i) # Block(j)

PastEnd(h) == IsOpen(h) /\ Offset(h) > Size(File(h))

\* Whatever was called before, stale handles included, a call ends the process
\* only while some handle stands past the end of what it leads to: with none
\* left there, every assertion holds and every copy stays in the heap
\* (operations.c:205-226, 264-271, state.c:259).
DeathStep == (alive /\ ~alive') => \E h \in Handles : PastEnd(h)
DiesOnlyPastEnd == [][DeathStep]_vars

\* And a handle gets there in one way only, by a call that empties the file it
\* leads to: an open that truncates, or one that creates a file on the inode of
\* a deleted one.  Whatever other handles have done, no read or write carries
\* this one past the end, and no deletion does (operations.c:106-119,
\* 205-236, 263-277, state.c:234-238).
StrandingStep ==
    \A h \in Handles : (PastEnd(h)' /\ ~PastEnd(h)) =>
        /\ IsOpen(h) /\ open_file_table'[h] = open_file_table[h]
        /\ Size(File(h)) > 0 /\ inode_table'[File(h)].i_size = 0
StrandedOnlyByEmptying == [][StrandingStep]_vars

-----------------------------------------------------------------------------
(* Properties of coordinated calls: the runs take CarefulSpec *)

\* Every block taken has an owner (state.c:252-267, operations.c:106-110).
NoBlockLeaks == Blocks \ free_blocks = {0} \cup {Block(i) : i \in Owners}

\* A handle stands inside its file, so that neither subtraction of size_t
\* wraps (operations.c:205-208, 264-267).
OffsetsWithinFile ==
    \A h \in Handles : IsOpen(h) =>
        File(h) \in FileInodes /\ Offset(h) \in 0 .. Size(File(h))

\* No assertion fails and no copy leaves fs_data (operations.c:226, 271,
\* state.c:259, 449).
StaysAlive == alive

\* The whole is the abstract file system: what is read is what was written
\* there, by whatever handle, and nobody else's bytes.
NameOf(i) == dir[CHOOSE e \in Live : dir[e].d_inumber = i].d_name
Contents(i) == Stored(Block(i) * BlockSize, Size(i))

FilesOf == [n \in {dir[e].d_name : e \in Live} |-> Contents(Lookup(n))]
HandlesOf == [h \in Handles |->
                 IF IsOpen(h)
                 THEN [name |-> NameOf(File(h)), offset |-> Offset(h)]
                 ELSE Closed]

Abstract == INSTANCE AbstractFS WITH
    MaxFileSize <- BlockSize, files <- FilesOf, handles <- HandlesOf
ImplementsFiles == Abstract!ASpec

-----------------------------------------------------------------------------
(* What the code says of any sequence of calls, and does not hold *)

\* "inode of open file deleted" cannot be (operations.c:202, 261).
OpenFileNotDeleted ==
    \A h \in Handles : IsOpen(h) => File(h) \notin free_inodes

\* A read stops where the file ends: it can return less than len "if the file
\* size was reached" (operations.h:111-112).
ReadStopsAtEnd ==
    \A h \in Handles :
        (IsOpen(h) /\ IsOpen(h)' /\ Offset(h)' > Offset(h)) =>
            Offset(h)' <= Size(File(h))'
ReadsStayWithinFile == [][ReadStopsAtEnd]_vars

=============================================================================
