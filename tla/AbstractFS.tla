----------------------------- MODULE AbstractFS -----------------------------
(***************************************************************************)
(* What fs/operations.h promises: named files that are sequences of bytes, *)
(* and handles, each with a place of its own in one file.  There are no    *)
(* inodes, no blocks and no directory here.  A file that is open is not    *)
(* deleted, and not emptied while a handle stands past its start.  Any     *)
(* call may also fail, and then it changes nothing.                        *)
(***************************************************************************)
EXTENDS Integers, Sequences

CONSTANTS
    Names,          \* the names of files
    Handles,        \* the file handles
    Bytes,          \* what a byte can be
    MaxFileSize,    \* the longest a file can grow
    Closed          \* a handle not in use

VARIABLES
    files,      \* the files that exist, as a function from their names
    handles,    \* where each handle stands
    got         \* the bytes the latest read delivered

avars == <<files, handles, got>>

IsHeld(n) == \E h \in Handles : handles[h] # Closed /\ handles[h].name = n

AInit ==
    /\ files = [n \in {} |-> <<>>]
    /\ handles = [h \in Handles |-> Closed]
    /\ got = <<>>

\* The end of an open: a new handle, or none when all are in use.
Hand(n, offset) ==
    \/ \E h \in Handles :
          /\ handles[h] = Closed
          /\ handles' = [handles EXCEPT ![h] = [name |-> n, offset |-> offset]]
    \/ /\ \A h \in Handles : handles[h] # Closed
       /\ UNCHANGED handles

AOpen(n) ==
    /\ n \in DOMAIN files
    /\ \E offset \in {0, Len(files[n])} : Hand(n, offset)
    /\ UNCHANGED <<files, got>>

ATruncate(n) ==
    /\ n \in DOMAIN files
    /\ \A h \in Handles :
          handles[h] # Closed /\ handles[h].name = n => handles[h].offset = 0
    /\ files' = [files EXCEPT ![n] = <<>>]
    /\ Hand(n, 0)
    /\ UNCHANGED got

ACreate(n) ==
    /\ n \notin DOMAIN files
    /\ files' = [m \in DOMAIN files \cup {n} |->
                    IF m = n THEN <<>> ELSE files[m]]
    /\ Hand(n, 0)
    /\ UNCHANGED got

AClose(h) ==
    /\ handles[h] # Closed
    /\ handles' = [handles EXCEPT ![h] = Closed]
    /\ UNCHANGED <<files, got>>

\* The bytes replace what was in their place, and may make the file longer.
AWrite(h) ==
    /\ handles[h] # Closed
    /\ LET n == handles[h].name
           from == handles[h].offset
       IN  \E to \in from + 1 .. MaxFileSize :
              /\ handles' = [handles EXCEPT ![h].offset = to]
              /\ \E data \in [1 .. to - from -> Bytes] :
                    files' = [files EXCEPT ![n] =
                       SubSeq(@, 1, from) \o data \o SubSeq(@, to + 1, Len(@))]
    /\ UNCHANGED got

\* The bytes up to any place from here to the end, and none at the end.
ARead(h) ==
    /\ handles[h] # Closed
    /\ LET from == handles[h].offset
           file == files[handles[h].name]
       IN  \E to \in from .. Len(file) :
              /\ to = from => from = Len(file)
              /\ handles' = [handles EXCEPT ![h].offset = to]
              /\ got' = SubSeq(file, from + 1, to)
    /\ UNCHANGED files

ADelete(n) ==
    /\ n \in DOMAIN files /\ ~IsHeld(n)
    /\ files' = [m \in DOMAIN files \ {n} |-> files[m]]
    /\ UNCHANGED <<handles, got>>

ANext ==
    \/ \E h \in Handles : AClose(h) \/ ARead(h) \/ AWrite(h)
    \/ \E n \in Names : AOpen(n) \/ ATruncate(n) \/ ACreate(n) \/ ADelete(n)

ASpec == AInit /\ [][ANext]_avars

=============================================================================
