---------------------------- MODULE MCTecnicoFS ----------------------------
(***************************************************************************)
(* Small instances of the file system.                                     *)
(***************************************************************************)
EXTENDS TecnicoFS, TLC

CONSTANTS n1, n2, n3, long, b1, b2

TwoNames == {n1, n2}
TooLong == {long}
ThreeNames == {n1, n2, n3}
OneByte == {b1}
TwoBytes == {b1, b2}

NameSymmetry == Permutations({n1, n2})
ThreeNameSymmetry == Permutations({n1, n2, n3})
NameAndByteSymmetry == ThreeNameSymmetry \cup Permutations({b1, b2})

=============================================================================
