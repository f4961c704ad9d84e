--------------------------- MODULE BoundedCounter ---------------------------
(***************************************************************************)
(* What the header promises of blocking: a call that finds the queue full  *)
(* (or empty) is held until there is space (or an element).  The promise   *)
(* is about one number; nothing here says where an element is.             *)
(***************************************************************************)
EXTENDS Integers

CONSTANTS Producers, Consumers, Capacity

VARIABLES
    count,      \* elements the queue admits to holding
    entering    \* threads inside a call that has not been admitted yet

bvars == <<count, entering>>

BInit == count = 0 /\ entering = {}

Enter(t) ==
    /\ t \notin entering
    /\ entering' = entering \cup {t}
    /\ UNCHANGED count

Put(p) ==
    /\ p \in entering /\ count < Capacity
    /\ count' = count + 1
    /\ entering' = entering \ {p}

Take(c) ==
    /\ c \in entering /\ count > 0
    /\ count' = count - 1
    /\ entering' = entering \ {c}

BNext ==
    \/ \E t \in Producers \cup Consumers : Enter(t)
    \/ \E p \in Producers : Put(p)
    \/ \E c \in Consumers : Take(c)

BSpec == BInit /\ [][BNext]_bvars

=============================================================================
