------------------------- MODULE MCProducerConsumer -------------------------
(***************************************************************************)
(* Small instances of the queue.  With one thread in each role MaxLag is   *)
(* above the largest lag, so it cuts nothing off there.                    *)
(***************************************************************************)
EXTENDS ProducerConsumer, TLC

CONSTANTS p1, p2, c1, c2, e1, e2

OneProducer == {p1}
OneConsumer == {c1}
TwoProducers == {p1, p2}
TwoConsumers == {c1, c2}
OneElement == {e1}
TwoElements == {e1, e2}

ThreadSymmetry == Permutations({p1, p2}) \cup Permutations({c1, c2})
ElementSymmetry == Permutations({e1, e2})

=============================================================================
