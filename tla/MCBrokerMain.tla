---------------------------- MODULE MCBrokerMain ----------------------------
(***************************************************************************)
(* A small instance of the broker's main loop with its worker.             *)
(***************************************************************************)
EXTENDS BrokerMain

CONSTANT request

OnlyMain == {Main}
OnlyWorker == {Worker}
OneRequest == {request}

=============================================================================
