------------------------------ MODULE MCBroker ------------------------------
(***************************************************************************)
(* A small instance of the whole broker, with the clients of               *)
(* MCSessionHandler.                                                       *)
(***************************************************************************)
EXTENDS Broker, MCSessionHandler

=============================================================================
