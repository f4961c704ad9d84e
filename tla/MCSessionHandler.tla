-------------------------- MODULE MCSessionHandler --------------------------
(***************************************************************************)
(* A small instance of the broker's sessions: fields of five and three     *)
(* characters, one box name of two that is valid and one without a slash.  *)
(***************************************************************************)
EXTENDS SessionHandler, TLC

\* Names are made of model values; only the slash and the bar mean something.
Paths == [c \in Clients |-> <<"/", c, "p">>]
Characters == Clients \union {"p", "b", "/", Bar}

\* A second slash in front of a path changes nothing.
LeadsTo(name) ==
    IF \E c \in Clients : name \in {Paths[c], <<"/">> \o Paths[c]}
    THEN CHOOSE c \in Clients : name \in {Paths[c], <<"/">> \o Paths[c]}
    ELSE Nobody

Valid == <<"/", "b">>
Invalid == <<"b">>
Request(kind, packed, box) == [kind |-> kind, packed |-> packed, box |-> box]

AllRequests ==
    { Request("create", TRUE, Valid), Request("create", TRUE, Invalid),
      Request("remove", TRUE, Valid), Request("list", TRUE, <<>>),
      Request("pub", FALSE, Valid), Request("sub", FALSE, Valid),
      Request("pub", TRUE, Valid), Request("sub", TRUE, Valid) }

ClientSymmetry == Permutations(Clients)

=============================================================================
