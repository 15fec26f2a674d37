------------------------------- MODULE MCTcp --------------------------------
(***************************************************************************)
(* TCP on its own, with two initial sequence numbers of the server.        *)
(***************************************************************************)
EXTENDS Tcp

MCIss == [x \in {Client, Server} |-> IF x = Client THEN <<13>> ELSE <<2, 9>>]
=============================================================================
