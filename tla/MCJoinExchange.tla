--------------------------- MODULE MCJoinExchange ---------------------------
(***************************************************************************)
(* A small instance of JoinExchange: two clients; a header and messages of *)
(* two bytes, so that a read is short, a header, more or everything.       *)
(***************************************************************************)
EXTENDS JoinExchange, TLC

CONSTANTS c1, c2

MCClients == {c1, c2}

=============================================================================
