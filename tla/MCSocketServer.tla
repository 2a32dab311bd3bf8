--------------------------- MODULE MCSocketServer ---------------------------
(***************************************************************************)
(* The command server with two clients, two workers and a descriptor that  *)
(* both clients get in turn.  Neither clients nor workers are compared or  *)
(* chosen from, so both may be permuted.                                   *)
(***************************************************************************)
EXTENDS SocketServer, TLC

Symmetry == Permutations(Client) \union Permutations(Worker)
=============================================================================
