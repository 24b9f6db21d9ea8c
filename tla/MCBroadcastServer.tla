------------------------- MODULE MCBroadcastServer -------------------------
(* Clients that open, send, close and are dropped, in every order.         *)
EXTENDS BroadcastServer, TLC

Symmetry == Permutations(Client)

=============================================================================
