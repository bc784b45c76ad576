--------------------------- MODULE MCAodvLifetime ---------------------------
(* Lifetimes of two addresses, a neighbour and a destination behind it, and *)
(* time for three generations of entries.                                   *)
EXTENDS AodvLifetime

=============================================================================
