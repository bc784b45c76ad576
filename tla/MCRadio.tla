------------------------------ MODULE MCRadio -------------------------------
(* Radio with two senders in range and two carrier frequencies.             *)
EXTENDS Radio, TLC

(* No definition tells one sender from another.                             *)
Senders == Permutations(Signal)

=============================================================================
