---------------------------- MODULE MCTunableMac ----------------------------
(* TunableMac with every combination of its parameters.                     *)
EXTENDS TunableMac

=============================================================================
