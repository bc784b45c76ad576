-------------------------- MODULE MCResourceManager --------------------------
(* Two consumers that may report twice in one instant, a battery that lasts *)
(* between one and three intervals, and a clock that runs past its end.     *)
EXTENDS ResourceManager

=============================================================================
