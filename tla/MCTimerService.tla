--------------------------- MODULE MCTimerService ---------------------------
(* TimerService on a vector that grows in steps of 2 up to 3 slots, with a  *)
(* spare address, so that both branches of the growth and the reuse of a    *)
(* freed address happen.                                                    *)
EXTENDS TimerService

=============================================================================
