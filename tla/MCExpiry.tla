------------------------------ MODULE MCExpiry ------------------------------
(***************************************************************************)
(* The timer of examples/certforge.timer: up to half an hour of delay, and *)
(* the longest delay below half a day.  With this lifetime a run can look  *)
(* exactly at the second where the rounding changes (the delay goes from   *)
(* 43199 to 899), one second earlier and one second later.                 *)
(***************************************************************************)
EXTENDS Expiry

MCDelays == {0, 1, 898, 899, 900, 1799, 1800, 43199}
MCLifetime == 6 * Day + 900
=============================================================================
