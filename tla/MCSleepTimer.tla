---------------------------- MODULE MCSleepTimer ----------------------------
(***************************************************************************)
(* SleepTimer for a clock whose frequency is not a multiple of Milli, so   *)
(* that the countdown is shorter than the time that is left.               *)
(***************************************************************************)
EXTENDS SleepTimer

=============================================================================
