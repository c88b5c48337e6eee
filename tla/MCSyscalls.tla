----------------------------- MODULE MCSyscalls -----------------------------
(***************************************************************************)
(* Syscalls with words of 6 bits and integers of 4 bits.                   *)
(***************************************************************************)
EXTENDS Syscalls

=============================================================================
