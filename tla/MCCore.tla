------------------------------- MODULE MCCore -------------------------------
(***************************************************************************)
(* Core with tables of eight entries: low memory is entry 0, as in the     *)
(* code, and high memory the last two.  The firmware's TLB entries are for *)
(* low blocks and for one in high memory.  The interrupt controller has    *)
(* registers for four and for two interrupts, with bytes of four values.   *)
(***************************************************************************)
EXTENDS Core

MCStale == {<<0, 3>>, <<1, 0>>, <<virt(1), 2>>}

=============================================================================
