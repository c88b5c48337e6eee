--------------------------- MODULE MCAddressSpace ---------------------------
(***************************************************************************)
(* AddressSpace with tables of six entries.  The constants of the code     *)
(* keep their order: stack and program lie in entry 0 of the level 1 table *)
(* and vmap starts in entry 1, at entry 1 of a level 2 table (42 = 36 + 6).*)
(* struct Thread is stack, page table, registers, which is how the         *)
(* compiler orders its fields.                                             *)
(***************************************************************************)
EXTENDS AddressSpace

\* All of the RAM, all but its last frame, and a node the kernel refuses.
MCNodes ==
  {[first |-> 1, frames |-> Frames, aligned |-> TRUE],
   [first |-> 1, frames |-> Frames - 1, aligned |-> TRUE],
   [first |-> 2, frames |-> Frames - 1, aligned |-> TRUE]}

=============================================================================
