---------------------------- MODULE MCPageAlloc ----------------------------
(***************************************************************************)
(* PageBox with a layout in the proportions of linker.lds: the device      *)
(* tree on page 2 (the start of RAM), text on 3 and 4, an early heap of    *)
(* three pages on 5..7, and an image that ends inside of page 8.           *)
(***************************************************************************)
EXTENDS PageBox

Node(base, len) == [base |-> base, len |-> len, aligned |-> TRUE]

\* The node that qemu reports, a node that starts below the device tree,
\* and one for each way to fail: too short for the image, too short for the
\* heap, too long for the bitmap, above the heap, at the heap, not aligned.
MCNodes ==
  {Node(2, 12), Node(1, 12), Node(2, 6), Node(2, 5), Node(2, 13),
   Node(6, 6), Node(5, 6), [base |-> 2, len |-> 12, aligned |-> FALSE]}

\* Two nodes of the same RAM, reported one after the other.
MCTwoNodes == {Node(2, 12)}

=============================================================================
