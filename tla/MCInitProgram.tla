--------------------------- MODULE MCInitProgram ----------------------------
(***************************************************************************)
(* InitProgram with tables of nine entries and this layout of RAM: frames *)
(* 1 to 3 are the space for the device tree, of which the kernel reserves  *)
(* the first, frame 4 is text, 5 to 25 the early heap and 26 the end of    *)
(* the image; add_memory_node marks as many frames from 26 on as there are *)
(* from 5 to 26.  The buffer and its tables take up to 19 frames.          *)
(***************************************************************************)
EXTENDS InitProgram

MCHeapFrames == 5 .. 25
MCNodeReserved == {1, 4} \cup (26 .. 47)

Node(first, frames, aligned) == [first |-> first, frames |-> frames, aligned |-> aligned]

(***************************************************************************)
(* Nodes with the kernel in them: all of the RAM, just enough of it, too   *)
(* little for the buffer, too little for the image, more than the bitmap   *)
(* has bits for, off a page boundary.  The last one is without the kernel. *)
(***************************************************************************)
MCMem ==
  {Node(1, 68, TRUE), Node(1, 66, TRUE), Node(1, 55, TRUE), Node(1, 40, TRUE),
   Node(1, 69, TRUE), Node(1, 68, FALSE), Node(48, 20, TRUE)}

\* At most a page, whole pages, and the rest.  A tree of 20 pages is more
\* than HeapHasRoom allows for, one of 120 more than the heap has tables for.
MCTrees ==
  [totalsize : {1, 2, 3, 6, 40, 240}, parses : {"nothing", "header", "all"},
   bootargs : BOOLEAN,
   mem : {<<>>} \cup {<<n>> : n \in MCMem}
           \cup {<<n, Node(1, 68, TRUE)>> : n \in MCMem}
           \cup {<<Node(1, 68, TRUE), n>> : n \in MCMem},
   devices : {"good", "bad", "noreg"}]

=============================================================================
