------------------------------ MODULE MCBitmap ------------------------------
(***************************************************************************)
(* Bitmap on three cells of three bits: the smallest array in which a run  *)
(* can have a head, a whole cell and a tail.                               *)
(***************************************************************************)
EXTENDS Bitmap

=============================================================================
