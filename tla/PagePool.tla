------------------------------ MODULE PagePool ------------------------------
(***************************************************************************)
(* What the page allocator of kernel/src/page_alloc.rs promises to its     *)
(* callers, without bitmap, base address or build profile: every page of   *)
(* RAM it knows of is free, owned by one PageSlice, or leaked for good.    *)
(***************************************************************************)
EXTENDS PageSet

CONSTANTS
  Handles,      \* the PageSlice values a program can hold at a time
  Pages         \* addresses of pages

VARIABLES
  free,         \* the pages that can be handed out
  held,         \* held[h]: the pages of PageSlice h, {} if h is not in use
  gone          \* the pages of forgotten slices

poolvars == <<free, held, gone>>

Init ==
  /\ free = {}
  /\ held = [h \in Handles |-> {}]
  /\ gone = {}

\* A new slice: adjacent pages, all of them free.
Take(h) ==
  /\ held[h] = {}
  /\ \E first, last \in free :
       /\ first .. last # {}
       /\ first .. last \subseteq free
       /\ held' = [held EXCEPT ![h] = first .. last]
       /\ free' = free \ (first .. last)
  /\ UNCHANGED gone

\* A slice is dropped: all of its pages are free again, and no other page.
Give(h) ==
  /\ free' = free \cup held[h]
  /\ held' = [held EXCEPT ![h] = {}]
  /\ UNCHANGED gone

\* A slice is forgotten: its pages never come back.
Forget(h) ==
  /\ gone' = gone \cup held[h]
  /\ held' = [held EXCEPT ![h] = {}]
  /\ UNCHANGED free

\* More RAM: the new pages were not in the pool in any form, and none of
\* the pages that were free is lost.
Grow ==
  /\ free \subseteq free'
  /\ free' \subseteq Pages
  /\ (free' \ free) \cap (gone \cup UNION {held[h] : h \in Handles}) = {}
  /\ UNCHANGED <<held, gone>>

Next ==
  \/ \E h \in Handles : Take(h) \/ Give(h) \/ Forget(h)
  \/ Grow

Spec == Init /\ [][Next]_poolvars

=============================================================================
