------------------------------ MODULE PageBox -------------------------------
(***************************************************************************)
(* What is in the pages that the allocator of module PageAlloc hands out:  *)
(* the zeros that alloc_zeroed and Thread::init write, the poison that the *)
(* drop of a PageSlice leaves, and the values of PageBox and of the thread *)
(* in kernel/src/page_alloc.rs and kernel/src/aarch64/usermode.rs.  Page   *)
(* tables and the thread are made from such pages and used as if they were *)
(* zero.  Every action is one of PageAlloc with what it does to contents.  *)
(***************************************************************************)
EXTENDS PageAlloc

CONSTANT ThreadPages      \* size_of::<Thread>(), in pages

ASSUME BoxAssumption == ThreadPages \in Nat \ {0} /\ ThreadPages <= MaxPages

VARIABLES
  clean,      \* the pages that hold nothing but zeros
  empty       \* empty[h]: the pages of slice h its owner takes for zeros

boxVars == <<vars, clean, empty>>

\* Memory is as firmware left it; the early heap is zero, as part of bss.
BoxInit ==
  /\ Init
  /\ clean = EarlyHeap
  /\ empty = [h \in Handles |-> {}]

BootHeap == InitEarlyHeap /\ UNCHANGED <<clean, empty>>

-----------------------------------------------------------------------------
\* The slice that alloc makes has pages zeroed and then written to, and its
\* owner takes some for empty.
Make(h, page_count, zeroed, written, taken) ==
  /\ Alloc(h, page_count)
  /\ IF Running'
     THEN /\ clean' = (clean \cup zeroed) \ written
          /\ empty' = [empty EXCEPT ![h] = taken]
     ELSE UNCHANGED <<clean, empty>>

First(s) == {s.buf}
Last(s) == {s.buf + s.pages - 1}

\* MemMap: the slice of alloc is handed on as it is.
NewSlice(h, page_count) == Make(h, page_count, {}, {}, {})

\* PageBox::<PageTable>::new_zeroed.  PageSlice::zero clears one page.
NewTable(h) == Make(h, 1, First(slices'[h]), {}, Held(h)')

\* Thread::init without self.zero().
NewThreadAsAllocated(h) ==
  Make(h, ThreadPages, First(slices'[h]), Last(slices'[h]),
       Held(h)' \ Last(slices'[h]))

(***************************************************************************)
(* GlobalThread::init: new_zeroed, and Thread::init, which zeroes the      *)
(* thread once more and sets the fields in its last page.  Stack and page  *)
(* table, in the pages before, are used as they are.                       *)
(***************************************************************************)
NewThread(h) ==
  Make(h, ThreadPages, First(slices'[h]) \cup Held(h)', Last(slices'[h]),
       Held(h)' \ Last(slices'[h]))

\* PageBox::new, and the code of the program, copied to an alloc_zeroed.
NewValue(h, page_count) == Make(h, page_count, {}, Held(h)', {})

\* A write through DerefMut.
Write(h, page) ==
  /\ Running /\ page \in Held(h)
  /\ clean' = clean \ {page}
  /\ empty' = [empty EXCEPT ![h] = @ \ {page}]
  /\ UNCHANGED vars

\* PageSlice::drop, also at the end of PageBox::drop and of into_inner: the
\* pages are poisoned before they are freed.
Drop(h) ==
  /\ DropSlice(h)
  /\ clean' = IF DebugAssertions THEN clean \ Held(h) ELSE clean
  /\ empty' = [empty EXCEPT ![h] = {}]

\* PageBox::leak and forget.  The owner, table or thread, may write from now
\* on at any time, so nothing is known of the pages.
Leak(h) ==
  /\ ForgetSlice(h)
  /\ clean' = clean \ Held(h)
  /\ empty' = [empty EXCEPT ![h] = {}]

DownloadMoreRam(node) == AddMemoryNode(node) /\ UNCHANGED <<clean, empty>>

BoxNext ==
  \/ BootHeap
  \/ \E h \in Handles :
       \/ \E page_count \in 0 .. MaxPages :
            NewSlice(h, page_count) \/ NewValue(h, page_count)
       \/ NewTable(h)
       \/ NewThread(h)
       \/ \E page \in Held(h) : Write(h, page)
       \/ Drop(h)
       \/ Leak(h)
  \/ \E node \in Nodes : DownloadMoreRam(node)

BoxSpec == BoxInit /\ [][BoxNext]_boxVars

-----------------------------------------------------------------------------
(***************************************************************************)
(* A page table starts without entries and a thread with an empty page     *)
(* table and an empty stack, whatever their pages were used for before,    *)
(* although alloc_zeroed clears the first page of a slice only; and every  *)
(* page of them stays zero until its owner writes it, whatever is made,    *)
(* written, poisoned or added to the heap around it.                       *)
(***************************************************************************)
ZerosKept == \A h \in Handles : empty[h] \subseteq clean

=============================================================================
