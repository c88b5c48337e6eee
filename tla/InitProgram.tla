---------------------------- MODULE InitProgram -----------------------------
(***************************************************************************)
(* The init program (init/src/main.rs and drv.rs) on the kernel: which     *)
(* syscalls it makes, in which order and with which arguments, for the     *)
(* device tree that it finds.  A step is a syscall with the code of the    *)
(* program up to the next one; the kernel's part of it is the action of    *)
(* AddressSpace of that name.                                              *)
(***************************************************************************)
EXTENDS AddressSpace, Sequences

CONSTANTS
  Trees,        \* the device trees the machine may have
  PageBytes,    \* PAGE_SIZE, in the units of totalsize
  DtbFrame,     \* first frame of the device tree, 0x40000000
  DtbPages,     \* frames that add_memory_node marks for it
  BigBuffer     \* pages of the 10 MB buffer

(***************************************************************************)
(* A tree has its totalsize, how much of it parses (nothing, the header as *)
(* far as totalsize, or all that DevTree::new looks at), whether it has    *)
(* boot arguments, its memory nodes in order (none also if they cannot be  *)
(* parsed), and what find_and_init meets in it: "good", "bad" (a node      *)
(* missing, twice, not to be parsed, or with a value that an assert        *)
(* refuses) or "noreg" (an interrupt controller without a reg property).   *)
(***************************************************************************)
ASSUME TreesAssumption ==
  \A t \in Trees :
    /\ t.totalsize \in Nat \ {0} /\ t.bootargs \in BOOLEAN
    /\ t.parses \in {"nothing", "header", "all"}
    /\ t.devices \in {"good", "bad", "noreg"}
    /\ \A i \in 1 .. Len(t.mem) :
         /\ t.mem[i].first \in Nat \ {0} /\ t.mem[i].frames \in Nat
         /\ t.mem[i].aligned \in BOOLEAN

VARIABLES
  tree,         \* the device tree of this machine
  at,           \* where main is
  dtb,          \* page at which the device tree is mapped
  gicc          \* 0: init_gic not called, 1: with address 0, 2: with an address

progvars == <<tree, at, dtb, gicc>>
allvars == <<vars, progvars>>

TreePages == (tree.totalsize + PageBytes - 1) \div PageBytes

\* All of the tree is in the page that was mapped for its header.
Short == tree.totalsize <= PageBytes

ProgInit ==
  /\ Init
  /\ tree \in Trees
  /\ at = "_start"
  /\ dtb = 0
  /\ gicc = 0

\* The program goes on at `next', unless the kernel has stopped.
Goto(next) == at' = IF m'.panicked THEN "stopped" ELSE next

\* rust_panic of the program: a message and an endless loop.
Panic == at' = "panic" /\ UNCHANGED <<vars, dtb, gicc, tree>>

\* The kernel stops: a panic, or a fault in copy_from_user.
KernelStops ==
  /\ m' = [m EXCEPT !.panicked = TRUE]
  /\ at' = "stopped"
  /\ UNCHANGED <<grown, root, tlb, granted, last, dtb, gicc, tree>>

\* Log, and the copy_from_user of LoadKernelDevice: the page is mapped or
\* the kernel stops.
Copies(page) == Walk(m, root, page) # 0

-----------------------------------------------------------------------------
\* usermode::start; the program says hello.
Enter ==
  /\ at = "_start"
  /\ Start
  /\ Goto("map_dtb")
  /\ UNCHANGED <<dtb, gicc, tree>>

\* map_dtb: the first page.
MapHeader ==
  /\ at = "map_dtb"
  /\ PhyMap(DtbFrame, 1)
  /\ dtb' = last'.vaddr
  /\ Goto("totalsize")
  /\ UNCHANGED <<gicc, tree>>

\* The header is read: a tree of at most a page needs no other mapping, and
\* DevTree::new looks at it here.
ReadTotalsize ==
  /\ at = "totalsize"
  /\ IF tree.parses = "nothing" \/ (Short /\ tree.parses = "header") THEN Panic
     ELSE /\ at' = IF Short THEN "parse" ELSE "unmap"
          /\ UNCHANGED <<vars, dtb, gicc, tree>>

UnmapHeader ==
  /\ at = "unmap"
  /\ MemUnmap(dtb, 1)
  /\ Goto("remap")
  /\ UNCHANGED <<dtb, gicc, tree>>

\* The header stays the mapping that is used.
MapWholeKeepsHeader ==
  /\ at = "remap"
  /\ IF tree.totalsize % PageBytes = 0 THEN PhyMap(DtbFrame, TreePages) ELSE Unaligned
  /\ Goto(IF tree.parses = "all" THEN "parse" ELSE "panic")
  /\ UNCHANGED <<dtb, gicc, tree>>

\* The kernel asserts that the length is a multiple of the page size.
MapWhole ==
  /\ at = "remap"
  /\ IF tree.totalsize % PageBytes = 0 THEN PhyMap(DtbFrame, TreePages) ELSE Unaligned
  /\ dtb' = last'.vaddr
  /\ Goto(IF tree.parses = "all" THEN "parse" ELSE "panic")
  /\ UNCHANGED <<gicc, tree>>

\* A second memory node is refused.
FindOneMemNode ==
  /\ at = "parse"
  /\ IF tree.bootargs /\ ~Copies(dtb) THEN KernelStops
     ELSE IF Len(tree.mem) # 1 THEN Panic
     ELSE at' = "more_ram" /\ UNCHANGED <<vars, dtb, gicc, tree>>

\* find_mem_nodes up to its syscall: the boot arguments are printed from
\* the mapping of the tree, and the last memory node is kept.
FindMemNodes ==
  /\ at = "parse"
  /\ IF tree.bootargs /\ ~Copies(dtb) THEN KernelStops
     ELSE IF tree.mem = <<>> THEN Panic
     ELSE at' = "more_ram" /\ UNCHANGED <<vars, dtb, gicc, tree>>

LastMemNode == tree.mem[Len(tree.mem)]

\* The first memory node is the one that counts.
TellFirstMemNode ==
  /\ at = "more_ram"
  /\ DownloadMoreRam(tree.mem[1])
  /\ Goto("mem_map")
  /\ UNCHANGED <<dtb, gicc, tree>>

TellMemNode ==
  /\ at = "more_ram"
  /\ DownloadMoreRam(LastMemNode)
  /\ Goto("mem_map")
  /\ UNCHANGED <<dtb, gicc, tree>>

AllocBuffer ==
  /\ at = "mem_map"
  /\ MemMap(BigBuffer)
  /\ Goto("find_and_init")
  /\ UNCHANGED <<dtb, gicc, tree>>

FindDevices ==
  /\ at = "find_and_init"
  /\ IF tree.devices = "bad" THEN Panic
     ELSE at' = "load" /\ UNCHANGED <<vars, dtb, gicc, tree>>

\* LoadKernelDevice, from a struct on the stack.
LoadDevice ==
  /\ at = "load"
  /\ IF Copies(DEFAULT_SP - 1)
     THEN /\ gicc' = IF tree.devices = "good" THEN 2 ELSE 1
          /\ at' = "time"
          /\ UNCHANGED <<vars, dtb, tree>>
     ELSE KernelStops

\* current_time_ms: the counter can be read once init_gic has allowed it.
ReadTime ==
  /\ at = "time"
  /\ IF gicc = 0 THEN KernelStops
     ELSE at' = "sleep" /\ UNCHANGED <<vars, dtb, gicc, tree>>

\* sleep_sec(1), which needs GICC_BASE # 0.  SleepTimer has the details.
Sleep ==
  /\ at = "sleep"
  /\ IF gicc # 2 THEN KernelStops
     ELSE at' = "time" /\ UNCHANGED <<vars, dtb, gicc, tree>>

\* The endless loop of a panic, of the program or of the kernel.
PanicLoop == at \in {"panic", "stopped"} /\ UNCHANGED allvars

ProgNext ==
  \/ Enter \/ MapHeader \/ ReadTotalsize \/ UnmapHeader \/ MapWhole
  \/ FindMemNodes \/ TellMemNode \/ AllocBuffer
  \/ FindDevices \/ LoadDevice \/ ReadTime \/ Sleep
  \/ PanicLoop

(***************************************************************************)
(* The program goes on: the thread is the only one, and SleepSec returns   *)
(* (SleepTimer).  Every step of ProgNext but PanicLoop goes to another     *)
(* place, and there is one in every state (no deadlock), so this is the    *)
(* weak fairness of ProgNext, stated without the state of the kernel.      *)
(***************************************************************************)
Places == {"_start", "map_dtb", "totalsize", "unmap", "remap", "parse", "more_ram",
           "mem_map", "find_and_init", "load", "time", "sleep", "panic", "stopped"}
Moves == at \notin {"panic", "stopped"} /\ \E p \in Places \ {at} : at' = p

ProgSpec == ProgInit /\ [][ProgNext]_allvars /\ WF_at(Moves)

-----------------------------------------------------------------------------
\* At most this many new tables map `count' pages in a row, as vmap does:
\* one of level 1 and the ends of a run in one table more than it fills.
TablesFor(count) == 3 + 2 * ((count + R - 2) \div R)

(***************************************************************************)
(* What neither the program nor the kernel checks before it relies on it:  *)
(* a tree of more than a page is a whole number of pages, the early heap   *)
(* has room for the program, its thread and the tables of all that is      *)
(* mapped before DownloadMoreRam, the last memory node is one that         *)
(* add_memory_node accepts, with room for the buffer and its tables in one *)
(* piece, and the interrupt controller has an address.                     *)
(***************************************************************************)
WholePages == Short \/ tree.totalsize % PageBytes = 0

HeapHasRoom ==
  CodePages + ThreadPages + TablesFor(CodePages) + TablesFor(DefaultStackPages)
    + TablesFor(1) + TablesFor(TreePages) <= Cardinality(HeapFrames)

NodeHasRoom ==
  \E f \in 1 .. Frames :
    Run(f, BigBuffer + TablesFor(BigBuffer))
      \subseteq Run(LastMemNode.first, LastMemNode.frames) \ (HeapFrames \cup NodeReserved)

Provided ==
  /\ WholePages /\ HeapHasRoom
  /\ tree.mem # <<>> => Accepted(LastMemNode) /\ NodeHasRoom
  /\ tree.devices # "noreg"

\* The whole tree is mapped, page by page.
TreeMapped == \A i \in 0 .. (TreePages - 1) : Walk(m, root, dtb + i) = DtbFrame + i

(***************************************************************************)
(* Whenever the program reads the device tree, all of it is mapped where   *)
(* the program takes it to be, after the unmapping of its first page, and  *)
(* the frames reserved for it hold no page table and no page of the        *)
(* program, although DownloadMoreRam frees the whole node in between.      *)
(***************************************************************************)
TreeReadable ==
  at \in {"parse", "more_ram", "find_and_init"} =>
    /\ TreeMapped
    /\ Run(DtbFrame, DtbPages) \cap (TableFrames \cup granted) = {}

(***************************************************************************)
(* The kernel survives the init program on every machine that provides     *)
(* what is not checked; whatever else is wrong with the tree, such as a    *)
(* header that does not parse, no memory node, or devices that are missing *)
(* or have values find_and_init refuses, stops the program only.           *)
(***************************************************************************)
KernelSurvives == Provided => ~m.panicked

(***************************************************************************)
(* With a tree in which nothing is wrong the program comes through all of  *)
(* its syscalls, from map_dtb to LoadKernelDevice, and sleeps again and    *)
(* again.                                                                  *)
(***************************************************************************)
GoodTree ==
  /\ Provided
  /\ tree.parses = "all" /\ tree.mem # <<>> /\ tree.devices = "good"

SleepsForever == GoodTree => []<>(at = "sleep")

=============================================================================
