# BoldOS: specifications, model checking and proofs

TLA+ specifications of the BoldOS kernel (`kernel/`) and of its init program
(`init/`), the TLC models that check them on small instances, and TLAPS proofs of
the main safety properties for all instances. `PROJECT.json` lists runs, mutants,
the map from definitions to source lines, findings, hazards and theorems.

## The system

BoldOS is a kernel for one aarch64 core (qemu `virt`). It boots, sets up a page
allocator on a 1 MiB heap inside its image, starts one user thread (the init
program) and then only reacts to syscalls of that thread and to the timer
interrupt. The init program reads the device tree, tells the kernel about RAM
and about the interrupt controller, and sleeps in a loop.

| Part | Source | State | Module |
|---|---|---|---|
| Bitmap | `page_alloc.rs` | cells of 64 bits | `Bitmap`, `PageSet` |
| Page allocator | `page_alloc.rs` | bitmap, `ram_base`, live `PageSlice`s | `PageAlloc`, `PagePool` |
| `PageBox` | `page_alloc.rs` | contents of pages | `PageBox` |
| Page tables of a thread | `mmu.rs` | four levels of tables in RAM | `PageTables` |
| Address space, `start`, mapping syscalls | `usermode.rs`, `mmu.rs` | the thread's tables, TLB | `AddressSpace` |
| Kernel page tables, MMU setup | `mmu.rs`, `init.s`, `main.rs` | base registers, pc, sp, vectors, TLB | `Boot` |
| Syscall dispatch, error encoding | `usermode.rs`, `kernel_api`, `init/src/utils.rs` | x0, x1, x2, x8 | `Syscalls` |
| Sleeping, timer | `usermode.rs`, `arm_gic.rs` | timer registers, `GICC_BASE` | `SleepTimer` |
| GIC driver | `arm_gic.rs` | GIC registers | `Gic` |
| Interrupt mask, `IrqMutex` | `interrupts.rs`, `init.s` | DAIF, guards | `IrqMutex` |
| Vectors and exception handlers | `init.s`, `exceptions.rs` | all registers, frames on the stack | `ExceptionFrame` |
| Init program | `init/src` | progress of `main`, its mappings | `InitProgram` |
| Console | `qemu_console.rs` | `UART0_ADDR` | in `Boot` (address only) |
| fw_cfg, build files | `drv/fw_cfg.rs`, `build.rs`, ... | none | not modelled |

How they interact: syscalls and interrupts enter the kernel with interrupts
masked, so a syscall runs to its end on the only core; `AddressSpace` takes
frames from the page allocator for tables and for `MemMap`; every use of the
allocator is one critical section of `PAGE_ALLOC`, an `IrqMutex`; `SleepSec` is
the one syscall during which time matters, since it waits for the timer with
interrupts masked. `IrqMutex` is what justifies that one critical section is one
action of `PageAlloc`, and `PageSet` is the interface between `Bitmap`, which
shows what the word-level code computes, and the modules above it. `InitProgram`
composes program and kernel: it extends `AddressSpace`, and every syscall of the
program is the action of that name, with the page tables and the frames it
changes. `Core` composes what the core itself does: `Boot` up to the thread,
`ExceptionFrame` for every entry to the kernel from then on, and `Gic` for the
interrupts among them. It justifies that the other modules let the thread go on
after a syscall or an interrupt as if nothing but x0 had changed, and that a
physical address and the kernel's pointer to it are the same thing. `PageBox`
puts contents into the pages of `PageAlloc`.

## Modules

**PageSet** has the meaning of a bitmap as a set of page numbers: first fit,
marking, clearing and moving runs. **Bitmap** translates each function of
`struct Bitmap`: `find_hole`'s scan (`ScanPage` is one iteration), the
head / whole cell / tail loops of `mark_allocated` and `free` (`HeadPages`,
`WholeCells`, `SinglePages`), the descending copy of `move_bit_range_forward`,
and `zero_bit_range` with its masks. Its machine calls them with any arguments;
a failed assertion or an index out of bounds is a panic, after which nothing
happens.

**PageAlloc** is the allocator with its history: `InitEarlyHeap`, `Alloc`,
`DropSlice`, `ForgetSlice` and `AddMemoryNode`, which contains `expand_to` and
the three `mark_allocated` calls that follow it, with every assertion that may
stop it (`ExpandFails`, `AddrFails`, `MarkFails`, `FreeFails`). `DebugAssertions`
chooses the build. Quantities are in pages; `PhyAddr::virt` only sets the upper
bits, so order and distance are those of physical addresses. `ram` is a history
variable. **PagePool** is what callers rely on: pages are free, held by one
slice, or gone; `PageAlloc!PoolSpec` states that the allocator implements it,
with `FreePages` as the mapping for free pages.

**PageTables** has the functions of `PageTable` as operators on a memory record
(tables, used frames, panicked), with tables of `R` entries instead of 512.
Attribute bits are left out: no decision depends on them, as the kernel makes no
block entries in a thread's table. `MeasureEntry` is one iteration of
`measure_contiguous_region_helper`, `MeasureL2`, `MeasureL1` and
`measure_contiguous_region` its three levels, with the code's page sizes.
**AddressSpace** composes them into `Start` (`usermode::start`), `PhyMap`,
`MemMap`, `MemUnmap`, `DownloadMoreRam` and the failing calls, beside a TLB that
the hardware fills between calls, when the thread accesses a page. A memory node
has a place, a length and an alignment; `Accepted` is what the assertions behind
`add_memory_node`, which `PageAlloc` has one by one, ask of it together. Fields of
`struct Thread` are in the order in which the compiler lays them out
(`StackOffset`, `TableOffset`). What the thread writes to its own
memory is not modelled.

**PageBox** extends `PageAlloc` with what is in the pages: `clean` has the pages
that are all zero, `empty[h]` the pages of a slice that its owner takes for
zeros. Every action is one of the allocator together with what it writes. `Make`
is the common part of the constructors. `PageSlice::zero` clears one page
whatever the length (`First`), and `NewThread` contains the second zeroing by
`Thread::init` that makes up for it; `Drop` poisons in debug builds.

**Boot** is the way from `_start` to the thread. The unit is a 1 GiB block, the
size of the kernel's mappings. pc, sp, vectors and UART are addresses, physical
at first; each step moves one of them or changes the translation, and `Seen` is
what the core may find at an address, through tables or TLB.

**Syscalls** has the registers of a call: a wrapper of `utils.rs` loads them
(`Svc`), the handler of that number answers in x0 or leaves it alone, and the
wrapper decodes x0 (`Return`). u64 and u32 are words of `U64` and `U32` values,
with the sign extension and the narrowing of the casts. A call that may panic,
or fault in `copy_from_user`, may stop the kernel here at any time; when it does
is the subject of the other modules.

**InitProgram** runs `main` of the init program on `AddressSpace`. A device tree
is reduced to what the program distinguishes: its size, how much of it parses,
boot arguments, the sequence of memory nodes, and what `find_and_init` meets. What
the kernel does with a node, or with a mapping or a buffer there is no room for,
is up to `AddressSpace`. `Provided` collects what program and kernel rely on
without a check: whole pages, room for tables in the early heap, a node that is
accepted and has room for the buffer, and an address of the interrupt controller.

**SleepTimer** splits `SleepSec` where time can pass: computing the deadline,
reading the clock, arming the timer, `wfi`. The counter may advance between any
two steps. The hardware is modelled as far as the code uses it: the compare
value and its signed 32 bit view, the level of the interrupt line, and a `wfi`
that wakes up for a pending interrupt whether masked or not, or for nothing.
`DebugAssertions` chooses between a panic and wrapping where `sec * 1000` or the
countdown does not fit a u64 (`CounterBits`).

**Gic** has the registers that `init_gic` reads, changes and writes back, and
`handle_irq` in three steps (acknowledge, route, end of interrupt), between which
interrupt lines rise and fall.

**ExceptionFrame** follows all 31 registers through a vector, its handler and
`__exception_restore_context`. A value is who wrote it and to which register, so
that a register restored to the wrong place is noticed. A fault can also come
from `copy_from_user` inside a syscall.

**Core** extends these three and runs them as one machine. `SetThread` of
`Thread::enter` is a step of `Boot` (the thread's table, the flush) and of
`ExceptionFrame` (ELR, SPSR); `Irq` needs a pending interrupt of `Gic` and an open
mask of `ExceptionFrame`; `irq_handler` takes the steps of `handle_irq` and returns after
the last; `HandleSvc` may be `LoadKernelDevice`, which runs `init_gic`. That no
interrupt comes before `init_gic` is so not assumed but follows.

**IrqMutex** splits `lock` into the read of DAIF and the disable. The contexts
are `kmain` before and after `interrupts::enable`, syscall handlers and the
interrupt handler; each may nest guards up to `MaxGuards`.

`MC*` modules give constants to TLC. Operators whose comment describes a defect
(such as `AllocShort`, `WakeOnce`, `DropEnables`) are the mutants: each replaces
a definition to confirm that a property notices.

## Runs

| Run | Checks | Shows |
|---|---|---|
| `bitmap_words` | `FindHoleIsFirstFit`, `RangeLoopsExact`, `ZeroRangeExact`, `MoveForwardExact` | the word-level code computes the set operations, on all arrays of 3 cells of 3 bits and all arguments |
| `page_alloc` | `OwnedPagesMarked`, `SlicesDisjoint`, `ReservedNotHandedOut`, `HandsOutRamOnly`, `ZerosKept`, `GrowKeepsOldPages`, `PoolSpec` | no page has two owners, image and device tree stay reserved, page tables and threads on recycled pages start empty and stay so, growing loses nothing, and the pool is implemented |
| `page_alloc_release` | `OwnedPagesMarked` (violated) | without debug assertions a second memory node frees pages in use |
| `address_space` | `FindHoleSound`, `TablesOwnFrames`, `TlbCoherent`, `TranslationExact` | mapping calls touch exactly their region, every change of a translation is followed by a flush, and the tables stay a tree on their own frames, up to running out of RAM |
| `stack_pages` | `StackMapsStack` (violated) | the stack mapping is four pages, the stack two |
| `measure_region` | `MeasureExact` (violated) | measured lengths are not those of mapped regions |
| `sleep_timer` | `NeverEarly`, `SleepReturns`, `IrqSettles` | sleeping is neither too short nor endless, and leaves no interrupt behind |
| `sleep_long` | `SleepReturns` (violated) | a countdown beyond 31 bits may never end |
| `irq_mutex` | `MutualExclusion`, `MaskRestored`, `SavedMasks`, `IrqTaken` | guarded data has one user, every guard has saved the right mask, the mask is restored, interrupts are taken in the end |
| `syscalls` | `ResultFaithful` | the wrapper's `Result` is what the kernel decided |
| `init_program` | `TreeReadable`, `KernelSurvives`, `SleepsForever` | the program reads only what is mapped, stops the kernel only where something is missing that nobody checks (`Provided`), and reaches its loop with a good tree |
| `core` | `CoreFindsImage`, `HighMemory`, `LowMemoryGone` | nothing the core uses is unmapped under it, and nothing of low memory is left to the thread |
| | `ContextKept`, `EnterUndisturbed`, `OneFrame` | interrupted code gets its registers back, `Thread::enter` is not interrupted, frames do not nest |
| | `AllEnded`, `OnlyRequested` | every interrupt acknowledged is ended, and `init_gic` enables the one it is given and leaves all others alone |

`TypeOK` is checked in the main passing run of a module where it says more than
the shape of variables.

### Bounds

- `bitmap_words`: three cells are the least in which a run has a head, a whole
  cell and a tail; cells of three bits have a first, an inner and a last bit. All
  512 arrays are reached.
- `page_alloc`: a layout with the proportions of `linker.lds` (device tree, text,
  heap of 3 pages, image end inside a page), 12 bits, 3 slices of up to 3 pages,
  and eight nodes: two that fit and one for each check that can fail. Three
  slices fill the heap and fragment it, before and after the move of the bits;
  heap and its new place overlap for neither node, as `MoveForwardExact`
  covers overlap. A thread has 3 pages (`ThreadPages`): one that `zero` clears, one
  that only `Thread::init` clears, and the last with the fields.
- `address_space`: 6 entries per table, 13 frames of early heap and 21 in all
  once `DownloadMoreRam` has added the node; another node is a frame shorter, and
  one does not have the first frame and is refused. Lengths are 0 (a call with no
  flush), 1 and 7: a mapping of 7 pages spans two level 3 tables, the third one
  in a row also two level 2 tables; RAM runs out after a few calls, in the
  allocation of `MemMap` or in the middle of a mapping. `UnmapStarts` are the
  first page of vmap, one inside a later mapping, and the last page of all. One
  TLB entry is enough, as each entry is judged alone; `Accesses` are a page that
  is mapped early and one in the second table. With fewer entries the address
  space would end before RAM does, which `SpaceAssumption` excludes, as it does
  for 512 entries and 256 MiB.
- `sleep_timer`: 5 ticks per second of 2 "milliseconds", so that `freq / 1000`
  and the clock both round; sleeps of 0, 1 and 3 seconds that start up to tick
  `LastStart`; `MaxTicks` lets each of them end. In these bounds every countdown
  fits the signed timer value of 5 bits. Sleeps of 100 and 128 seconds overflow
  the 8 bits of the countdown and of the deadline and panic. `sleep_long` has a timer value of 4
  bits, which a countdown of 3 seconds (12 ticks) does not fit, as one of more
  than 34 seconds does not fit 32 bits at 62.5 MHz.
- `irq_mutex`: two locks nested in each context.
- `syscalls`: words of 6 bits and ints of 4, so that sign extension, narrowing and
  an address that is as large as an error occur, and an argument with the sign bit
  set; a `Log` longer than its buffer.
- `init_program`: 2268 trees, of half a page, one page, one and a half, three, 20
  and 120, of which the last needs more tables than the early heap has frames.
  There are none, one or two memory nodes in both orders, from seven: all of the
  RAM, just enough, and one each that is too small for the buffer, too short for
  the image, longer than the bitmap, off a page boundary, and without the kernel.
  Every conjunct of `Provided` is needed: without it `KernelSurvives` is violated.
  `HeapHasRoom` and `NodeHasRoom` count tables from above (`TablesFor`), so trees
  a little beyond them may do as well. One page of the three that the layout
  leaves for the tree is marked by the kernel, as are 64 KiB in the code.
- `core`: blocks of 1 GiB in tables of 8 entries, two places for the image, one
  TLB entry, which firmware may have left. Registers of the GIC hold four enable
  bits or two priorities, so that ids 6 and 7 share both kinds and id 3 is in
  registers of its own; firmware left priorities 3 and 1 in every register
  (`Firmware`). A syscall may request 3 or 6. One stamp for the thread's registers
  suffices: it differs from the kernel's values and from scratch.

`CHECK_DEADLOCK FALSE` is used where the system really may stop: a panic of the
kernel (`Bitmap`, `PageAlloc`, `AddressSpace`, `Syscalls`) and the loop of a fault
(`Core`). The other runs check deadlock, and a panic is a loop there.

### Fairness

- `SleepTimer`: the counter runs; the core executes kernel code; `wfi` ends when
  an interrupt is pending; a pending interrupt is taken when it is not masked.
  These are guarantees of the architecture. No fairness for the thread, nor for a
  `wfi` that ends without cause.
- `IrqMutex`: calls of `lock` complete, and boot, handlers and the scope of every
  guard end if they can again and again (strong fairness: they are finite code,
  however many locks they take inside); an unmasked interrupt is taken.
- `InitProgram`: the program goes on (weak fairness of `Moves`): it is the only
  thread, its code has no loop but the last, and `SleepSec`, the one call that
  waits, returns, which is `SleepReturns` of `SleepTimer`.

## Proofs

Loops are recursive functions, and what they compute is proved by counting up: the
set of the numbers of passes after which a statement holds has 0 in it and with
each number the next (`CountUp`, from a least element lemma for sets of naturals).
This lemma, and those about quotients and remainders, are at the head of the
modules that use them.

`BitmapProofs`, for cells of any width and any number of them: `FindHoleIsExact`,
`RangeLoopsAreExact`, `ZeroRangeIsExact` and `MoveForwardIsExact`, which say that
the word-level functions compute the operators of `PageSet`, and `BitmapTypes`, on
which the four rest. Each function has a lemma for any array and run. `Searching`
is the invariant of the scan of `find_hole`: `hole_count` is the length of the
longest free run that ends at the current page, and no hole ends before it.
`WholeCellsInside` is the arithmetic of head, whole cells and tail; `Copied` says
what the descending copy has done after each bit. With these the modules above,
which use `PageSet`, rest on the code of the bitmap for its real size.
`BitmapAssumption`: a cell has bits and the array has cells.

`PageAllocProofs`:

- `TypeCorrect`: `Spec => []TypeOK`, in every build.
- `AllocInvariant`: with debug assertions `Spec => []AllocInv`. `AllocInv` is the
  conjunction of the safety properties, which is not inductive by itself. Two
  facts are needed: in phase "early" the base is the heap, so that `expand_to`
  moves the bits of all owned pages; and in phase "full" the bit of the device
  tree is set and lies within the part that `expand_to` keeps, so that a second
  node always hits "double alloc" and panics. This is why the theorem needs debug
  assertions, and `page_alloc_release` shows that it fails without.
- `OwnedPagesSafe`, `SlicesSafe`, `ReservedPagesSafe`, `RamOnly`: the properties
  themselves.

- `FirstHoleIsHole` and `NoHoleIsOom`, the lemmas about first fit: a run inside the
  bitmap with no marked page, and `NoHole` only if there is none.

Assumptions: `LayoutAssumption` (device tree, text, heap inside the image, in the
order of `linker.lds`) and `NodesAssumption` (a node that contains the device
tree starts less than a heap's length before it; `_dtb_start` is the start of
RAM).

From `AllocInv`, in the same module: `ImplementsPool`, that with debug assertions
every step of the allocator is a step of `PagePool` or a stutter, one lemma per
operation; and `GrowthKeepsPages`, an action property. The step that needs work is
`add_memory_node`, where the free pages must be shown to grow although all bits
move (`NodeKeepsHeap`).

And about `PageBox`: `BoxesUseAllocator`, that `PageBox` implements `PageAlloc`, so that
everything above holds for it; and `BoxesStayEmpty`, for threads of any size. The
inductive invariant `BoxInv` adds to `ZerosKept` that what an owner takes for
empty are pages it holds; that writes and poison of others miss them is then
`SlicesDisjoint`, and hence again a result for builds with debug assertions.
`BoxAssumption`: a thread has at least a page.

`PageTablesProofs` has the lemmas about page tables, for tables of any size.
`Levelled` is what makes a walk meaningful: a function `lvl` gives each frame its
level, the entries of a table point to tables of the next level, and no two to the
same. A write to a level 3 table then changes the walk of one address (`PageWrite`,
`OnePath`), and `get_mut_or_alloc` extends the tree without changing any walk
(`NewTableWalk`). `MapPagesStep` and `VunmapStep` are the loops over pages.
`FindHoleReturns`: the loop of `find_hole` ends, and what it returns is an address
at which a free region of the length asked for was measured.

`AddressSpaceProofs`, from these: `TranslationsAreExact`, `TlbStaysCoherent`,
`TablesKeepTheirFrames` and `SpaceTypes`. The inductive invariant `SpaceInv` says
that there is such an `lvl` for the thread's tables, and that frames which the
allocator never returns (`Kept`) and frames given to the thread hold no table.
Without the levels an entry that `vmap` writes could be one of a table above, and
without `Kept` a table could lie in a frame that another mapping shows to the
thread. `SpaceAssumption`: frames and addresses are in range; the heap and the
reserved frames are disjoint; and the address space is larger than what RAM can
fill from `VmapStart` on.

`CoreProofs`, for tables, images, registers and interrupts of any number:
`ImageAlwaysFound`, `HighMemoryMapped`, `LowMemoryEjected` (boot), `ContextIsKept`
(an action property), `EnterIsUndisturbed`, `FramesDoNotPile` (vectors) and
`InterruptsEnd` (interrupt controller). The inductive invariant `CoreInv` has a
part per component. `BootInv`: which of pc, sp, vectors, base registers and UART
address have been moved at each stage, and that the TLB agrees with the tables.
For the vectors: at each of their places, which registers the frame already, or
still, holds the interrupted context of. For the controller: which interrupt is
active at each place of `handle_irq`, and none outside of it.

`IrqMutexProofs`: `GuardsExclusive`, `GuardsRestoreMask` and `GuardsSaveMasks`, for
all mutexes and nesting depths. The first two are not inductive without the third
and the types (`LockInv` is all of them). `SavedMasks`: the
outermost guard of a context has saved the mask the context started with, every
inner one a set mask, and a `lock` under way likewise; and only contexts that
start unmasked are interrupted. Without it nothing is known of the value that a
drop writes to DAIF.

`SyscallsProofs`: `ResultIsFaithful`, for words of any width. The invariant
`CallInv` follows a call: until the kernel has answered x8 is its number, and
after that x0 decodes to the answer. The lemmas under it are about arithmetic: a
negative error, sign extended by the kernel and narrowed by the wrapper, comes
back, and no address or count is taken for one. `WordAssumption`: words are a
multiple of ints, and addresses of the thread are below half of the words.
Arguments are any words; but `DownloadMoreRam` leaves its first one in x0, so that
`ResultFaithful` speaks of physical addresses there (`RamAddress`).
`RegistersHoldWords` is type correctness: no conversion leaves a value that does
not fit its register.

`SleepTimerProofs`: `SleepNeverEarly`, for every frequency, width and argument and
for both builds. The invariant `SleepInv` says that the clock has not gone back
since the call and that the deadline is the call's, cut to its width. The rest is
that two clocks rounded down differ by no more than they should
(`ClockDifference`). `SleepTypes` is type correctness: the
timer registers keep their widths. `PowerAssumption` states for the provers that
powers of two are positive numbers.

Only model-checked:

- liveness (`SleepReturns`, `IrqSettles`, `IrqTaken`, `SleepsForever`), which is
  out of the prover's reach;
- `FindHoleSound` of `AddressSpace`: it depends on which addresses the scan of
  `find_hole` visits, whose steps are measures in entries of tables of all levels,
  and on counting that RAM runs out before addresses do;
- `OnlyRequested` of `Core`, which is about the bits of a mask written as powers of
  two, and the provers know nothing of exponentiation;
- `TreeReadable` and `KernelSurvives` of `InitProgram`, which are about amounts of
  RAM that suffice for the program, and hence about the concrete sizes.

The release build of `SleepTimer` has no run: `SleepNeverEarly` covers it.

## Findings

1. `expand_to` assumes that only the early heap was managed before; a second
   memory node clears bits of pages in use. Debug builds panic instead.
2. The stack mapping is twice the size of `Thread.stack`.
3. `measure_contiguous_region` does not measure what its comment says, although
   `find_hole`, its only caller, stays sound.
4. `timer_set_timeout` truncates long countdowns to a signed 32 bit register.

Met while modelling, and stated here without a run:

- `Log` prints the first 256 bytes of a longer string, and its caller does not
  learn of the rest (`usermode.rs:150`).
- The wrapper `sleep_sec` declares x0 as an input only (`init/src/utils.rs:134`),
  while a `SleepSec` that returns writes it (`usermode.rs:252`).
- `find_mem_nodes` keeps the last memory node only (`init/src/main.rs:61`), and
  neither program nor kernel checks it before the assertions of `expand_to`.
- The handler answers an unknown number with `u64::MAX` (`usermode.rs:140`), which
  a wrapper takes for `KError::AlreadyExists`.
- The size of the device tree goes to `PhyMap` unrounded (`init/src/main.rs:37`),
  which asserts whole pages (`mmu.rs:145`); `WholePages` of `InitProgram` names
  this case.
- Frames of a device tree beyond 64 KiB are free after `add_memory_node`
  (`page_alloc.rs:552`), although `linker.lds:6` leaves more room for it.
- Without overflow checks a deadline may wrap, and the call is short
  (`usermode.rs:242`); `NeverEarly` speaks of deadlines that fit.

## Not modelled, and why

- The fw_cfg driver: the whole file is commented out.
- Console output and formatting: one volatile write per character, with no state
  but the address of the UART, which is in `Boot`.
- Attribute bits of page table entries: no decision of the code depends on them;
  `Boot` tells normal from device memory by table.
- What the thread writes to its own memory, and the parsing of a device tree:
  data of the program; `InitProgram` keeps what it decides.
- The vectors for SP_EL0 and AArch32, which nothing enters, are copies of those
  that are modelled. `Bitmap`'s iterator and `overwrite_free_pages` are dead code.
- The overflow of `ticks * 1000` in `timer_get_absolute_time_ms`, after years of
  uptime, and walks of low addresses while TTBR0 is 0 (`mmu.rs:410`): `Boot` takes
  what is at physical address 0 for a table without entries.
- Build files and scripts; the addresses of `linker.lds` are constants and
  assumptions of `PageAlloc`.
