---------------------------- MODULE EarlyPaging ----------------------------
(***************************************************************************)
(* The page tables of the kernel before it manages memory: the ones        *)
(* kern/bootstrap.S builds, and what map_addr_early_boot() of kern/init.c  *)
(* adds to them for the loader's data, the frame buffer, the registers of  *)
(* devices (mmio_map_region() of kern/timer.c) and those of the display    *)
(* adapter (init_gpu() of kern/virtio-gpu.c).  Page directories come from  *)
(* a few spare pages and are never given back.                             *)
(***************************************************************************)
EXTENDS Integers, FiniteSets

CONSTANTS
  HUGE_PAGE_SIZE, PD_ENTRIES, PDP_ENTRIES,
  Spare,     \* the pages from pdefreestart to pdefreeend
  Identity,  \* <<address, size>> of the loader's data
  Registers, \* <<address, size>> of the registers of devices
  Windows,   \* <<address, size>> of the registers of the display adapter
  Buffers    \* <<address, physical address, size>> of the frame buffer

ASSUME EarlyAssumption == /\ {HUGE_PAGE_SIZE, PD_ENTRIES, PDP_ENTRIES, Spare} \subseteq Nat
                          /\ HUGE_PAGE_SIZE > 1 /\ PD_ENTRIES > 0 /\ PDP_ENTRIES > 1
                          /\ \A b \in Buffers : b[1] % HUGE_PAGE_SIZE = b[2] % HUGE_PAGE_SIZE

GIGABYTE == HUGE_PAGE_SIZE * PD_ENTRIES
None     == -1
ZERO     == 0   \* the directory at physical address 0, which is NULL

\* The two tables of directories span 512 gigabytes each.  The frame buffer, at
\* FRAMEBUFFER, is in the first gigabyte of the second table and the kernel in the one
\* after it (inc/memlayout.h:128).  What is mapped at its own address is in the first
\* table, or, like the registers of the display adapter at 768 gigabytes, beyond these.
WithinTables(start, end) ==
  \/ end <= PDP_ENTRIES * GIGABYTE
  \/ (PDP_ENTRIES + 2) * GIGABYTE <= start /\ end <= 2 * PDP_ENTRIES * GIGABYTE

ASSUME RegionAssumption ==
  /\ \A r \in Identity \cup Registers \cup Windows :
       r[1] \in Nat /\ r[2] \in Nat /\ WithinTables(r[1], r[1] + r[2])
  /\ \A b \in Buffers : /\ b = <<b[1], b[2], b[3]>> /\ {b[1], b[2], b[3]} \subseteq Nat
                         /\ PDP_ENTRIES * GIGABYTE <= b[1]
                         /\ b[1] + b[3] <= (PDP_ENTRIES + 1) * GIGABYTE
  /\ \A b, c \in Buffers : b = c

VARIABLES
  pdpt,      \* the directory of each gigabyte; pdpt1 and pdpt2 one after the other
  pds,       \* the frames of each directory
  pdefree,   \* the spare page that is next
  va_call,   \* the call of map_addr_early_boot() that runs: where it is, its end, the frame, pdp; or <<>>
  asked,     \* what it is for
  done       \* what has been asked for and mapped

epVars == <<pdpt, pds, pdefree, va_call, asked, done>>

\* The first gigabyte of memory at 0 by pde1, and at KERN_BASE_ADDR by pde2.
EarlyPagingInit ==
  /\ pdpt = [g \in 0..(2 * PDP_ENTRIES - 1) |->
               CASE g = 0 -> 1 [] g = PDP_ENTRIES + 1 -> 2 [] OTHER -> None]
  /\ pds = [d \in 0..(2 + Spare) |->
              [i \in 0..(PD_ENTRIES - 1) |-> IF d \in {1, 2} THEN i ELSE None]]
  /\ pdefree = 3 /\ va_call = <<>> /\ asked = <<>> /\ done = {}

DownTo(a) == a - (a % HUGE_PAGE_SIZE)
RoundUp(a) == DownTo(a + HUGE_PAGE_SIZE - 1)
Pdp(va) == va \div (GIGABYTE * PDP_ENTRIES)
EndOfMap(va, sz) == RoundUp(va + sz)

map_addr_early_boot(va, pa, sz, for) ==
  /\ va_call = <<>>
  /\ va_call' = <<DownTo(va), EndOfMap(va, sz), DownTo(pa), Pdp(va)>>
  /\ asked' = for
  /\ UNCHANGED <<pdpt, pds, pdefree, done>>

early_boot_pml4_init ==
  \/ \E r \in Identity : map_addr_early_boot(r[1], r[1], r[2], <<r[1], r[1], r[2]>>)
  \/ \E b \in Buffers  : map_addr_early_boot(b[1], b[2], b[3], b)

mmio_map_region == \E r \in Registers :
  LET size == r[2] + (r[1] % HUGE_PAGE_SIZE) + HUGE_PAGE_SIZE - 1
  IN map_addr_early_boot(DownTo(r[1]), DownTo(r[1]), DownTo(size), <<r[1], r[1], r[2]>>)

\* GPU_MMIO_ADDR_START and GPU_MMIO_SIZE, again for every display adapter on the buses.
init_gpu == \E r \in Windows : map_addr_early_boot(r[1], r[1], r[2], <<r[1], r[1], r[2]>>)

MutantAgain == pdefree
NextFree == pdefree + 1

\* One round of the loop.  The address of a directory that is NULL looks like none;
\* the processor finds one at physical address 0, and the store goes there, too.
MapPage ==
  /\ va_call # <<>> /\ va_call[1] < va_call[2]
  /\ LET g    == va_call[4] * PDP_ENTRIES + ((va_call[1] \div GIGABYTE) % PDP_ENTRIES)
         new  == pdpt[g] \in {None, ZERO}
         pd   == IF ~new THEN pdpt[g] ELSE IF pdefree > 2 + Spare THEN ZERO ELSE pdefree
     IN /\ pdefree' = IF new /\ pd # ZERO THEN NextFree ELSE pdefree
        /\ pdpt' = [pdpt EXCEPT ![g] = pd]
        /\ pds' = [pds EXCEPT ![pd][(va_call[1] % GIGABYTE) \div HUGE_PAGE_SIZE]
                                = va_call[3] \div HUGE_PAGE_SIZE]
  /\ va_call' = <<va_call[1] + HUGE_PAGE_SIZE, va_call[2], va_call[3] + HUGE_PAGE_SIZE, va_call[4]>>
  /\ UNCHANGED <<asked, done>>

Mapped ==
  /\ va_call # <<>> /\ va_call[1] >= va_call[2]
  /\ done' = done \cup {asked}
  /\ va_call' = <<>> /\ asked' = <<>>
  /\ UNCHANGED <<pdpt, pds, pdefree>>

EarlyPagingNext == early_boot_pml4_init \/ mmio_map_region \/ init_gpu \/ MapPage \/ Mapped
EarlyPagingSpec == EarlyPagingInit /\ [][EarlyPagingNext]_epVars

-----------------------------------------------------------------------------

\* What the processor makes of an address, None if it faults.
Translated(va) ==
  LET pd    == pdpt[va \div GIGABYTE]
      frame == IF pd = None THEN None ELSE pds[pd][(va % GIGABYTE) \div HUGE_PAGE_SIZE]
  IN IF frame = None THEN None ELSE frame * HUGE_PAGE_SIZE + (va % HUGE_PAGE_SIZE)

OnPageZero == {g \in DOMAIN pdpt : pdpt[g] = ZERO}

\* Every byte of every region that has been mapped is at its physical address, and
\* stays there whatever is mapped later: up to six gigabytes get directories of their
\* own (init.c:63), one more is mapped through the page at address 0, which it
\* overwrites; only from the next one on do two share it.
StaysMapped == Cardinality(OnPageZero) <= 1 =>
  \A r \in done : \A b \in 0..(r[3] - 1) : Translated(r[1] + b) = r[2] + b

\* No directory but the one at address 0 serves two gigabytes, and the kernel and the
\* page tables themselves stay where kern/bootstrap.S has mapped them.
OwnDirectory ==
  /\ \A g, h \in DOMAIN pdpt : g # h /\ pdpt[g] = pdpt[h] => pdpt[g] \in {None, ZERO}
  /\ \A a \in 0..(GIGABYTE - 1) :
       Translated(a) = a /\ Translated((PDP_ENTRIES + 1) * GIGABYTE + a) = a

\* What the early tables have mapped once stays mapped where it is, and each
\* gigabyte has a directory of its own.
MappingsKept == StaysMapped /\ OwnDirectory
=============================================================================
