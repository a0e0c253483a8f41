# JOS with a virtio GPU: specifications, model checks and proofs

The repository is a teaching kernel (JOS, x86-64) that boots through its own
UEFI loader, builds a physical memory tree, sets up timers, console and PCI,
drives a virtio GPU by polling, and ends in a monitor with a game on it.  This
directory holds TLA+ specifications of its parts, the TLC configurations that
check them on small instances, and TLAPS proofs of what can be shown for every
instance.

## 1. The system

| part | sources | state it keeps | how it meets the others | module |
|---|---|---|---|---|
| boot loader | `LoaderPkg/Loader` | what it has allocated, the memory map and its key, the page tables of the kernel | firmware calls, each of which may fail; hands over `uefi_lp` | `KernelImage`, `BootLoader` |
| early page tables | `kern/init.c`, `bootstrap.S`, `timer.c` | page tables, six spare directories | timers and `init_gpu()` map their registers through them | `EarlyPaging` |
| physical memory tree | `kern/pmap.c`, `pmap.h` | buddy tree of `struct Page`, `free_classes[]`, `free_descriptors`, pools | fed by the firmware's memory map; its descriptors come out of its own memory | `Pmap` |
| TSC, HPET and ACPI timer as clocks | `kern/tsc.c`, `timer.c` | frequencies | read while the machine goes on | `PitCalibrate`, `TickMeasure` |
| timer interrupts | `kern/picirq.c`, `kclock.c`, `timer.c`, `init.c`, `trap.c` | masks of the 8259As, register C, the scheduled timer | the interrupt reaches `trap_dispatch()` | `TimerIrq` |
| PCI | `kern/pci.c` | configuration space | finds the GPU, calls `init_gpu()` | `Pci` |
| GPU handshake | `kern/virtio-gpu.c` | device status, queue registers | walks the capability list PCI has found | `GpuInit` |
| virtio control queue | `kern/virtio-gpu.c`, `virtio-queue.h` | descriptor table, available and used ring, free descriptors, interrupt status | shared memory with a device that runs by itself | `VirtQueue` |
| GPU commands, surfaces | `kern/virtio-gpu.c`, `graphic.c` | resource ids, last scanout, back buffers | every command is one round trip of the queue | `GpuSurface` |
| environments, scheduler, traps | `kern/env.c`, `sched.c`, `trap.c`, `trapentry.S`, `entry.S` | `envs[]`, free list, `curenv`, saved frames | interrupts enter through `trap()`, leave through `env_run()` | `EnvSched` |
| spin lock, K&R allocator | `kern/spinlock.c`, `alloc.c` | one lock; one circular free list | called by kernel-space programs | `KAlloc`, `Arena` |
| console | `kern/console.c` | 512 byte input ring, shift state | serial port and keyboard are polled | `ConsRing`, `LossyQueue`, `Keyboard` |
| line editor | `lib/readline.c`, `kern/console.c` | line buffer | echoes what the console returns, to the serial port | `LineEditor` |
| text screen | `kern/console.c` | cursor, screen | never set up in this build | - |
| monitor | `kern/monitor.c` | the line and its arguments | dispatches commands, some of which draw | `Monitor` |
| pong | `kern/pong.c`, `pong-utilities.c` | paddles, ball, score | draws through surfaces, polls the console | `PongGame` |
| formatted output, strings | `lib/printfmt.c`, `kern/printf.c`, `lib/string.c` | none | called from everywhere | `PrintFmt`, `StringOps` |
| debug information | `kern/kdebug.c`, `dwarf.c`, `dwarf_lines.c`, `inc/dwarf.h` | none | `backtrace` and the binding of symbols in programs | `DwarfInfo`, `DwarfLines` |
| UBSan | `llvm/ubsan` | - | vendored | - |

`i386_init()` (`kern/init.c:130`) runs these parts once, on one processor and
with interrupts off, in the order page tables, console, TSC, `init_memory()`,
PIC, timers, environments, PCI with the GPU, monitor.  Interrupts are only ever
enabled while the scheduler halts (`kern/sched.c:78`) and at the end of
`check_list()` (`kern/alloc.c:23`), and in environments.  So the concurrency of
this system is

* the GPU against the driver, in shared memory (`VirtQueue`);
* programs against each other inside the allocator, if they could be switched there
  (`KAlloc`; in this build they are not, section 3);
* a function that is entered again before its caller has gone on:
  `page_lookup()` -> `ensure_free_desc()` -> `alloc_page()` -> `page_lookup()` (`Pmap`),
  `pci_scan_bus()` -> `pci_bridge_attach()` -> `pci_scan_bus()` (`Pci`);
* interrupts against environments and clocks against the processor (`EnvSched`,
  `TimerIrq`, `PitCalibrate`);
* timer events of the firmware against the loader (`BootLoader`).

`PROJECT.json` lists, under "hazards", the places where one of these can go
wrong, with the properties that watch it.

## 2. How the runs are made

The parts hand results to one another at call boundaries and otherwise share no
state that is modelled.  Three modules put the small ones together:
`MCBoot` (what happens before the first prompt), `MCConsole` (what the user types
and sees) and `MCServices` (what the kernel and its programs rely on).  Each has
a variable `part`, chosen in the initial state, and a behaviour is one of the
part that was chosen; the others stay in an initial state.  Nothing is claimed of
how the parts interleave, because in the code they do not.  Where a part has
inputs that do not change (a kernel file, a machine, a format), they are chosen
where that part is what runs.

A property of a run is often the conjunction of several named ones of its module,
one for each thing that could go wrong; the parts of a conjunction are stated,
and commented, one by one in the module.

| run | module | expects | properties |
|---|---|---|---|
| `pmap_boot` | `MCPmap` | holds | `FreeListsExact`, `MemoryAsMapped`, `DescriptorsSound`, `BootIsClean`, `BootTerminates` |
| `pmap_highmem` | `MCPmap` | violated | `FreeBlocksListed` (finding 1) |
| `pmap_flat` | `MCPmap` | violated | `ReservedStaysReserved` (finding 2) |
| `virtqueue` | `MCVirtQueue` | holds | `DescriptorsIntact`, `RequestsAnswered`, `RecyclingSound`, `SerialLosesNone`, `CommandsEndUnlessLost` |
| `console` | `MCConsole` | holds | `RingSound`, `ImplementsQueue`, `CharsReachCaller`, `KeyboardSound`, `TerminalShowsLine`, `ArgsWhole`, `BackedByItself`, `DisplayShows`, `PongSound` |
| `console_overflow` | `MCConsRing` | violated | `ZeroIfNoneWaiting` (finding 3) |
| `boot` | `MCBoot` | holds | `LoaderSound`, `KernelLoaded`, `ParamsTrue`, `MappingsKept`, `ClocksClose`, `InterruptsServed`, `ScanSound`, `DeviceReady`, `TicksGoOn`, `BootEnds` |
| `pit_stall` | `MCPitCalibrate` | violated | `WithinError` (finding 4) |
| `loader_error` | `MCBoot` | violated | `FreedOnError` (finding 5) |
| `loader_rsdp` | `MCBoot` | violated | `RsdpIsRoot` (finding 7) |
| `services` | `MCServices` | holds | `EnvsAccounted`, `ResumesWhereStopped`, `SchedulerFair`, `ExitIsFinal`, `NoStarvation`, `MutualExclusion`, `AllocatorSound`, `AllocatorPromises`, `LockReleased`, `LibraryRight`, `BacktraceRight` |
| `dwarf_line` | `MCServices` | violated | `LineOfRow` (finding 6) |

Operators called `Mutant...` are plausible wrong forms of the definition after
them.  With one of them in its place the property it is listed with is violated,
which shows that the property does speak of that code.

The sum runs do not check for deadlock, because most parts come to an end; where
that end must be reached, a liveness property says so.

## 3. The modules

### Boot: KernelImage and BootLoader (`LoaderPkg/Loader`)

`KernelImage` is `LoadKernel()` with the functions it reads the file by: one action
per call of the firmware (`GetKernelFile` ... ), each of which may fail
(`Fails`, at most `MaxFailures` times in a behaviour).  `Index` and `Index2` are the two loop
variables whose mix-up finding 5 is about; `held` and `copies` are what has been
allocated, `memory` what lies at the addresses of the kernel, a place being
filled with the number of the segment it came from.  `BootLoader` is `UefiMain()`
around it: parameters, the ACPI root, the mode of the screen, the gate, then
`GetMemoryMap` and `ExitBootServices` against timer events of the firmware that
change the map, and the pieces that stay mapped at run time.

* `LoaderSound`: both arrays of headers are freed on every way out and the pages
  of the kernel are held just when it was loaded (`PoolsFreed`); a loader that
  returns leaves neither its parameters nor its event (`LeavesNothing`); the kernel
  is entered without boot services, with a map that was current at the exit and
  with all it is told of (`KernelReady`).
* `KernelLoaded`: every segment is in memory with its bytes and zeros up to its
  size (`LoadedWhole`), every debug table is the copy of its section (`TablesSound`).
* `ParamsTrue`: the mode and the ACPI root the kernel is told of (`ScreenAsTold`,
  `RsdpPreferred`), and apart virtual addresses (`RuntimeApart`).  A board says where
  below one megabyte it has signatures (`legacy`): in the BIOS area, or in which
  paragraphs of the extended BIOS data area.  `RsdpPreferred` leaves out the boards whose
  only root lies within the latter (`OnlyWithinEbda`): what the kernel is told there is
  no root, which is finding 7 (`RsdpIsRoot`).

Bounds: kernel files with sections in every order relative to the code, overlapping and
bare segments; two failures, so that a failure while the loader recovers from
one is among them; a map that grows by one entry under a slack of one.  `Grow` =
`Slack` is the largest growth with which the loop over `GetMemoryMap()` ends, as
1024 bytes of slack are more than one allocation adds.

### EarlyPaging (`kern/bootstrap.S`, `map_addr_early_boot()`, `mmio_map_region()`)

Page directories of two entries and a directory pointer table of four stand for
those of 512.  `MapPage` maps one large page; a directory comes from `Spare` pages,
two here and six in the kernel, and the one that is missing is the page at
address 0.  `MappingsKept`: whatever is mapped later, what was mapped stays at
its physical address as long as at most one gigabyte goes through page 0
(`StaysMapped`), and no other directory serves two gigabytes (`OwnDirectory`).
The regions in the instance lie within, across and next to one another's
gigabytes, and use up the spare pages.  `init_gpu` is the mapping of the GPU's registers, at
768 GB (`GPU_MMIO_ADDR_START`) and again for every display controller.  There are two
tables of 512 GB each (`WithinTables`): what is mapped to itself lies in the first, or
in the second beyond the frame buffer at 512 GB and the kernel at 513 GB
(`RegionAssumption`); in the instance the second table begins at 16 and `Windows` are at 25.

### PitCalibrate, TickMeasure (`kern/tsc.c`, `kern/timer.c`)

Time is counted in cycles without end; a port read takes any of `Delays`.
`SeeByte`, `MissByte` are iterations of `pit_expect_msb()`, `LoopEnds`, `JudgeError`
and `VerifyByte` the checks of `quick_pit_calibrate()`, `Calibrate` and
`TakeDefault` the attempts of `tsc_calibrate()`.  `Precision` of 4 stands for 2048,
`MaxIterations` of 3 for 116, and the delays go from one cycle to more than a
value of the upper byte.  In `TickMeasure` the three widths of counters are 5, 7 and
10 bits, and measurements begin before and across the wrap.

`ClocksClose`: a measurement that is accepted is wrong by less than one value of
the byte on top of its error (`WithinOneByte`), and the count of ticks behind a
frequency is right or one short (`KeptIsClose`, `PmIsClose`).  That it is within
its error, as the comment says, is finding 4.

### TimerIrq (`kern/picirq.c`, `kclock.c`, `timer.c`, `timers_schedule()`, `trap()`)

`imr`, `irr`, `isr` are the registers of the two 8259As (external), with a level for
the cascade; the RTC and the HPET (external) raise edges.  `Boot` goes through
`pic_init()` to `timers_schedule()`, whose argument is any of `Scheduled`;
`Deliver` is the interrupt, `Handle` the steps of `trap_dispatch()` with
`handle_interrupts()` and `pic_send_eoi()`.  `InterruptsServed`: nothing is in
service when an environment runs, and only lines with a gate interrupt it.
`TicksGoOn`: an environment is always interrupted again, also when a tick came
before the line was unmasked or in the middle of the handler.

### Pci (`pci_init()`, `pci_scan_bus()`, `pci_attach()`)

The frames of the recursion are a stack.  `EachAttachedOnce`: every function that
answers on a bus that can be reached is attached once; `DepthBounded`: the
recursion goes up in bus numbers.  All machines over five places of three buses,
with bridges of both header types and multi-function devices, are enumerated.

### GpuInit (`init_gpu()`, `parse_common_cfg()`, `setup_queue()`)

`ReadCapHeader` and `ReadPastEnd` are the inner loop of the walk over the
capabilities, which does not look for the end.  `Kick` is what follows in every case:
`get_display_info()` sends its command whatever the walk has found.  If `setup_queue()`
has not run, `alloc_desc()` returns NULL, the descriptor is written at address 0, and the
device is notified all the same.  `DeviceReady`: the first command to a device that has shown
its common registers and agreed to the features finds it reset, with its queue and
knowing its driver (`KickOnlyWhenReady`); one that has refused them is kicked all the same,
but has no queue to look at and was not told that the driver is ready
(`RefusedHasNoQueue`); at the notify register of the first notify capability, if
that comes before the common one (`NotifyRight`); and the walk does not panic when
the last capability is one of virtio's (`NoPanic`).  A device without a common
capability is kicked as the firmware has left it; of that one nothing is claimed.  The lists have up to four
capabilities, one of them the common one; two notify capabilities in either order
fit in it.

### GpuSurface (`surface_*()` and the programs that draw)

Nothing runs beside the driver, so an operation on a surface is one step, with
all its commands; that each gets its answer is `VirtQueue`'s matter.  The device
(external) may have no room for a resource (`Capacity`).  `font`, `example` and
`pong` are the callers.  `displayed` is history.  `BackedByItself`: no surface's
resource is backed by another's buffer; `DisplayShows`: what was displayed last is
on the screen although `last_scanout_id` may name a resource that is gone.
`MaxIds` bounds the number of resources, one more than the device has room for.

### Pmap (`kern/pmap.c`, as `init_memory()` runs it)

`tree` maps a block (class, address) to the `state` and `refc` of its
`struct Page`; `link` holds the `next` and `prev` of every node and of the list
heads, so that `list_append()` and `list_del()` are modelled by the pointers
they write and a stale pointer stays visible.  `descr` is `free_desc_count`,
`pools` the pages chained from `first_pool`.

`page_lookup()` runs one loop iteration per step (`Descend`), with its locals in
a frame of `stack`; `EnsureFreeDesc` pushes the frame of the nested call that
carves a pool out of the tree.  `FreeDescRec` and `PageRef` are the two
recursions, one node per step; `Attach` is the end of `page_lookup()` for a new
type; `AllocPool` the second half of `alloc_page()`; `AttachRegion` and
`NextRegion` are the loop of `attach_region()`; `LookupConstPage` and
`RefConstPage` are the end of `detect_memory()`.  `Panic` is every assertion and
the `Out of memory` panic of these functions, with the assertions of
`check_physical_tree()`.

With 16 pages of two address units and 288 firmware maps, all below
`BOOT_MEM_SIZE`, and so few descriptors that pools are allocated in the middle of
a descent, `pmap_boot` shows that the tree says of every page what the map says
(`MemoryAsMapped`), that free lists are sound and hold every free block
(`FreeListsExact`), that descriptors are neither leaked nor used twice, pools share
no memory and stay referenced nodes in boot memory, and a suspended lookup resumes at
a node that still is there and covers its address (`DescriptorsSound`), that no assertion
fails except for lack of memory (`PanicsOnlyOutOfMemory`), that `list_del()` only ever
meets the first element of a list, the one whose `prev` is right, or a node on none
(`OnlyFirstTaken`), that no lookup splits a page of descriptors (`PoolsWhole`; the three
are `BootIsClean`), and that the boot ends (`BootTerminates`).
`pmap_highmem` has the same maps with `BOOT_MEM_SIZE` in the middle of them,
`pmap_flat` one allocatable entry over everything.

A class has at most eight blocks, enough for a list of several elements, for
splits over four levels with a pool allocated at each of them, and for a region
that starts and ends within larger blocks.  The kernel image ends within a page,
so rounding matters.

### VirtQueue (the control queue of `kern/virtio-gpu.c`)

Shared memory is `desc`, `availRing`/`availIdx`/`usedEvent`, `usedRing`/`usedIdx`
and the two buffers of each stack frame, `request` and `response`.  The driver's
program counter `pc` goes through `send_and_recieve()`: `Send` (a command
function fills its buffers), `AllocDescs`, `QueueAvail`, `PublishIdx` (the two
sides of the fence), `NotifyQueue`, `PollResponse`, `IrqHandler`, then
`recycle_used()` as `ReadUsedIdx`, `TakeUsed`, `FollowChain`, `FreeChain`, and
`Renotify`.  When `alloc_desc()` has nothing to give, its caller writes through NULL and goes on
(`AllocShort`): address 0 stays mapped by the early page tables (the build without `KUBSAN`),
and nothing looks at what is written there.  If the list ends before `desc_free_count` does, the
descriptor lies far off the table, and what happens then is unknown (`AllocBeyond`, `pc = "fault"`).
`recycle_used()` looks for the end of its work after a round: with nothing new in the used ring it
goes round all 2^16 indices and frees the old entries again.  `derailed` is a history variable
that says that one of these happened, and the driver goes on all the same.

The device (external) takes a chain, writes the response, then the used ring,
then the interrupt status, as four separate steps, and may report a
configuration change at any time.  `lost` is a history variable: `irq_handler()`
once returned without recycling.  That happens when the driver sees the response
before the device has set the interrupt bit, or when the configuration bit is
set as well.  What holds is therefore stated in two halves: everything is in
order as long as nothing was lost (`RequestsAnswered`, `RecyclingSound`,
`FreeListIntact`, `CommandsEndUnlessLost`); and once something was lost, `desc_free_count`
is short by just two for every chain that is out, until the driver derails
(`FreeCountExact`), while the descriptors that are followed are in the table
(the types; both are in `DescriptorsIntact`).  After that the count may exceed the table and the
free list may hold a descriptor twice: nothing is claimed of it.

`virtqueue` has 4 descriptors, indices modulo 8, 2 commands and 2 frames, and chooses
the `kind` of device first: any, or one that completes a request before the status
can be read and reports no configuration changes, as a hypervisor does that
handles the queue in one go.  With the second no answer is ever lost (`SerialLosesNone`).  Four descriptors are two chains, so the driver can
lose one answer and go on before it runs out; index modulo 8 wraps after eight
commands, and the ring after four.  `MaxFree` bounds the count that grows once the driver
has derailed: no command is sent above 12, three times the table.

### EnvSched (`kern/env.c`, `sched.c`, `trap.c`, `entry.S`)

`env_status`, `curenv` and `env_free_list` (as the sequence of its environments)
are the variables of the code; `env_tf[e]` is where the saved frame of `e`
resumes, `cpu` where the running one is, and `at[e]` how far its program has
come, so that a frame that was not saved, or saved into the wrong environment,
shows.  `EnvCreate` and `EnvCreateFails` are `env_create()`; `SysYield` and
`SysExit` enter through `entry.S`, `TimerInterrupt` through `trapentry.S` and
`trap()`; each leaves the processor in `pc = "sched"` or goes back to the
environment.  `SwitchEnv`, `ContinueEnv` and `SchedHalt` are the three ends of
`sched_yield()`.  The kernel runs with interrupts off from the `cli` or the
interrupt gate to the `iretq`, so each of these is atomic.

In this build `i386_init()` creates no environment and goes straight to the
monitor (`kern/init.c:158-166`); the module describes the code as any
`i386_init()` that calls `ENV_CREATE` and `sched_yield()` would use it.

`EnvsAccounted`: one environment runs at a time and the free list is exact;
`ExitIsFinal`, although `curenv` dangles after an exit; `ResumesWhereStopped`;
`SchedulerFair`: the search never misses anybody and passes nobody over more than
NENV - 1 times; `NoStarvation`: with programs that yield or exit time and again,
who can run does.  Four environments are enough for the search to wrap with
candidates on both sides of `curenv`, with `curenv` freed or not.  `bypass` is a
history variable that counts up to NENV and stops there, one beyond what the
property allows.

### KAlloc and Arena (`kern/alloc.c`, `kern/spinlock.c`)

The headers are the three functions `next`, `prev` and `size` over the units of the
arena; units without a header hold NULL and 0, so that a use of them shows.  A
call of `test_alloc()` or `test_free()` runs one loop iteration per step, and the
other programs may run between any two.  That is what the lock is there for, and more than
this build does: `check_list()` enables interrupts at its end, but a timer interrupt returns to the
program it has interrupted (`kern/trap.c:271`), so that nobody else enters the allocator
meanwhile.  What is shown holds for a kernel that switches there.  `Arena` is what callers may rely on: blocks that lie apart and have room for what was
asked for, cut to eight bits as the prototype does.

`MutualExclusion`; `AllocatorSound`: the circular list is in order both ways and
no two of its blocks touch (`ListInOrder`), every unit is in just one block
(`Partition`), `check_list()` finds nothing; `AllocatorPromises`: the refinement
of `Arena`, and NULL only when no run of free units is long enough; `LockReleased`.
Two programs and four units give every way of joining a block with its
neighbours, and requests of one and two units and of one that the cut of its high bits makes small.

### ConsRing and LossyQueue (`cons_intr()` and `cons_getc()` of `kern/console.c`)

`buf`, `rpos`, `wpos` are `struct cons`.  `pc` follows `cons_getc()`: `CallGetc`,
then `SerialIntr` and `KbdIntr`, each one iteration of the loop in `cons_intr()`
per step, then `Grab`.  A device holds one byte at a time and delivers the next
whenever that was read (`Arrive`, external), so more may come while the loop
runs; a byte may also stand for no character.  What a UART loses by itself when
nobody polls it is not modelled.  `stored`, `last` and `lapped` are history.

`LossyQueue` is what a caller may rely on: a queue that hands out characters in
order, and that empties when one more comes than it can hold.  `ImplementsQueue`
maps the places between `rpos` and `wpos` to that queue (`Content`).  `RingSound`:
positions within the ring, order kept over an overflow; `CharsReachCaller`: what
is not lost by an overflow is returned.  Three characters of each device lap a
ring of three twice (`console_overflow` has four), with every split between
devices and calls.

### Keyboard (`kbd_proc_data()`)

`shift` is the static variable as a set of flags, `result` what the last call
returned.  The keyboard (external) is a set of keys that are `held` and the bytes
on the `wire`, with the codes of scan code set 1: escapes, the fake shifts
around grey keys, and Pause with its six bytes.  `down`, `whole` and `caps` are
history: what the codes that were read so far say of the keys.  `KeyboardSound`: no
modifier stays on without its key (`NoStuckModifier`), characters come from the
keys that were pressed and in their case (`CharsOfKeys`), only Ctrl-Alt-Del reboots
(`RebootNeedsAllThree`).

Nine keys, of which at most three are held at once (`MaxHeld`: what the
properties need, with Ctrl-Alt-Del among them), and a key is touched while at
most one byte waits (`MaxWait`): the decoder reads one byte at a time and never
looks ahead, so how many bytes wait makes no difference to it.  The converse of
`NoStuckModifier` does not hold, and no comment claims it: with both shift keys
down, releasing one of them ends the shift.

### LineEditor (`readline()` and its echo)

`cons_putc()` writes to the serial port, the parallel port and the text screen.  The text
screen shows nothing in this build: `graphics_exists` is set by `fb_init()` alone, its
one call is commented out (`kern/init.c:153`), and `fb_putc()` returns at once.  What is modelled
is the terminal at the serial port (external): the column `col` of its cursor and
its `row`, which a backspace moves back in without erasing.  `line` and `length` are
`buf` and `i`.  `Key` is one iteration of the loop in `readline()`, with every
`cputchar()` it makes; `cputchar` is output between lines, the prompt included.  `start`,
`before` and `plain` are history: where the cursor was and what the row showed when the line
began, and whether only bytes came into it that are no controls without the eighth bit, which
`cons_putc()` masks.  `TerminalShowsLine`: the terminal shows what stood before the line, then what the
buffer holds, then nothing, also when more was typed than fits, and however it was
erased (`EchoMatchesLine`); length and cursor stay where they belong
(`LineEditorTypeOK`).  A buffer of 4 fills after three characters; up to two columns of prompt
lie before it.  The row is as wide as the longest line: what a terminal does at its
right margin is not modelled.

### Monitor (`monitor()`, `runcmd()`)

The line is cut one character per step.  `ArgsWhole`: the arguments are the words
of the line, whole and in order, and `argv[]` keeps a place for the NULL.  All
lines of up to five characters against `MAXARGS` of three: too many words and one
word too few to be too many.

### PongGame (`kern/pong.c`, `kern/pong-utilities.c`)

One action per frame of the game; comparisons of an `int` with the unsigned size
of the screen are modelled as such (`AtLeastUnsigned`).  `PongSound`: paddles stay
on the screen, the ball leaves it by no more than its size and its fastest move,
one ball is one point.  The ball gets faster with every hit, `MaxSpeed` bounds that
well beyond the width of a paddle.  A ball and a paddle of three lines on a screen
of 14 let a paddle hit the ball beyond the edge, frame after frame.

### PrintFmt and StringOps (`lib/printfmt.c`, `lib/string.c`)

`vprintfmt()` one character of the format per step; a number is one cell, its
digits are what `printnum()` makes of it.  The calls name what they should print,
so that the properties are a reference definition: `NumberRight` evaluates the
digits, `TextRight` compares, `BufferKept` looks at the end of the buffer.  The
string functions run in one step each; `memset()` and `memmove()` by words, with
every length to two words and a half and overlaps in both directions.
`LibraryRight` is all of these.  Some things it does not say, because the code does
not do them: the assembly of `memset()` may store its last few bytes in front
of their place, `strlcat()` may write its zero behind the size it is given, and
`strtol()` reads no capital digit: `StrtolValue` is for strings without capitals.  `strtol("7A", 0, 16)`
is 7 and not 122, because `dig - 'a' < 27` (`lib/string.c:265`) is true of every capital, so that
the branch for them at `:267` is never taken; 'W' to 'Z' even count as 0 to 3.  `*endptr`, which `strtol()` sets one behind the character it has stopped at, is not modelled.

### DwarfLines and DwarfInfo (`kern/dwarf_lines.c`, `dwarf.c`, `kdebug.c`)

`DwarfLines` runs a line program, one opcode per step; programs are encoded from
tables, so that what is looked up can be compared with the table (`LineOfRow`,
finding 6; `LineInOrder`, what holds).  `last_state` is not initialised in the code
and holds any of `Garbage`.  `DwarfInfo` walks the sections one die or one name per
step: the reader stays at the borders of dies whatever forms it skips
(`CursorAtDie`), a return address gets the function that holds its call
(`CallIsInside`), a known function is always found (`CallExplained`), and names
lead to their functions (`NameLeadsHome`).  `BacktraceRight` is these and
`LineInOrder`.  The opcode `DW_LNE_define_file` and the panic for unknown ones are left out.  The sections have two units, with every kind of attribute form,
functions without names, declarations, and with and without `.debug_pubnames`.

## 4. Fairness

| where | assumed | why |
|---|---|---|
| `Pmap` | `WF(Next)` | the boot runs on, alone and with interrupts off |
| `VirtQueue` | `WF(DriverStep)`, `WF(DeviceStep)` | the driver's code runs on when it can; a device that never answers would make every command hang.  `Send` and `ConfigChange` have none |
| `EnvSched` (`CoopSpec`) | `WF(SchedYield)`, `WF(SysYield \/ SysExit)` | the kernel runs on, and `prog/test1.c` to `test3.c` call one of them in every round.  One that never does (`prog/test4.c`) keeps the processor: the timer interrupt returns to whom it interrupted |
| `KAlloc` | `WF(Step(c))` of each program | a program in a call gets the processor time and again |
| `ConsRing` | `WF(cons_getc)` | `getchar()` calls it in a loop, and the monitor `getchar()`; the devices have none |
| `BootLoader`, `PitCalibrate`, `Pci`, `GpuInit` | `WF` of the part, and of the device's end of reset | one processor, nothing else runs; the firmware need not have events |
| `TimerIrq` | `WF(Boot)`, `WF(Deliver)`, `WF(Handle)`, `WF(Ticks)` | the processor goes on and the timers tick |

## 5. Proofs

The assumptions on constants are named in the modules that declare them; TLC
evaluates them in the runs (those of `Pmap` say that the kernel's image is not empty,
that its two constant pages lie in it and that `INIT_DESCR` is at least two).  Each proof module has an inductive invariant for every
component it is about (`IInv`, `QInv`, `PciInv` ...), one lemma or step per action, and
theorems of the form `Spec => []P`.  `NatInduction` has the two forms of induction
the proofs use, over sets of numbers in place of predicates: a set that has 0, and
with a number the next one, is `Nat` (`SetInduction`, `BoundedInduction`), and a set
that is not empty has a least element (`LeastNatural`).  What a recursive function
computes is proved with them.

`VirtQueueProofs`, for every queue size of at least two that divides the width of
the indices, every set of commands and frames, and either kind of device:
`TypeCorrect`; `ServesCurrent`, `WritesLive`, `AnswersMatch` (together `AnswersRight`)
and `TailCatchesUp`, `FaultsAfterLoss` (together `RecyclesRight`), which hold until an
answer is lost; and `SerialNeverLoses`: with a serial device and no configuration
changes nothing is ever lost.  `TypeOK` alone is not inductive, because a
`next` field that is followed must lie within the table; `TInv` adds that
(`ChainsInTable`).  `QInv` then says that until an answer is lost a command is
always in one of a few phases (`ServingInv`): the only chain in the table is
0 -> 1 (`ChainInv`), the indices of driver and device are as far apart as the
phase says (`RingsInv`), the buffers belong to the current frame (`BuffersInv`),
and the device is where the phase allows (`DeviceInv`).  The lemma `OneChain`
shows that `queue_avail()` then publishes exactly that chain, `AdvanceOne` and
`EventPassed` settle the arithmetic modulo the index width.

`TableSound` (`DescriptorsIntact`) has two more parts, because one half of it also
holds after a loss.  `CountExact`: until the driver derails every chain that is out
costs two descriptors (`CountInv`, which also has the order of the driver's and the device's
indices), and the table only ever gets chains of two
linked in the order of the list they were taken from (`TableInv`, `OneChainKept`), so
`recycle_used()` gives back just what was taken.  `FreeListRight`: as long as no
answer was lost, the list behind the chain 0 -> 1 is the rest of the table in
order (`ListInv`), and `FreeAt`, which follows `next` from `firstFree`, therefore
visits each of those once.

`KernelProofs` is about the kernel that runs.  Of the environments, for any number of them and any
length of programs: `TypeCorrect`, `OnlyOneRuns`, `FreeListCorrect` (together `EnvsKept`), `FramesCorrect`,
`HaltUnreachable`, `RoundRobin` (together `Fair`), `NoResurrection`.  The inductive
invariant adds to the properties that `curenv` is set whenever the scheduler is
entered after the first time and is free, or running, there (`CurenvInv`), and the
measure of the round robin (`BypassInv`): what an environment has been passed
over, plus its distance `Order(e)` behind `curenv` in the circular order, stays
below NENV.

`ConsoleProofs` is about what is typed and shown.  For a ring of any size and any number of bytes: `TypeCorrect`,
`InOrder` (together `RingCorrect`) and `Refinement`, that the ring implements
`LossyQueue`.  The inductive invariant says that what lies between the two
positions are characters (`InRing`), that those of one device come in ascending
order (`Ascending`), after the last that was returned and up to the last that was
stored, and that what a device holds is newer still (`AtDevices`).  `Store` maps to
`Put` or, when it fills the ring, to the `Put` that empties the queue, `Grab` to
`Take` or `TakeNothing`, and every other step to a stutter.

* `KeysAreRead` (`KeyboardSound`), for any set of the keys and however many bytes wait: what is on
  the wire spells codes, of which all but the first are complete (`Spells`), and the
  decoder is where the first of them stands: an escape is pending just behind one, and
  the modifiers that are on belong to keys that are down, except for the Ctrl that Pause
  presses and releases within its own six bytes (`Within`, `Ghost`).  `CodeTable` goes
  through the bytes of every key and says what the tables make of each.
* `LineIsShown` (`TerminalShowsLine`), for any size of the buffer, any room for a prompt and any
  of the characters.  The invariant (`LineInv`) adds that the row is blank behind the
  cursor while no line is read, and that a line that is not plain still ends inside the row: a
  control that was taken into the buffer only ever moves the cursor back.
* `LinesParsed` (`ArgsWhole`), for all lines and any `MAXARGS`: what is cut (`CutInv`), that the
  arguments are the words so far (`ArgvInv`), and at what kind of character the loops stand
  (`GobbleInv`, `ScanInv`).

`BootProofs` is about what runs while the machine starts.

* `LoaderCorrect` (`LoaderSound`), for any kernel files, boards and number of failures:
  the invariant says at each place of `LoadKernel()` (`ImageInv`) and of
  `UefiMain()` (`PlaceInv`, `MapInv`) what has been allocated by then.
* `KernelIsLoaded` (`KernelLoaded`): after `n` segments a place holds the number of the last
  of them that covers it, or 0 (`CodeInv`, `Latest`), and no segment lies outside
  of the pages that were allocated (`KernelArea`, which is about the loop for the lowest and
  highest address).  After `n` sections those that are tables and were copied are the
  ones with their name (`TablesInv`); none is left out unless a call failed.  Assumed
  is that the kernel is ELF: a segment has no more bytes in the file than in memory.
* `ParamsAreTrue` (`ParamsTrue`, with the exception of a root within the EBDA that is part of
  `RsdpPreferred`): the best of the modes and tables that have been looked
  at is kept (`ScreenInv`, `RsdpInv`), and the virtual address of a run time piece is the start
  plus the lengths of the pieces before it (`VirtualInv`; `AddressesGrow` by induction along the map).
* `TimersServed` (`InterruptsServed`), for any set of timers that may be scheduled: which
  lines are masked in which phase (`MaskedInBoot`, `OneLineOpen`), and that what is in
  service is what `trap()` is handling, at both 8259As (`ServedIsHandled`);
  `EoiClears` shows that the end of interrupt for either line leaves nothing behind.
* `BusesScanned` (`ScanSound`), for any number of buses, devices and functions: the
  functions attached are those that answer, on a bus that was gone to, and that no frame of
  `pci_scan_bus()` has still before it (`AttachedInv`, `Passed`).  The frames stand
  at places the loops can be at, on buses that a bridge attached before leads to
  (`FramesInv`).  A bridge leads to a bus nobody has been on (`BusIsNew`) because the firmware
  numbers the buses upwards and each once (`MachinesAssumption`); a bus that can be
  reached was gone to, by the least of those that were not (`OpenedIsReached`).
* `EarlyMapsStay` (`MappingsKept`), for any sizes of pages and tables, any number of spare pages and any
  regions: `PagingInv` says of every large page that its entry is missing or what is wanted for it
  (`EntriesInv`, `Wanted`), that directories are each one gigabyte's and the next spare page is empty
  (`DirectoriesInv`), and how far the call that runs has come (`CallInv`).  A round changes one entry and
  gives no page back (`EntriesStep`); only behind the page at address 0 can it hit the entry of
  another gigabyte.  `RegionAssumption` has what is mapped to itself in one of the two tables, the GPU's
  registers at 768 GB in the second, and the one frame buffer below the kernel.

`DisplayProofs`, for any pictures, room in the device and number of programs that
draw: `ResourcesKept` (`BackedByItself`), `ScreenTrue` (`DisplayShows`).  No identifier is ahead of the counter and none is
shared (`IdsInv`); if the resource `last_scanout_id` names exists, it is what the
device shows (`ScanoutInv`), which is what makes it safe not to ask again.
`GamePlayable` (`PongSound`), for any sizes that leave room for ball and paddles: a ball beyond a wall
either comes back with its next move, or a paddle has just hit it there, and then
the move that follows is the last away from the screen (`NearTop`, `NearBottom`); the
speed of a hit is bounded because the quotient in it grows with the position
(`QuotientGrows`).  `DeviceHandshake` (`DeviceReady`), for any list of capabilities with at most one of
type common: which of them have been acted upon (`WalkInv`, `Seen`), how much of the notify register is
known from those (`RegisterInv`), and what the device has been told by then (`HandshakeInv`): all of it
once the common capability was acted upon and not refused; before, the device is as the firmware left it.

`KernelProofs` is also about the allocator, for any number of programs, any size of the arena
and of a header, and any requests: `OneAtATime`, `AllocatorCorrect` (`AllocatorSound`) and
`PromisesKept` (`AllocatorPromises`: the refinement of `Arena`, and NULL only
without room).  The argument is in three parts.  Blocks as such: the units where
one starts tile the arena (`Tiling`), and splitting a block or joining two that
touch keeps that (`SplitBlock`, `JoinBlocks`).  The list as such: both links are
inverse to each other, ascending and without blocks that touch (`Linked`), and
taking a block out or putting one in keeps that (`Unlink`, `Link`); joining with the
upper neighbour is one after the other.  The properties themselves are not
inductive: `ListInOrder` does not say that every block has a predecessor that
leads to it, `Partition` not which block a search may take.  `KAllocInv` therefore says
that `Starts`, the free blocks and those that somebody holds or gives back, tile the arena, that
nobody shares one (`Distinct`), where each caller stands in the list (`CallerInv`),
and that the blocks a search has passed were too small (`Passed`).  `Placed` shows
that the place where `test_free()` stops is the right one, at both ends of the list as well.

`ClockProofs`, for any counters: `ClocksMeasured` (`ClocksClose`).  Of the PIT the invariant says when the
byte that is waited for, or the one before it, was seen last (`ReadInv`); the next one is
then found at most four delays later, which is less than the PIT's round as long as no stall lasts a
quarter of it (`StallAssumption`), so that no byte is passed over (`MsbIs`).  The ends of the
first byte and of the last lie in the intervals `d1` and `d2` (`FirstInv`, `LastInv`), provided
that 50000 reads take longer than a byte lasts: pit_expect_msb() could otherwise give up inside one.
Of the HPET and the ACPI timer (`TickInv`), if a tenth of a second and one more reading are no turn of
the counter (`TurnAssumption`), a count is right, one short, or, with the HPET's false turn of 64
bits, so large that the frequency is 0 (`DeltaIs`).

`PmapProofs`, for any tree, sizes of classes, supply of descriptors, kernel and memory map:
`FreeListsKept`, that is `Spec /\ []OnlyFirstTaken => []FreeListsExact`.  Because `list_append()` leaves
one of four links unwritten, `list_del()` damages every list in which it meets an element other than
the first.  `OnlyFirstTaken` says that it never does; `BootClean` below proves it where all memory is boot
memory, and `pmap_highmem` shows the loss where it fails (finding 1).  The theorem says that nothing else
can go wrong: neither splitting a free page, clearing a subtree to retype its root, referencing
a page with its children, nor a pool taken in the middle of a lookup loses or duplicates a free
page.  The proof is in four parts.
* Lists as such: a list is a sequence whose elements all lead back to the head (`Chain`, `ListsAre`), and
  deleting a first element (`DelFirst`), putting one in (`AppendOne`), new nodes and nodes that go
  (`ExtendLists`, `RemoveLists`) keep that; `FreeListIs` shows by induction that following `next` yields the sequence.
* Blocks as such: a block has one parent (`OneParent`), blocks are nested or apart (`Nested`), and the
  node that `free_desc_rec()` frees next has no children left (`NextFreedIs`, `KidsBelow`).
* The calls under way (`FramesOk`): only the outermost frame is a caller's other than `alloc_page()`, and
  only `attach_region()` retypes.
* `PmapInv`: the lists hold no node that is not free, and every free node but those that a call holds
  (`ListInv`); and every node but the root has its parent, and its sibling is there unless
  the subtree is being cleared (`FamilyInv`).  The last part is needed because a node with a child is not
  free: when a child goes, the parent must not become free unnoticed.

`DescriptorsKept` states `DescriptorsSound` under the same condition, from two more invariants.
* `LookupInv`: what a frame looks up is an aligned block inside of its node.  `page_lookup()` decides
  by one bit of the address; `SideIs` and `HalfSought` show that the half it goes to holds the block.
  That it starts inside of the root is `MapAssumption`: nothing that is attached reaches the end of what
  the tree describes, 2^60 bytes, where a physical address has at most 52 bits.
* `PoolInv`: descriptors in the tree and those left add up; a pool is on the way, that is the block that the
  `alloc_page()` on top still carves or has yet to reference, or it is kept (`Kept`), a referenced node of
  which every address lies in a referenced leaf.  The latter is why a new pool overlaps no earlier one: it
  comes out of a leaf without references, and no address is in two leaves (`LeavesApart`).  A pool on the way
  always goes on to a left half that has just been made (`CarvedFrame`), hence has no children when it
  is referenced.  Splitting never runs out of descriptors, since two nodes need two of the four or more
  that `ensure_free_desc()` has seen to.

`MemoryMapped` states `MemoryAsMapped` and `ReservedStaysReserved` for the memory maps that finding 2
leaves out, those whose entries fit together (`EntriesFit`): no entry overlaps an allocatable one before it,
and none of the blocks that `attach_region()` cuts an allocatable entry into lies partly in an earlier
reserved one.  `MapInv` says of each node and each of its addresses what the regions attached so far say
(`NodeTrue`).  That alone is not inductive: `Attach` sees the state of one node and makes it the state of
all that was below.  It is right because the block is among the largest inside of its region (`Chunks`), so
that no node above it is wholly allocatable, or reserved, by what came before (`PathOk`, `Uniform`), and
because what lies inside of a reserved region that is done is reserved as a whole unless part of it was
attached as allocatable (`ReservedWhole`).

`BootClean` states `BootIsClean`, and `BootExact` all that is said above, without assuming `OnlyFirstTaken`.
Besides `EntriesFit` they ask of the memory map that all allocatable memory is boot memory
(`BootMemoryOnly`; finding 1 is what happens otherwise), and of the constants that a pool pays for the
lookup it is carved out with and the longest one after it (`PoolsSuffice`).
The kernel's constants do: a pool of 8 KB holds 127 descriptors of 64 bytes, `MAX_CLASS` is 48, and with
`BOOT_MEM_SIZE` 1 GB, and the page at 0 reserved, no allocatable block is larger than 256 MB, class 16, so
that 127 + 2 >= 2 * (16 - 1) + 2 * (48 + 1), one more than is needed.
The 288 maps of `pmap_boot` meet all three; there the last one holds with nothing to spare.
The argument is one induction over `BootInv`, whose parts need each other.
* Allocatable memory is boot memory off page 0 and off the kernel (`AllocIs`), hence the first element of a
  list always fits, and `alloc_page()` takes the first (`FirstPeer`).
* The block to be retyped is apart from all allocatable memory, and so is a constant page
  (`ChunkApart`, `OnlyPoolsMeetFree`): the only lookup that splits a free page is the one for a pool, which has
  taken the page off its list before (`CarveInv`).  A page of descriptors is hence never split (`PoolsLeaf`).
* `page_ref()` meets nodes off the lists only: a new pool has no children, and the nodes inside of the
  kernel are reserved (`RefsInv`).
* While a pool is carved, each level costs two of its descriptors (`PoolPays`), so that the outer lookup
  finds enough when it goes on (`PooledPays`): its `assert(free_desc_count >= count)` holds.
* The assertions of `check_physical_tree()` follow from `Uniform` and the lists (`ChecksPass`, `WalkOk`).
What is left of `Panic` is that no free boot memory was attached when descriptors ran short.

Only model-checked: what `PrintFmt`, `StringOps`, `DwarfLines` and
`DwarfInfo` compute, which is defined with folds and recursive operators; and everything under
fairness, which is beyond this prover.

## 6. Findings

1. `list_append()` (`kern/pmap.c:84-89`) does not write `old_next->prev`.  As long
   as only first elements are deleted, nothing happens; with memory above
   `BOOT_MEM_SIZE` first in a list, `alloc_page()` deletes a later element and
   free pages disappear (`pmap_highmem`).
2. Attaching allocatable memory over a block of which a part is reserved makes
   all of it allocatable (`pmap_flat`), against the comment at `kern/pmap.c:257`.
3. `cons_intr()` (`kern/console.c:508`) does not notice that the ring is full: a
   burst of as many characters as the ring has places, read within one call,
   makes `cons_getc()` return 0 with all of them lost (`console_overflow`).  The
   comment at `kern/console.c:513` promises 0 only when none is waiting.
4. A stall between the port read and `read_tsc()` in `pit_expect_msb()`
   (`kern/tsc.c:73`) is in no error term: a measurement may be accepted and be off
   by more than its error (`pit_stall`), against the comment at `kern/tsc.c:145`.
5. When `LoadKernel()` fails after copying debug sections, the loop that frees them
   counts one variable and uses another (`Bootloader.c:853`): the copies stay
   allocated (`loader_error`), against `Free allocated memory on error`.
6. `last_state` of the line program has no value before the first complete row
   (`kern/dwarf_lines.c:40`): addresses may get the line of whatever was on the
   stack, if the functions of a unit are not in the order of their addresses
   (`dwarf_line`), against the comment at `kern/dwarf_lines.c:35`.
7. `AcpiFindLegacyRsdp()` returns the beginning of the EBDA for a signature anywhere in it
   (`Bootloader.c:216`): the kernel is told of a root that is none (`loader_rsdp`), against the
   comment at `Bootloader.c:180`, `Find RSD_PTR Table In Legacy Area`.

Two more defects have no run of their own, because no comment is there to be contradicted; the
properties say what holds beside them.  When the device refuses the features, `parse_common_cfg()`
sets `FAILED` and returns (`kern/virtio-gpu.c:109`), but `init_gpu()` goes on to
`get_display_info()` (`:218`), which writes through the NULL that `alloc_desc()` returns, notifies the
device and polls for an answer (`RefusedHasNoQueue`).  And `strtol()` reads no capital digit
(`lib/string.c:265`, `StrtolValue`).

Observations that are no findings: the search of `sched_yield()` makes
`sched_halt()`'s `sti; hlt` unreachable (`HaltUnreachable`), which is as well,
because the next interrupt would fail `assert(curenv)` in `trap()`; `env_create()`
ignores that `env_alloc()` failed, which only `load_icode()`'s test for NULL turns
into a panic; a frequency that `hpet_cpu_frequency()` measured across the wrap of a
32 bit HPET is 0 and is measured again; the scores of Pong are never set back.

## 7. Further hazards

`PROJECT.json` has the hazards most of the properties are about.  Others that the
properties cover as well, at other lines of the same code: `alloc_desc()` returning NULL
(`kern/virtio-gpu.c:344`), the order in which ring, event and index are published
(`:312`), the unsigned comparison of coordinates (`kern/pong.c:154`), the two
ways in which `rpos` and `wpos` wrap (`kern/console.c:509`), the status that is
overwritten by the next section's (`Bootloader.c:698`), the parser of formats that goes
back to the percent sign (`lib/printfmt.c:240`).

No property covers these, and why:

| where | what | why not |
|---|---|---|
| `lib/string.c:265` | capitals are below 'a', so no capital digit is read | a defect (section 6); `StrtolValue` leaves capitals out |
| `kern/virtio-gpu.c:127` | the queue is enabled before its size is written | no module has a size that changes; in QEMU the device's is the driver's |
| `kern/virtio-gpu.c:142` | a second display controller is set up over the first | the driver keeps one device in a global; one is in `GpuInit` |
| `kern/env.c:122` | the generation in `env_id` wraps into the sign bit | identifiers are not modelled: no environment is created after boot and `envid2env()` has no caller |
| `kern/console.c:46` | `crt_pos` has 16 bits, `crt_size` 32 | the text screen is never set up in this build |
| `kern/virtio-gpu.c:162` | a device without a common capability is kicked as the firmware has left it | nothing says what should happen; `KickOnlyWhenReady` leaves it out |
| `kern/init.c:45` | the comment of `i386_init()` offers the pit, which panics | a boot-time constant; `TimerIrq` models the panic |
| `kern/init.c:82` | a region that crosses 512 GB is mapped at its beginning again | excluded by `RegionAssumption`: each region is in one of the two tables, that of the GPU at 768 GB included |
| `kern/init.c:126` | a frame buffer that is not aligned to 2 MB appears shifted | excluded by `EarlyAssumption`: those of PCI devices are aligned to their size |
| `kern/pci.c:104` | bytes that must be preserved are not written | nothing calls it |
| `kern/pong.c:369` | the scores are not set back for a second game | nothing says what a second game should do; `StartGame` keeps them |
| `kern/pong-utilities.c:40` | the bytes of an arrow key may be read in two frames | `PongGame` takes every key for possible in every frame |
| `lib/printfmt.c:135` | a dot, a minus or a blank behind a width is taken for a digit | no format of the kernel has one there |
| `kern/dwarf.c:21` | `.debug_aranges` is never used | only costs time |
| `inc/dwarf.h:407` | the length of a unit in the 64 bit format is read at the wrong place | the compiler writes the 32 bit format |
| `kern/kdebug.c:81` | a name is copied with the size of another buffer | both have 256 bytes |

## 8. Not modelled

* The text screen (`fb_init()`, `fb_putc()`, `draw_char()`): never set up in this build.
* UBSan is vendored and optional (`KUBSAN`); it reports and changes no state.
* `uefi.c` and `uefiasm.S`, `timer_start()` and `timer_stop()`, `page_unref()`,
  `pci_func_enable()`, `test_draw()`: nothing calls them in this build.
* Identifiers of environments: `envid2env()` has no caller, and no environment is
  created after boot.  What `load_icode()` copies is data.
* The search for ACPI tables, pixels, the splash of Pong, output to the ports, and
  `lib/random.c` are loops over data, or what the properties do not tell apart.
* Comparisons and searches of `lib/string.c` are one loop each.
* Assembly is modelled where it saves and restores frames or builds page tables, not
  instruction by instruction.  What the firmware does, what the GPU draws, and the
  contents of binaries are outside; they appear as inputs.
* The programs in `prog/` and the graders: the programs are the environment of
  `EnvSched` and `KAlloc`.

## 9. What could be added

In the order of what it would tell: `EnvIds`, the generations of identifiers with
`envid2env()`, once a build creates environments; `page_unref()` for clients of `Pmap`; and
`GpuSurface` over an abstract command service that `VirtQueue` implements.
