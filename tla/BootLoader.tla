----------------------------- MODULE BootLoader -----------------------------
(***************************************************************************)
(* UefiMain() of LoaderPkg/Loader/Bootloader.c: the ACPI root, the mode of *)
(* the screen, the kernel (KernelImage), and the way out of the boot       *)
(* services with the memory map that is current, on a firmware whose every *)
(* call may fail and whose timer events change the map.                    *)
(***************************************************************************)
EXTENDS KernelImage

CONSTANTS
  Boards,     \* the machines: configuration tables, modes of the screen, memory map
  Base,       \* the size of the memory map
  Slack,      \* the bytes that are added to it (1024)
  Grow,       \* how much longer the buffer itself may make the map
  VIRT_ADDR_START

ASSUME MapAssumption == Base \in Nat \ {0} /\ Slack \in Nat /\ Grow \in Nat /\ VIRT_ADDR_START \in Nat

ASSUME BoardsAssumption == \A b \in Boards :
  /\ b.tables \in Seq({"acpi20", "acpi10", "other"})
  /\ b.legacy.bios \in BOOLEAN /\ b.legacy.ebda \subseteq Nat
  /\ b.modes \in Seq([width : Nat, height : Nat])
  /\ b.map \in Seq([type : STRING, runtime : BOOLEAN, pages : Nat])

VARIABLES
  board,
  blPc,       \* where UefiMain() is
  rsdp,       \* LoaderParams->ACPIRoot: an index into the tables, InBios, InEbda(k) or 0
  at,         \* the table or mode that is looked at
  screen,     \* the mode the screen is in
  told,       \* the mode LoaderParams describes
  MapSize,    \* MemoryMapSize
  grown,      \* how much longer the map is than Base
  current,    \* MapKey is the key of the map the firmware has
  services,   \* "boot" until ExitBootServices()
  virtual     \* VirtualStart of the pieces of the map, 0 if they have none

loaderVars == <<board, blPc, rsdp, at, screen, told, MapSize, grown, current, services, virtual>>
blVars == <<kiVars, loaderVars>>
graphics == <<screen, told>>
way_out  == <<MapSize, grown, current, services, virtual>>
load     == <<image, kiPc, kiStatus, Index, Index2, copies, tables, memory>>

LoaderStart(images, boards) ==
  /\ ImageStart(images)
  /\ board \in boards
  /\ blPc = "time" /\ rsdp = 0 /\ at = 1
  /\ screen = board.mode /\ told = 0
  /\ MapSize = 0 /\ grown = 0 /\ current = FALSE /\ services = "boot"
  /\ virtual = [i \in 1..Len(board.map) |-> 0]
BootLoaderInit == LoaderStart(Images, Boards)

Leave(pc) == blPc' = pc

Start ==
  /\ \/ /\ blPc = "time"   \* GetTime()
        /\ \/ Fails /\ Leave("returned")
           \/ Works /\ Leave("params")
        /\ UNCHANGED held
     \/ /\ blPc = "params"
        /\ \/ Fails /\ Leave("returned") /\ UNCHANGED held
           \/ Works /\ Leave("acpi") /\ held' = held \cup {"params"}
  /\ UNCHANGED <<load, board, rsdp, at, graphics, way_out>>

Preferred(t) == t = "acpi20"

\* Addresses below one megabyte: the last signature from 0xE0000 on, and the k-th
\* paragraph of the extended BIOS data area.
InBios    == -1
InEbda(k) == -2 - k

\* A signature anywhere in the EBDA is answered with the beginning of the EBDA
\* (Bootloader.c:216).
AcpiFindLegacyRsdp ==
  IF board.legacy.bios THEN InBios ELSE IF board.legacy.ebda # {} THEN InEbda(0) ELSE 0

\* One round of the loop of AcpiFindRsdp(), or the search below one megabyte.
AcpiFindRsdp ==
  /\ blPc = "acpi" /\ Works
  /\ IF at > Len(board.tables)
       THEN /\ rsdp' = IF rsdp = 0 THEN AcpiFindLegacyRsdp ELSE rsdp
            /\ Leave("gop") /\ at' = 1
       ELSE LET t == board.tables[at] IN
            /\ rsdp' = IF t = "other" THEN rsdp ELSE at
            /\ IF Preferred(t) THEN Leave("gop") /\ at' = 1
                               ELSE at' = at + 1 /\ UNCHANGED blPc
  /\ UNCHANGED <<load, held, board, graphics, way_out>>

GiveUp == Leave("returned") /\ held' = held \ {"params"}

MutantEither(m) == m.width > 1200 \/ m.height > 720
IsBig(m) == m.width > 1200 /\ m.height > 720

InitGraphics ==
  /\ \/ /\ blPc = "gop"
        /\ \/ Fails /\ GiveUp
           \/ Works /\ Leave("mode") /\ UNCHANGED held
        /\ UNCHANGED <<at, screen, told>>
     \/ /\ blPc = "mode" /\ at <= Len(board.modes)
        /\ \/ Fails /\ GiveUp /\ UNCHANGED <<at, screen>>
           \/ /\ Works /\ ~IsBig(board.modes[at])
              /\ at' = at + 1
              /\ UNCHANGED <<blPc, held, screen>>
           \/ /\ IsBig(board.modes[at]) /\ UNCHANGED <<at, held>>
              /\ Leave("told")
              /\ \/ Works /\ screen' = at
                 \/ Fails /\ UNCHANGED screen   \* what SetMode() returns is not looked at
        /\ UNCHANGED told
     \/ /\ blPc = "mode" /\ at > Len(board.modes) /\ Works   \* SetMode() to the mode it is in
        /\ Leave("told")
        /\ UNCHANGED <<at, held, screen, told>>
     \/ /\ blPc = "told" /\ Works
        /\ told' = screen /\ Leave("event")
        /\ UNCHANGED <<at, held, screen>>
  /\ UNCHANGED <<load, board, rsdp, way_out>>

CreateEvent ==
  /\ blPc = "event"
  /\ \/ Fails /\ GiveUp
     \/ Works /\ Leave("load") /\ held' = held \cup {"event"}
  /\ UNCHANGED <<load, board, rsdp, at, graphics, way_out>>

Load == blPc = "load" /\ LoadKernel /\ UNCHANGED loaderVars

Unneeded == {"params", "event"}

IsLoaded ==
  /\ blPc = "load" /\ Returned /\ Works
  /\ IF kiStatus = "error" THEN Leave("returned") /\ held' = held \ Unneeded
                           ELSE Leave("gate") /\ UNCHANGED held
  /\ UNCHANGED <<load, board, rsdp, at, graphics, way_out>>

\* PreparePageTable() of the 32 bit loader may have no memory.
GenerateGateData ==
  /\ blPc = "gate"
  /\ \/ Fails /\ Leave("dead") /\ UNCHANGED held
     \/ Works /\ Leave("map") /\ held' = held \cup {"gate"}
  /\ UNCHANGED <<load, board, rsdp, at, graphics, way_out>>

MutantSlackAlone(size) == Slack
WithSlack(size) == size + Slack

\* One call of GetMemoryMap(); a buffer that is too short is exchanged for a longer
\* one, which changes the map and the key again.
GetMemoryMap ==
  /\ blPc = "map"
  /\ \/ /\ MapSize >= Base + grown /\ Works
        /\ current' = TRUE /\ Leave("exit")
        /\ UNCHANGED <<held, MapSize, grown>>
     \/ /\ MapSize < Base + grown /\ Works
        /\ MapSize' = WithSlack(Base + grown)
        /\ grown' \in 0..Grow
        /\ current' = FALSE /\ held' = held \cup {"map"}
        /\ UNCHANGED blPc
     \/ /\ Fails   \* no memory, or another error
        /\ held' = held \ {"map"} /\ current' = FALSE /\ Leave("dead")
        /\ UNCHANGED <<MapSize, grown>>
  /\ UNCHANGED <<load, board, rsdp, at, graphics, services, virtual>>

\* A timer event of the firmware allocates memory between the two calls.
TimerEvent ==
  /\ blPc = "exit" /\ current
  /\ current' = FALSE
  /\ UNCHANGED <<load, held, failures, board, blPc, rsdp, at, graphics, MapSize, grown, services, virtual>>

MutantUnheeded(key) == FALSE
Refused(key) == ~key

ExitBootServices ==
  /\ blPc = "exit" /\ Works
  /\ services' = IF current THEN "runtime" ELSE "boot"
  /\ IF Refused(current) THEN Leave("dead") /\ held' = held \ {"map"}
                         ELSE Leave("virtual") /\ UNCHANGED held
  /\ UNCHANGED <<load, board, rsdp, at, graphics, MapSize, grown, current, virtual>>

Kept(p) == p.runtime /\ p.type # "reserved"
CurrentAddress[i \in 1..Len(board.map)] ==
  IF i = 1 THEN VIRT_ADDR_START
  ELSE CurrentAddress[i - 1] + (IF Kept(board.map[i - 1]) THEN board.map[i - 1].pages ELSE 0)

SetupVirtualAddresses ==
  /\ blPc = "virtual"
  /\ virtual' = [i \in DOMAIN virtual |-> IF Kept(board.map[i]) THEN CurrentAddress[i] ELSE 0]
  /\ \/ Works /\ Leave("call")
     \/ Fails /\ Leave("dead")   \* SetVirtualAddressMap()
  /\ UNCHANGED <<load, held, board, rsdp, at, graphics, MapSize, grown, current, services>>

\* A 32 bit processor without long mode comes back.
CallKernelThroughGate ==
  /\ blPc = "call"
  /\ \/ Works /\ Leave("kernel")
     \/ Fails /\ Leave("dead")
  /\ UNCHANGED <<load, held, board, rsdp, at, graphics, way_out>>

BootLoaderNext ==
  \/ Start \/ AcpiFindRsdp \/ InitGraphics \/ CreateEvent \/ Load \/ IsLoaded
  \/ GenerateGateData \/ GetMemoryMap \/ TimerEvent \/ ExitBootServices
  \/ SetupVirtualAddresses \/ CallKernelThroughGate

\* The processor goes on; the firmware need not have events.
BootLoaderFairness == WF_blVars(BootLoaderNext)
BootLoaderSpec == BootLoaderInit /\ [][BootLoaderNext]_blVars /\ BootLoaderFairness

Stopped == blPc \in {"returned", "dead", "kernel"}

-----------------------------------------------------------------------------

\* The kernel is entered with the boot services gone, loaded as a whole, and with the
\* memory map, the parameters and the gate it is told of still there.
KernelReady == blPc = "kernel" =>
  /\ services = "runtime" /\ current /\ kiStatus = "success"
  /\ {"params", "kernel", "map", "gate"} \subseteq held

\* A loader that returns to the firmware leaves neither its parameters nor an event
\* whose context they are, and the firmware still has its boot services.
LeavesNothing == blPc = "returned" =>
  {"params", "event"} \cap held = {} /\ services = "boot"

\* The kernel is told of the mode the screen is in, even if the mode could not be set,
\* and the screen is in the first mode above 1200 by 720 if setting it worked.
ScreenAsTold == blPc = "kernel" =>
  /\ told = screen
  /\ LET large(m) == board.modes[m].width > 1200 /\ board.modes[m].height > 720 IN
     failures = 0 => \A m \in 1..Len(board.modes) : large(m) => large(screen) /\ screen <= m

HasTable(t) == \E i \in 1..Len(board.tables) : board.tables[i] = t

\* Where there is an ACPI root.
IsRoot(a) ==
  \/ a \in 1..Len(board.tables) /\ board.tables[a] # "other"
  \/ a = InBios /\ board.legacy.bios
  \/ \E k \in board.legacy.ebda : a = InEbda(k)

\* The machine has a root only in its EBDA, and none at the beginning of it.
OnlyWithinEbda ==
  ~HasTable("acpi20") /\ ~HasTable("acpi10") /\ ~board.legacy.bios /\ 0 \notin board.legacy.ebda

\* The kernel gets the ACPI 2.0 root if the firmware has one, else another root, and
\* none only if there is none; but for a root within the EBDA (RsdpIsRoot).
RsdpPreferred == blPc = "kernel" =>
  /\ HasTable("acpi20") => rsdp > 0 /\ board.tables[rsdp] = "acpi20"
  /\ rsdp = 0 => ~\E a \in (1..Len(board.tables)) \cup {InBios} : IsRoot(a)
  /\ rsdp = 0 => board.legacy.ebda = {}
  /\ rsdp = 0 \/ IsRoot(rsdp) \/ OnlyWithinEbda

\* What the kernel is told is the root is one: `Find RSD_PTR Table In Legacy Area,
\* @retval EFI_ACPI_6_0_ROOT_SYSTEM_DESCRIPTION_POINTER' (Bootloader.c:180-184).
RsdpIsRoot == blPc = "kernel" /\ rsdp # 0 => IsRoot(rsdp)

\* No two pieces that stay mapped for the runtime services share a virtual page.
RuntimeApart == blPc = "call" => \A i, j \in DOMAIN virtual :
  i # j /\ Kept(board.map[i]) /\ Kept(board.map[j]) =>
    \/ virtual[i] + board.map[i].pages <= virtual[j]
    \/ virtual[j] + board.map[j].pages <= virtual[i]

\* The loader comes to an end: the memory map does not outgrow its buffer for ever.
LoaderEnds == (blPc # "time") ~> Stopped

\* However the loader ends, it has given back what it must, and the kernel is
\* entered only after the firmware has let go of the machine.
LoaderSound == PoolsFreed /\ LeavesNothing /\ KernelReady

\* What the kernel runs on and finds its names in is what its file says.
KernelLoaded == LoadedWhole /\ TablesSound

\* What the kernel is told of screen, tables and runtime services is true, but for an
\* ACPI root that is only within the EBDA.
ParamsTrue == ScreenAsTold /\ RsdpPreferred /\ RuntimeApart
=============================================================================
