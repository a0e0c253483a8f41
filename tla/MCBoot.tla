------------------------------- MODULE MCBoot -------------------------------
(***************************************************************************)
(* The programs that run one after the other while the machine starts, on  *)
(* small instances: the loader, the page tables of init.c, the calibration *)
(* of the TSC, the timers, the buses and the display adapter.  They share  *)
(* nothing that is modelled, so each behaviour is one of `part'.           *)
(***************************************************************************)
EXTENDS BootLoader, EarlyPaging, TickMeasure, TimerIrq, Pci, GpuInit

VARIABLE part

Parts == {"loader", "paging", "pit", "irq", "ticks", "pci", "gpu"}

bootVars == <<part, blVars, epVars, pitVars, irqVars, tmVars, pciVars, giVars>>

-----------------------------------------------------------------------------
(* The loader: images whose debug sections come before, after or without   *)
(* the code, and the displays, tables and memory maps of four machines.    *)

MCTables == <<".debug_info", ".symtab">>

Seg(pa, filesz, memsz) == [load |-> TRUE, pa |-> pa, filesz |-> filesz, memsz |-> memsz]
Note == [load |-> FALSE, pa |-> 9, filesz |-> 1, memsz |-> 1]
Img(header, sections, segments) == [header |-> header, sections |-> sections, segments |-> segments]

MCImages ==
  {Img("good", s, g) :
     s \in {<<".symtab", ".text", ".debug_info">>, <<".text", ".debug_info", ".symtab">>, <<>>},
     g \in {<<Seg(4, 2, 2), Note, Seg(6, 1, 3)>>, <<Seg(6, 2, 2), Seg(4, 3, 4)>>}}
  \cup {Img("magic", <<>>, <<>>), Img("good", <<".text">>, <<Note>>)}

Mode(w, h) == [width |-> w, height |-> h]
Piece(t, r, n) == [type |-> t, runtime |-> r, pages |-> n]

Legacy(b, e) == [bios |-> b, ebda |-> e]

MCBoards ==
  {[tables |-> r[1], legacy |-> r[2], modes |-> m[1], mode |-> m[2], map |-> d] :
     r \in ({<<"acpi10", "other", "acpi20">>, <<"other", "acpi10">>} \X {Legacy(TRUE, {})})
           \cup ({<<"other">>} \X {Legacy(FALSE, {}), Legacy(TRUE, {1}), Legacy(FALSE, {0}), Legacy(FALSE, {2})}),
     m \in {<<<<Mode(1920, 600), Mode(1920, 1080), Mode(1280, 800)>>, 1>>, <<<<Mode(640, 480)>>, 1>>},
     d \in {<<Piece("runtime", TRUE, 2), Piece("conventional", FALSE, 3), Piece("mmio", TRUE, 1),
              Piece("reserved", TRUE, 1), Piece("runtime", TRUE, 2)>>}}

-----------------------------------------------------------------------------
(* The page tables: data of the loader and registers within and across     *)
(* large pages, the display adapter's in the second table of directories,  *)
(* and a frame buffer at another address than its own.                     *)

MCIdentity  == {<<5, 2>>, <<7, 4>>}
MCRegisters == {<<9, 2>>, <<12, 1>>, <<1, 2>>}
MCWindows   == {<<25, 2>>}
MCBuffers   == {<<16, 14, 4>>}

-----------------------------------------------------------------------------
(* The buses: a bridge of either kind on the first two, a display behind   *)
(* them, and devices with one function or two.                             *)

MCBuses == 0..2
Used == {<<0, 0, 0>>, <<0, 0, 1>>, <<0, 1, 0>>, <<1, 0, 0>>, <<1, 0, 1>>}
Fits(f) == {"none", "vga", "bridge"} \cup (CASE f = <<0, 0, 0>> -> {"cardbus"}
                                            [] f = <<0, 1, 0>> -> {"bridge32"} [] OTHER -> {})
Plugged ==
  {c \in [Used -> {"none", "vga", "cardbus", "bridge", "bridge32"}] :
     /\ \A f \in Used : c[f] \in Fits(f)
     /\ \A f, g \in Used : {c[f], c[g]} \subseteq {"bridge", "bridge32"} /\ f[1] = g[1] => f = g}
MCMachines ==
  {[class   |-> [f \in Functions |-> IF f \in Used THEN c[f] ELSE IF f = <<2, 0, 0>> THEN "vga" ELSE "none"],
    leadsTo |-> [f \in Functions |-> f[1] + 1],
    multi   |-> m] : c \in Plugged, m \in SUBSET {<<0, 0>>, <<1, 0>>}}

-----------------------------------------------------------------------------
(* The capabilities of the display adapter.                                *)

MCCapLists ==
  {c \in UNION {[1..n -> {"common", "notify", "device", "other"}] : n \in 1..4} :
     \A j, k \in DOMAIN c : c[j] = "common" /\ c[k] = "common" => j = k}

-----------------------------------------------------------------------------

\* The input of the loader is chosen where the loader is what runs.
MCBootInit ==
  /\ part \in Parts
  /\ IF part = "loader" THEN LoaderStart(Images, Boards)
     ELSE LoaderStart({CHOOSE g \in Images : TRUE}, {CHOOSE b \in Boards : TRUE})
  /\ EarlyPagingInit /\ PitInit /\ TimerIrqInit /\ TickMeasureInit /\ PciInit /\ GpuInitInit

Only(p) == part = p /\ UNCHANGED part

InLoader(A) == Only("loader") /\ A /\ UNCHANGED <<epVars, pitVars, irqVars, tmVars, pciVars, giVars>>
InPaging(A) == Only("paging") /\ A /\ UNCHANGED <<blVars, pitVars, irqVars, tmVars, pciVars, giVars>>
InPit(A)    == Only("pit") /\ A /\ UNCHANGED <<blVars, epVars, irqVars, tmVars, pciVars, giVars>>
InIrq(A)    == Only("irq") /\ A /\ UNCHANGED <<blVars, epVars, pitVars, tmVars, pciVars, giVars>>
InTicks(A)  == Only("ticks") /\ A /\ UNCHANGED <<blVars, epVars, pitVars, irqVars, pciVars, giVars>>
InPci(A)    == Only("pci") /\ A /\ UNCHANGED <<blVars, epVars, pitVars, irqVars, tmVars, giVars>>
InGpu(A)    == Only("gpu") /\ A /\ UNCHANGED <<blVars, epVars, pitVars, irqVars, tmVars, pciVars>>

MCBootNext ==
  \/ InLoader(BootLoaderNext) \/ InPaging(EarlyPagingNext) \/ InPit(PitNext)
  \/ InIrq(TimerIrqNext) \/ InTicks(TickMeasureNext) \/ InPci(PciNext) \/ InGpu(GpuInitNext)

\* The fairness of the parts.
MCBootFairness ==
  /\ WF_bootVars(InLoader(BootLoaderNext))
  /\ WF_bootVars(InPit(PitNext))
  /\ WF_bootVars(InIrq(Boot)) /\ WF_bootVars(InIrq(Deliver))
  /\ WF_bootVars(InIrq(Handle)) /\ WF_bootVars(InIrq(Ticks))
  /\ WF_bootVars(InPci(Scan))
  /\ WF_bootVars(InGpu(Driver)) /\ WF_bootVars(InGpu(DeviceResets))

MCBootSpec == MCBootInit /\ [][MCBootNext]_bootVars /\ MCBootFairness

-----------------------------------------------------------------------------
(* Properties of several parts.                                            *)

\* Each part comes to an end, whatever the firmware, a stalled processor, the
\* buses and the capabilities of the device look like.
BootEnds == LoaderEnds /\ CalibrationEnds /\ ScanEnds /\ InitEnds
=============================================================================
