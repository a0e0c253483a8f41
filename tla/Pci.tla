--------------------------------- MODULE Pci ---------------------------------
(***************************************************************************)
(* pci_init() of kern/pci.c: the search of all buses for devices, which    *)
(* calls itself for the bus behind every bridge.  The frames of            *)
(* pci_scan_bus() are kept on a stack.                                     *)
(***************************************************************************)
EXTENDS Integers, Sequences

CONSTANTS
  Buses,       \* the numbers of the buses, 0 the first
  NDev, NFunc, \* devices of a bus, functions of a device: 32 and 8
  Machines     \* what may be plugged in, see below

\* A machine says of every function what it is ("none" where there is none),
\* which bus a bridge leads to, and which devices have several functions.
Functions == Buses \X (0..(NDev - 1)) \X (0..(NFunc - 1))
Classes   == {"none", "vga", "other", "cardbus", "bridge", "bridge32"}

\* The firmware has numbered the buses: each bridge leads to a bus of its own, with
\* a higher number than the one it is on.
Numbered(m) ==
  LET bridges == {f \in Functions : m.class[f] = "bridge"} IN
  /\ \A f \in bridges : m.leadsTo[f] \in Buses /\ m.leadsTo[f] > f[1]
  /\ \A f, g \in bridges : m.leadsTo[f] = m.leadsTo[g] => f = g

ASSUME BusesAssumption    == Buses \subseteq Nat /\ 0 \in Buses /\ {NDev, NFunc} \subseteq Nat \ {0}
ASSUME MachinesAssumption == \A m \in Machines : m.class \in [Functions -> Classes] /\ Numbered(m)

VARIABLES
  pciPc,     \* "off", "scan", "done"
  machine,
  frames,    \* the calls of pci_scan_bus() there are, each at a bus, dev and func
  attached   \* the functions given to pci_attach(), in order

pciVars == <<pciPc, machine, frames, attached>>

PciInit ==
  /\ pciPc = "off" /\ frames = <<>> /\ attached = <<>>
  /\ machine = [class |-> [f \in Functions |-> "none"], leadsTo |-> [f \in Functions |-> 0], multi |-> {}]

Frame(bus) == <<bus, 0, 0>>

StartScan ==
  /\ pciPc = "off"
  /\ machine' \in Machines
  /\ frames' = <<Frame(0)>> /\ pciPc' = "scan"
  /\ UNCHANGED attached

Here      == frames[Len(frames)]
ScanOn(f)   == frames' = [frames EXCEPT ![Len(frames)] = f]

NextDev(f)  == <<f[1], f[2] + 1, 0>>
NextFunc(f) == <<f[1], f[2], f[3] + 1>>

\* `continue' in the loop over the functions.
Skip(f) == NextFunc(f)

Class(f) == machine.class[f]

\* PCI_HDRTYPE_TYPE(bhlc) > 1: nothing there, or of a type that is not known.
Unsupported(f) == Class(f) \in {"none", "cardbus"}

MutantAllFuncs(f) == NFunc
FuncsOf(f) == IF <<f[1], f[2]>> \in machine.multi THEN NFunc ELSE 1

SkipDevice ==
  /\ Here[2] < NDev /\ Here[3] = 0 /\ Unsupported(Here)
  /\ ScanOn(NextDev(Here))
  /\ UNCHANGED <<pciPc, machine, attached>>

DeviceDone ==
  /\ Here[2] < NDev /\ Here[3] >= FuncsOf(Here)
  /\ ScanOn(NextDev(Here))
  /\ UNCHANGED <<pciPc, machine, attached>>

\* The functions of a device that is there.
AtFunction == Here[2] < NDev /\ Here[3] < FuncsOf(Here) /\ (Here[3] = 0 => ~Unsupported(Here))

SkipFunction ==
  /\ AtFunction /\ Class(Here) = "none"
  /\ ScanOn(Skip(Here))
  /\ UNCHANGED <<pciPc, machine, attached>>

\* pci_attach(): init_gpu() for a display, nothing for what no driver knows.
Attach ==
  /\ AtFunction /\ Class(Here) \notin {"none", "bridge"}
  /\ attached' = Append(attached, Here)
  /\ ScanOn(NextFunc(Here))
  /\ UNCHANGED <<pciPc, machine>>

Secondary(f) == machine.leadsTo[f]

\* pci_bridge_attach() of a bridge whose I/O window it supports.
AttachBridge ==
  /\ AtFunction /\ Class(Here) = "bridge"
  /\ attached' = Append(attached, Here)
  /\ frames' = Append(frames, Frame(Secondary(Here)))
  /\ UNCHANGED <<pciPc, machine>>

\* The bus is done; the scan that found the bridge to it goes on.
BusDone ==
  /\ Here[2] = NDev
  /\ LET n == Len(frames) - 1 IN
       IF n = 0 THEN pciPc' = "done" /\ UNCHANGED frames
       ELSE /\ frames' = [SubSeq(frames, 1, n) EXCEPT ![n] = NextFunc(@)]
            /\ UNCHANGED pciPc
  /\ UNCHANGED <<machine, attached>>

Scan ==
  /\ pciPc = "scan"
  /\ SkipDevice \/ DeviceDone \/ SkipFunction \/ Attach \/ AttachBridge \/ BusDone

PciNext     == StartScan \/ Scan
PciFairness == WF_pciVars(Scan)
PciSpec     == PciInit /\ [][PciNext]_pciVars /\ PciFairness

-----------------------------------------------------------------------------
(* Properties.                                                             *)

\* A function of a device that answers, on a device whose function 0 answers.
Visible(f) ==
  /\ Class(f) # "none" /\ ~Unsupported(<<f[1], f[2], 0>>)
  /\ f[3] > 0 => <<f[1], f[2]>> \in machine.multi

\* The buses behind bridges that are supported; the firmware numbers a bus
\* higher than the one its bridge is on.
Reached[b \in Buses] ==
  b = 0 \/ \E f \in Functions : /\ f[1] < b /\ Reached[f[1]] /\ Visible(f)
                                /\ Class(f) = "bridge" /\ Secondary(f) = b

\* Every function that answers is attached, once, when the scan is over
\* (pci.c:197): a display that is missed leaves the kernel without a screen, one
\* found twice has its queues set up while they are in use.
EachAttachedOnce ==
  pciPc = "done" =>
    /\ {attached[k] : k \in DOMAIN attached} = {f \in Functions : Reached[f[1]] /\ Visible(f)}
    /\ \A j, k \in DOMAIN attached : attached[j] = attached[k] => j = k

\* The recursion (pci.c:238) goes from every bus to one with a higher number: a
\* bus scanned inside its own scan would use up the kernel's stack.
DepthBounded == \A j, k \in DOMAIN frames : j < k => frames[j][1] < frames[k][1]

\* The scan comes to its end.
ScanEnds == (pciPc = "scan") ~> (pciPc = "done")

\* Each function behind whatever bridges is attached once, and the recursion is
\* as deep as the buses are.
ScanSound == EachAttachedOnce /\ DepthBounded
=============================================================================
